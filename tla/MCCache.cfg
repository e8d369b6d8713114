\* One client by itself; or two with write-behind and read-ahead.
SPECIFICATION MCSpec
CONSTANTS
  c1 = c1 c2 = c2 r1 = r1
  Client <- MCTwo
  Reader = {r1}
  flusher = flusher
  Flushing = TRUE
  NumSectors = 3
  Data = {d1, d2}
  SharedData = {d1}
  SharedWrites = {0}
  CACHE_NUM_SECTORS = 2
  MAX_READ_AHEAD_THREADS = 1
  MaxTick = 2
  SharedTick = 1
  NULL = NULL
  Parts <- MCParts
INVARIANTS UniqueSector AheadCounted
PROPERTY IsFlatDisk
SYMMETRY MCClients
