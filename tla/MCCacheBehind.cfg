\* Write-behind while a client writes.
SPECIFICATION MCSpec
CONSTANTS
  c1 = c1 c2 = c2 r1 = r1
  Client = {c1}
  Reader = {}
  flusher = flusher
  Flushing = TRUE
  NumSectors = 2
  Data = {d1, d2}
  SharedData = {d1, d2}
  SharedWrites = {0, 1}
  CACHE_NUM_SECTORS = 2
  MAX_READ_AHEAD_THREADS = 1
  MaxTick = 1
  SharedTick = 1
  NULL = NULL
  Parts = {"shared"}
INVARIANT CleanOnDisk
