\* The copy, after cache_lock is released.
SPECIFICATION MCSpec
CONSTANTS
  c1 = c1 c2 = c2 r1 = r1
  Client <- MCTwo
  Reader = {r1}
  flusher = flusher
  Flushing = TRUE
  NumSectors = 3
  Data = {d1}
  SharedData = {d1}
  SharedWrites = {0, 1, 2}
  CACHE_NUM_SECTORS = 2
  MAX_READ_AHEAD_THREADS = 1
  MaxTick = 1
  SharedTick = 1
  NULL = NULL
  Parts = {"shared"}
INVARIANT CopiesOwnSector
