SPECIFICATION Spec
CONSTANTS
  CpuThread = {ct1, ct2}
  Irqs = {0, 5, 14}
  Registered = {0, 14}
  Traps = {14, 48}
  MaxRaised = 2
  MaxNested = 1
  PageThread = {t1, t2}
  free_pages = 5
  user_page_limit = 2
  BitmapPages = 1
  MaxGroup = 2
  NoOwner = NoOwner
  HeapThread = {t1, t2}
  PAGE = 10
  HEADER = 1
  SMALLEST = 2
  HeapPages = 2
  SizeWrap = 64
  Sizes = {4, 6}
  Callocs <- MCCallocs
  MaxBlocks = 2
  NoHolder = NoHolder
  ListId = {1, 2}
  Elem = {1, 2, 3, 4}
  Key <- MCKey
  HashElem = {1, 2, 3, 4, 5, 6}
  HashKey <- MCHashKey
  Hash <- MCHash
  MIN_BUCKETS = 1
  MAX_BUCKETS = 2
  ELEM_BITS = 2
  bit_cnt = 5
  Thread = {main, t1}
  initial_thread = main
  idle_thread = idle
  PRI_MIN = 0
  PRI_MAX = 63
  F = 4
  WINDOW = 2
  TIMER_FREQ = 4
  TIME_SLICE = 2
  Nice = {0, 1}
  MaxEvents = 2
INVARIANTS HandlersRight PagesOwned  ContainersRight 
  
CHECK_DEADLOCK FALSE
