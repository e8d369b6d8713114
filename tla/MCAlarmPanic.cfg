\* The assertion in thread_unblock.
SPECIFICATION Spec
CONSTANTS
  t1 = t1 t2 = t2 t3 = t3
  Thread <- MCThread
  idle_thread = idle
  initial_thread = t1
  PRI_MIN = 0 PRI_MAX = 0
  Naps = {0, 1, 2}
  TIME_SLICE = 2
INVARIANTS UnblocksBlocked
