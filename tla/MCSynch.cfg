\* Three threads.
SPECIFICATION MCSpec
CONSTANTS
  t1 = t1 t2 = t2 t3 = t3
  c1 = c1 s1 = s1 l1 = l1 l2 = l2
  Thread <- MCThread
  idle_thread = idle
  initial_thread = t1
  PRI_MIN = 0 PRI_MAX = 2
  Lock = {l1, l2}
  Sema <- MCSema
  DownSema <- MCSema
  UpSema = {s1}
  alive_sema <- MCAlive
  Cond = {c1}
  CondLock <- MCCondLock
  NewPriority = {0, 1, 2}
  MAX_DEPTH = 8
  MaxValue = 2
  NULL = NULL
INVARIANTS LockExclusion QueuesExact NoLostWakeup PriorityScheduling CondAccounting
SYMMETRY MCAlike
