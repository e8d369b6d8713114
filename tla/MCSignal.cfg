\* cond_signal over two waiters, one of which has been donated to.
SPECIFICATION SignalSpec
CONSTANTS
  t1 = t1 t2 = t2 t3 = t3 t4 = t4
  a1 = a1 a2 = a2 a3 = a3 a4 = a4
  c1 = c1 l1 = l1 l2 = l2
  Thread <- MCThread
  idle_thread = idle
  initial_thread = t1
  PRI_MIN = 0 PRI_MAX = 2
  Lock = {l1, l2}
  Sema = {a1, a2, a3, a4}
  DownSema = {}
  UpSema = {}
  alive_sema <- MCAlive
  Cond = {c1}
  CondLock <- MCCondLock
  NewPriority = {}
  MAX_DEPTH = 8
  MaxValue = 1
  NULL = NULL
PROPERTY SignalsHighest
