\* Three threads; they have the same priority in Synch, and two in Alarm.
SPECIFICATION MCSpec
CONSTANTS
  t1 = t1 t2 = t2 t3 = t3
  a1 = a1 a2 = a2 a3 = a3
  c1 = c1 l1 = l1
  Thread <- MCThread
  idle_thread = idle
  initial_thread = t1
  PRI_MIN = 0 PRI_MAX = 1
  Lock = {l1}
  Sema = {a1, a2, a3}
  DownSema = {}
  UpSema = {}
  alive_sema <- MCAlive
  Cond = {c1}
  CondLock <- MCCondLock
  NewPriority = {1}
  MAX_DEPTH = 8
  MaxValue = 1
  NULL = NULL
  Naps = {0, 2}
  TIME_SLICE = 2
INVARIANT SleepersBlocked
PROPERTIES AlarmRings WaitersServed
