SPECIFICATION Spec
CONSTANTS
  Writer = {t1, t2}
  Reader = {r1, r2}
  Intr = Intr
  INTQ_BUFSIZE = 2
  MsgLen = 3
  MaxEvents = 2
  Nobody = Nobody
  IoThread = {t1, t2}
  BootThread = boot
  Machines <- MCMachines
  LargeDisk = 8
  MaxCalls = 3
  MaxRequests = 2
  MaxSpurious = 1
  MaxFailures = 1
  NoThread = NoThread
  KeyCodes = {42, 54, 56, 57400, 29, 57373, 58, 30, 2, 83}
INVARIANTS    RequestsRight
PROPERTIES KeysRight 
CHECK_DEADLOCK FALSE
