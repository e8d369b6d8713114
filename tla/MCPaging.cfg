SPECIFICATION FairSpec
CONSTANTS
 p1 = p1
 p2 = p2
 Proc = {p1, p2}
 DataPage = {0}
 MaxStack = 2
 NumFrames = 2
 NumSlots = 2
 MaxStores = 1
 MaxTick = 1
 MaxLost = 1
 Uses <- PagesUsed
 None = None
INVARIANTS MemoryAccounted DataKept OwnersLive
PROPERTY FaultServed
CHECK_DEADLOCK FALSE
