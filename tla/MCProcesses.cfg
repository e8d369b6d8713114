SPECIFICATION Spec
CONSTANTS
  Thread = {m, c1, c2}
  Main = m
  Status = {ok}
  Killed = Killed
  NoThread = NoThread
  OpenFile = {"f"}
  Dir = {"d"}
  MaxFds = 4
  Size = 2
  PGSIZE = 2
  MapFile = {"f"}
  MapLength = {1, 3, 4}
  NumPages = 4
  MaxMaps = 2
  Program = {{}, {2}}
  AddrSpace = 64
  PHYS_BASE = 48
  FileSize = 9
  Programs <- MCPrograms
  MAX_ARGS = 2
INVARIANTS WaitRight ExecTruth  DescriptorsRight ProgramThere
PROPERTIES MappingsRight ExecReturns
CHECK_DEADLOCK FALSE
