SPECIFICATION Spec
CONSTANTS
  NumSectors = 14
  BLOCK_SECTOR_SIZE = 2
  INODE_NUM_DBLOCKS = 2
  INDBLOCK_NUM_CHILDREN = 2
  UINT_MAX = 63
  File = {f1, f2}
  Length = {0, 3, 9}
  Offset = {3, 5}
  MaxCreates = 2
  NoFile = NoFile
  Inumber = {1, 2, 3}
  Name = {"a", "b"}
  Path <- MCPath
  Proc = {p1, p2}
  Fd = {d1}
  MaxLost = 1
INVARIANTS   DirsRight
PROPERTIES  OpensKept
SYMMETRY MCAlike
CHECK_DEADLOCK FALSE
