SPECIFICATION AllSpec
CONSTANTS
  p1 = p1  p2 = p2
  b1 = b1  b2 = b2  b3 = b3  b4 = b4
  x = x  y = y  f1 = f1  f2 = f2
  Proc = {p1, p2}
  Block = {b1, b2, b3}
  Data = {0, 1}
  Initial = 0
  NoBlock = NoBlock
  NoData = NoData
  MAXOPBLOCKS = 2
  LOGSIZE = 4
  nlog = 4
  OpBlocks = 1
  MaxCalls = 3
  MaxCrashes = 2
SYMMETRY Symmetry
INVARIANTS QuietDurable NoPanic
  SleepersServed NoRing BuffersSuffice
  InodesKept LookupsExplained NothingLeft
  ReadsBack BlocksExact InodesSaved PartsFit
PROPERTIES ImplementsAtomicDisk ImplementsBlockStore
CHECK_DEADLOCK FALSE
