SPECIFICATION PartSpec
CONSTANTS
  u = u
  v = v
  Size = 34
  Sizes = {0, 3, 5, 13, 30}
  MaxMsgs = 5
  Writer = {"w1"}
  WSizes = {3, 13, 30}
  Sys = {"s1"}
  SysSize = 5
  Cpu = {"c1"}
  TmpMax = 2
  MaxInfo = 2
  Pages = 5
  Parts = {0, 1, 2}
  Frag = {0, 1}
  Fixed = {1}
  MinFree = 2
INVARIANTS
    RingSafe
    NumbersAccounted
    MemoryOwned
PROPERTIES
    FifoSpec
    PoolSpec
    ListsAreSequences
    TraceKept
SYMMETRY Sym
