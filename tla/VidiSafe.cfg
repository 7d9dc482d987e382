SPECIFICATION Spec
CONSTANTS
  n1 = n1
  n2 = n2
  g1 = g1
  i1 = i1
  i2 = i2
  Entity = {n1}
  DSIG = {}
  Ids = {i1}
  Reqs = {"BIG", "REMOVE"}
  RxBuf = {1}
  Frag = {1}
  ReqMax = 2
  IndMax = 3
  Hdrs = 1
  AckPer = 2
  IdPer = 2
  RnrTicks = 2
  OobMax = 1
  MayFail = TRUE
  MayStop = TRUE
INVARIANTS
    Credits
    MemoryKept
    IndicationsOwned
    TimerRuns
CHECK_DEADLOCK FALSE
