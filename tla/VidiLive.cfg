SPECIFICATION FairSpec
CONSTANTS
  n1 = n1
  n2 = n2
  g1 = g1
  i1 = i1
  i2 = i2
  Entity = {g1}
  DSIG = {g1}
  Ids = {i1}
  Reqs = {"BIG"}
  RxBuf = {}
  Frag = {1}
  ReqMax = 6
  IndMax = 3
  Hdrs = 1
  AckPer = 2
  IdPer = 2
  RnrTicks = 2
  OobMax = 0
  MayFail = FALSE
  MayStop = FALSE
PROPERTIES
  EveryRequestAnswered
  EveryIndicationAcked
