SPECIFICATION FairSpec
CONSTANTS
  n1 = n1
  n2 = n2
  s1 = s1
  i1 = i1
  i2 = i2
  c1 = c1
  c2 = c2
  Entity = {n1, n2}
  NL = {n1, n2}
  EMax = 3
  Ids = {i1, i2}
  Chan = {}
  Owner <- NoOwner
  Reqs = {"DATA"}
  MaxFrag = 2
  XMOREC = 3
  NReq = 1
  ByteMod = 2
  Labelled = TRUE
  MayFail = FALSE
  CtrlHeld = FALSE
INVARIANTS
  QueueSound
PROPERTIES
  ImplementsFifo
  EveryRequestAnswered
