SPECIFICATION Spec
CONSTANTS
  n1 = n1
  n2 = n2
  s1 = s1
  i1 = i1
  i2 = i2
  c1 = c1
  c2 = c2
  Entity = {n1}
  NL = {n1}
  EMax = 3
  Ids = {i1}
  Chan = {c1, c2}
  Owner <- TwoOwner
  Reqs = {"DATA", "CTRL", "REMOVE"}
  MaxFrag = 2
  XMOREC = 3
  NReq = 2
  ByteMod = 3
  Labelled = TRUE
  MayFail = TRUE
  CtrlHeld = TRUE
INVARIANTS
    QueueSound
    AnswersFound
PROPERTIES
    AnswersHonest
SYMMETRY SymChan
