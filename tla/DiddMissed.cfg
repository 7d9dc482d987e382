SPECIFICATION Spec
CONSTANTS
  a1 = a1
  a2 = a2
  dimaint = dimaint
  c1 = c1
  c2 = c2
  Adapter = {a1}
  Maint = dimaint
  Client = {c1}
  Slots = 3
  Notifications = 1
  ReadLen = 3
  RegisterFirst = FALSE
  MaxAdds = 1
INVARIANTS
  NoAdapterMissed
