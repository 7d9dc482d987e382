SPECIFICATION Spec
CONSTANTS
  a1 = a1
  a2 = a2
  dimaint = dimaint
  c1 = c1
  c2 = c2
  Adapter = {a1, a2}
  Maint = dimaint
  Client = {c1, c2}
  Slots = 2
  Notifications = 2
  ReadLen = 3
  RegisterFirst = TRUE
  MaxAdds = 2
INVARIANTS
    EntriesSound
    NoAdapterMissed
SYMMETRY SymDidd
