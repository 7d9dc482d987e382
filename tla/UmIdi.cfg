SPECIFICATION FairSpec
CONSTANTS
    x = x
    y = y
    Entity = {x, y}
    Slots = 2
    MaxData = 1
    MaxTimeouts = 1
INVARIANTS
    RequestsAgree
PROPERTIES
    NoDangling
    ReleaseEnds
