SPECIFICATION PartSpec
CONSTANTS
    x1 = x1
    x2 = x2
    x3 = x3
    none = none
    Parts = {"call", "pair", "data", "reset", "flow", "wide", "poll", "ncci", "adjust", "queue", "shared"}
INVARIANTS
    DataOwned
    ConnectionsMapped
PROPERTIES
    CallsKnown
    ReceiveOwned
    CommandsInOrder
SYMMETRY Symmetry
