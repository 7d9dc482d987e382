SPECIFICATION FairSpec
CONSTANTS
    a = a
    b = b
    Id = {a, b}
    NoId = NoId
    Streamed = {b}
    Packets = 2
    MaxLen = 3
    Chunk = 2
    MaxInd = 3
    Grouped = TRUE
    MaxRefuse = 2
INVARIANTS
    PacketsWhole
    ChainsKept
PROPERTIES
    AllIndicated
