SPECIFICATION FairSpec
CONSTANTS
    b1 = b1
    b2 = b2
PROPERTIES
    DataMoves
    EndReached
    GivenBack
