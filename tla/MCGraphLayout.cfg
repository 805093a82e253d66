CONSTANTS
    ThreadNum = 4
    SocketNum = 2
    RawGraphs <- MCRawGraphs
    MaxGroupNum = 1
    MinPartitionBits = 0
    MaxPartitionBits = 24
    Word = 64
SPECIFICATION FairGraphSpec
INVARIANTS
    GraphTypeOK
    LookupAgrees
    DegreesFall
    ShuffleBalanced
    SlotsExclusive
    GraphKept
PROPERTY LayoutEnds
