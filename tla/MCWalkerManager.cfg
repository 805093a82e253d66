CONSTANTS
    ThreadNum = 4
    SocketNum = 2
    WalkerNums = {11, 19}
    ActiveNums = {5}
    PageWalkers = 8
    AlignWalkers = 2
    Chunk = 2
    Word = 64
SPECIFICATION FairWalkerSpec
INVARIANTS
    WalkerTypeOK
    RangesTile
    EachWalkerProcessedOnce
    OvershootBounded
PROPERTY LoopEnds
