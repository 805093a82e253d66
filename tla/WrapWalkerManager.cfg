CONSTANTS
    ThreadNum = 2
    SocketNum = 1
    WalkerNums = {6}
    ActiveNums = {6}
    PageWalkers = 4
    AlignWalkers = 4
    Chunk = 4
    Word = 8
SPECIFICATION WalkerSpec
INVARIANT EachWalkerProcessedOnce
