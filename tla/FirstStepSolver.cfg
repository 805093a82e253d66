CONSTANTS
    ThreadNum = 2
    SocketNum = 1
    PartitionNum <- MCPartitionNum
    Vertices <- MCVertices
    Neighbors <- MCNeighbors
    PartitionIds <- MCPartitionIds
    PartitionOf <- MCPartitionOf
    SocketPartitions <- MCSocketPartitions
    WalkerNum = 5
    WalkLen = 3
    FitWalkers = 3
    WalkerCap = 14
    ThreadBegin <- MCThreadBegin
    ThreadEnd <- MCThreadEnd
    Node2vec = TRUE
SPECIFICATION SolverSpec
INVARIANT FirstStepStatic
