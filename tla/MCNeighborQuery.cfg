SPECIFICATION QuerySpec
CONSTANTS
    ThreadNum = 2
    SocketNum = 1
    Vertices <- MCVertices
    PartitionNum = 3
    PartitionOf <- MCPartitionOf
    Graphs <- MCGraphs
    Mixed <- MCMixed
    Bloom <- MCBloom
    Biases <- MCBiases
    MaxPrepares = 2
INVARIANTS
    QueryTypeOK
    HasNeighborExact
    AcceptedByWeight
