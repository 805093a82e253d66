SPECIFICATION MemorySpec
CONSTANTS
    ThreadNum = 4
    SocketNum = 2
    WalkerNum = 5
    WalkLen = 2
    WalkerCap = 100
    PartitionNum = 3
    VertexNum <- MCVertexNum
    BufferUnits <- MCBufferUnits
    ObjectSize <- MCObjectSize
    Alignment = 16
    MemQuota = 216
    GraphSize = 100
    FilterSize = 32
INVARIANT
    QuotaKept
CHECK_DEADLOCK FALSE
