CONSTANTS
    ThreadNum = 6
    SocketNum = 2
    PartitionNum <- MCPartitionNum
SPECIFICATION FairClaimSpec
INVARIANTS
    ClaimTypeOK
    ExclusivePartition
    EachPartitionWalkedOnce
PROPERTY RegionEnds
