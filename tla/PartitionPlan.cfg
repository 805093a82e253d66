\* 11 vertices in three groups, the last one of three vertices; groups of four
\* are cut into 4, 2 or 1 partitions.  Of the 11 partitions of the finest plan
\* only 7 are allowed.  No plan fits if no size was benchmarked at all.
CONSTANTS
    VertexNum = 11
    MaxGroupNum = 2
    MinPartitionBits = 0
    MaxPartitionBits = 24
    Word = 64
    PartitionCap = 7
    Times = {1, 3}
SPECIFICATION PlanSpec
INVARIANTS
    PlanTypeOK
    RowsOptimal
    PlanOptimal
