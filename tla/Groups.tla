-------------------------------- MODULE Groups --------------------------------
(***************************************************************************)
(* The groups that get_partition_hint cuts n vertices into: of one size, a *)
(* power of two, but for the last.  Shared by the planning of partitions   *)
(* (PartitionPlan) and the layout of the graph (GraphLayout).              *)
(***************************************************************************)
EXTENDS Arithmetic

CONSTANTS MaxGroupNum,       \* max_group_num
          MinPartitionBits,  \* min_partition_bits
          MaxPartitionBits,  \* the largest partition_bits that is planned with, 24
          Word               \* one more than the largest vertex_id_t

ASSUME GroupsAssumption ==
    /\ MaxGroupNum \in Nat \ {0} /\ Word \in Nat
    /\ MinPartitionBits \in Nat /\ MaxPartitionBits \in Nat
    /\ MinPartitionBits <= MaxPartitionBits

Least(a, b) == IF a < b THEN a ELSE b
CeilDiv(a, b) == (a + b - 1) \div b

\* As few bits as leave at most MaxGroupNum whole groups; a rest is one group more.
GroupBits(n) ==
    CHOOSE b \in 0 .. n :
        /\ n \div TwoTo[b] <= MaxGroupNum
        /\ \A c \in 0 .. b - 1 : n \div TwoTo[c] > MaxGroupNum

GroupNum(n) == CeilDiv(n, TwoTo[GroupBits(n)])

GroupBegin(n, g) == g * TwoTo[GroupBits(n)]
GroupEnd(n, g)   == Least(n, ((g + 1) * TwoTo[GroupBits(n)]) % Word)

\* Rounded up to whole groups, n vertices are still numbers of vertex_id_t.
WholeGroupsFit(n) == GroupNum(n) * TwoTo[GroupBits(n)] < Word

\* The sizes of partitions to choose from, as powers of two.
PartitionBits(n) ==
    Least(MinPartitionBits, GroupBits(n)) .. Least(MaxPartitionBits, GroupBits(n))

\* How many partitions of 2 ^ b vertices a group is cut into.
PartitionsOf(n, g, b) == CeilDiv(GroupEnd(n, g) - GroupBegin(n, g), TwoTo[b])
=============================================================================
