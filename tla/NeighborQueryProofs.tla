------------------------- MODULE NeighborQueryProofs -------------------------
(***************************************************************************)
(* The neighbour query is exact, and node2vec accepts by weight, for every *)
(* graph, hash, filter, team and schedule of the two parallel loops.       *)
(***************************************************************************)
EXTENDS NeighborQuery, CommonProofs, FiniteSetTheorems

-----------------------------------------------------------------------------
(* Sequences, and what std::sort leaves of one                             *)

\* Sorting keeps the elements of a list.
LEMMA SortedElements ==
    ASSUME NEW list \in Seq(Vertices), NEW s \in Sorted(list)
    PROVE  /\ s \in Seq(Vertices)
           /\ Ascending(s)
           /\ Elements(s) = Elements(list)
<1>1. /\ s \in [1 .. Len(list) -> Elements(list)] /\ Len(list) \in Nat
      /\ DOMAIN list = 1 .. Len(list) /\ Elements(list) \subseteq Vertices
  BY DEF Sorted, Elements
<1>2. s \in Seq(Vertices)
  <2>1. s \in [1 .. Len(list) -> Vertices]
    BY <1>1
  <2> QED
    BY <1>1, <2>1
<1>3. Ascending(s)
  BY DEF Sorted
<1>4. ASSUME NEW v \in Elements(list) PROVE v \in Elements(s)
  <2> DEFINE In(q) == {i \in DOMAIN list : q[i] = v}
  <2>1. IsFiniteSet(DOMAIN list)
    BY <1>1, FS_Interval
  <2>2. IsFiniteSet(In(s)) /\ IsFiniteSet(In(list))
    BY <2>1, FS_Subset
  <2>3. In(list) # {}
    BY DEF Elements
  <2>4. Cardinality(In(s)) = Cardinality(In(list))
    BY DEF Sorted
  <2>5. In(s) # {}
    BY <2>2, <2>3, <2>4, FS_EmptySet
  <2> QED
    BY <1>1, <2>5 DEF Elements
<1>5. Elements(s) \subseteq Elements(list)
  BY <1>1 DEF Elements
<1> QED
  BY <1>2, <1>3, <1>4, <1>5

-----------------------------------------------------------------------------
(* The Bloom filter                                                        *)

\* There are finitely many edges.
LEMMA ItemNumType == ASSUME NEW g \in Graphs PROVE ItemNum(g) \in Nat
<1> DEFINE all == UNION {{v} \X DOMAIN g.lists[v] : v \in Vertices}
<1>1. ASSUME NEW v \in Vertices PROVE IsFiniteSet({v} \X DOMAIN g.lists[v])
  <2>1. g.lists[v] \in Seq(Vertices)
    BY NeighborQueryAssumption
  <2>2. DOMAIN g.lists[v] = 1 .. Len(g.lists[v]) /\ Len(g.lists[v]) \in Nat
    BY <2>1
  <2>3. IsFiniteSet(DOMAIN g.lists[v])
    BY <2>2, FS_Interval
  <2> QED
    BY <2>3, FS_Singleton, FS_Product
<1>2. IsFiniteSet({{v} \X DOMAIN g.lists[v] : v \in Vertices})
  <2> DEFINE sets == {{v} \X DOMAIN g.lists[v] : v \in Vertices}
             f == [v \in Vertices |-> {v} \X DOMAIN g.lists[v]]
  <2>1. f \in Surjection(Vertices, sets)
    BY DEF Surjection
  <2> HIDE DEF sets
  <2>2. IsFiniteSet(sets)
    BY <2>1, FS_Surjection, NeighborQueryAssumption
  <2> QED
    BY <2>2 DEF sets
<1>3. IsFiniteSet(all)
  BY <1>1, <1>2, FS_UNION
<1>4. Cardinality(all) \in Nat
  BY <1>3, FS_CardinalityType
<1> HIDE DEF all
<1>5. Cardinality(all) \div 2 \in Nat
  BY <1>4, Z3
<1> QED
  BY <1>4, <1>5 DEF ItemNum, all

\* Doubling comes to an end, so there is a word for every value of the mask.
LEMMA CapacityType == ASSUME NEW n \in Nat PROVE Capacity(n) \in Nat \ {0}
<1> DEFINE q == n \div 4
           T == {k \in 2 .. n + 2 : TwoTo[k] > q}
<1>1. q \in Nat /\ q <= n
  BY Z3
<1>2. \A k \in Nat : TwoTo[k] \in Nat \ {0} /\ TwoTo[k + 1] = 2 * TwoTo[k]
  BY TwoToType, TwoToStep
<1> HIDE DEF q
<1>3. n + 2 \in T
  BY <1>1, TwoToType
<1>4. PICK k \in T : \A j \in T : k <= j
  <2>1. T \in SUBSET Nat /\ T # {}
    BY <1>3
  <2> HIDE DEF T
  <2> QED
    BY <2>1, LeastNumber
<1>5. TwoTo[k] = 4 \/ TwoTo[k] \div 2 <= q
  <2>1. CASE k = 2
    <3>1. TwoTo[0 + 1] = 2 /\ TwoTo[1 + 1] = 2 * TwoTo[1]
      BY TwoToStep
    <3> QED
      BY <2>1, <3>1
  <2>2. CASE k # 2
    <3>1. k - 1 \in 2 .. n + 2 /\ ~(k <= k - 1) /\ (k - 1) + 1 = k
      BY <2>2
    <3>2. TwoTo[k - 1] \in Nat /\ TwoTo[k] = 2 * TwoTo[k - 1]
      <4>1. TwoTo[(k - 1) + 1] = 2 * TwoTo[k - 1]
        BY <1>2, <3>1
      <4> QED
        BY <1>2, <3>1, <4>1
    <3>3. TwoTo[k - 1] <= q
      <4>1. k - 1 \notin T
        BY <1>4, <3>1
      <4>2. ~(TwoTo[k - 1] > q)
        BY <3>1, <4>1
      <4> QED
        BY <1>1, <3>2, <4>2
    <3> DEFINE h == TwoTo[k - 1]
    <3> HIDE DEF h
    <3>4. (2 * h) \div 2 = h
      BY <3>2, Z3 DEF h
    <3> QED
      BY <3>2, <3>3, <3>4 DEF h
  <2> QED
    BY <2>1, <2>2
<1>6. \E c \in {TwoTo[j] : j \in 2 .. n + 2} : c > q /\ (c = 4 \/ c \div 2 <= q)
  BY <1>5
<1>7. Capacity(n) \in {TwoTo[j] : j \in 2 .. n + 2}
  BY <1>6, Zenon DEF Capacity, q
<1> QED
  BY <1>2, <1>7

\* A pair's value is a pair, and its word is one of the table.
LEMMA HashInTable ==
    ASSUME graph \in Graphs, NEW u \in Vertices, NEW v \in Vertices
    PROVE  /\ GetValue(u, v) \in Pairs
           /\ GetHash(GetValue(u, v)) \in 0 .. TableSize - 1
           /\ Bloom[GetValue(u, v)] \subseteq 0 .. 63
<1>1. GetValue(u, v) \in Pairs
  BY DEF GetValue, Pairs
<1>2. Mixed[GetValue(u, v)] \in Nat /\ Bloom[GetValue(u, v)] \in SUBSET (0 .. 63)
  BY <1>1, NeighborQueryAssumption
<1>3. TableSize \in Nat \ {0}
  BY ItemNumType, CapacityType DEF TableSize
<1>4. GetHash(GetValue(u, v)) \in 0 .. TableSize - 1
  <2> HIDE DEF TableSize
  <2> QED
    BY <1>2, <1>3, Z3 DEF GetHash
<1> QED
  BY <1>1, <1>2, <1>4

-----------------------------------------------------------------------------
(* The inductive invariant                                                 *)

\* The lists are in another order, but have the elements they were made with.
ListsKept == \A v \in Vertices : Elements(lists[v]) = Elements(graph.lists[v])

\* In the first loop the partitions that were taken and left are sorted; behind it all are.
SortedSoFar ==
    /\ phase = "sort" =>
          \A v \in Vertices :
              PartitionOf[v] < next /\ (\A t \in Team : held[t] # PartitionOf[v])
                => Ascending(lists[v])
    /\ phase \in {"insert", "query"} => \A v \in Vertices : Ascending(lists[v])

\* In the second loop an edge of a partition that was taken is in the filter, or a thread
\* that holds the partition has still to insert it; behind it all are in the filter.
InsertedSoFar ==
    /\ phase = "insert" =>
          \A u, v \in Vertices :
              PartitionOf[u] < next /\ v \in Elements(lists[u])
                => \/ Exist(u, v)
                   \/ \E t \in Team : held[t] = PartitionOf[u] /\ <<u, v>> \in rest[t]
    /\ phase = "query" =>
          \A u, v \in Vertices : v \in Elements(lists[u]) => Exist(u, v)

QueryIInv == QueryTypeOK /\ ListsKept /\ SortedSoFar /\ InsertedSoFar

LEMMA QueryInitInv == QueryInit => QueryIInv
<1> SUFFICES ASSUME QueryInit PROVE QueryIInv
  OBVIOUS
<1>1. graph \in [lists : [Vertices -> Seq(Vertices)], undirected : BOOLEAN]
  BY NeighborQueryAssumption DEF QueryInit
<1>2. QueryTypeOK
  BY <1>1, NeighborQueryAssumption DEF QueryInit, QueryTypeOK
<1> QED
  BY <1>2 DEF QueryInit, QueryIInv, ListsKept, SortedSoFar, InsertedSoFar

-----------------------------------------------------------------------------
(* One lemma per action                                                    *)

LEMMA PrepareInv == QueryIInv /\ Prepare => QueryIInv'
<1> SUFFICES ASSUME QueryIInv, Prepare PROVE QueryIInv'
  OBVIOUS
<1>1. QueryTypeOK'
  BY NeighborQueryAssumption DEF QueryIInv, QueryTypeOK, Prepare, TableSize
<1>2. ListsKept'
  BY DEF QueryIInv, ListsKept, Prepare
<1>3. SortedSoFar'
  BY NeighborQueryAssumption DEF SortedSoFar, Prepare, Partitions
<1>4. InsertedSoFar'
  BY DEF InsertedSoFar, Prepare
<1> QED
  BY <1>1, <1>2, <1>3, <1>4 DEF QueryIInv

LEMMA TakeToSortInv ==
    ASSUME NEW t \in Team, QueryIInv, TakeToSort(t) PROVE QueryIInv'
<1>1. QueryTypeOK'
  BY NeighborQueryAssumption DEF QueryIInv, QueryTypeOK, TakeToSort, Take, TableSize, Partitions
<1>2. ListsKept'
  BY DEF QueryIInv, ListsKept, TakeToSort
<1>3. SortedSoFar'
  <2> SUFFICES ASSUME NEW v \in Vertices, PartitionOf[v] < next + 1,
                      \A u \in Team : held'[u] # PartitionOf[v]
               PROVE  Ascending(lists[v])
    BY DEF SortedSoFar, TakeToSort, Take
  <2>1. PartitionOf[v] \in Nat /\ next \in Nat /\ held \in [Team -> Partitions \cup {None}]
    BY NeighborQueryAssumption DEF QueryIInv, QueryTypeOK, Partitions
  <2>2. held'[t] = next /\ held[t] = None /\ phase = "sort"
    BY <2>1 DEF TakeToSort, Take
  <2>3. PartitionOf[v] < next
    BY <2>1, <2>2
  <2>4. \A u \in Team : held[u] # PartitionOf[v]
    BY <2>1, <2>2 DEF TakeToSort, Take, None
  <2> QED
    BY <2>2, <2>3, <2>4 DEF QueryIInv, SortedSoFar
<1>4. InsertedSoFar'
  BY DEF InsertedSoFar, TakeToSort
<1> QED
  BY <1>1, <1>2, <1>3, <1>4 DEF QueryIInv

LEMMA SortPartitionInv ==
    ASSUME NEW t \in Team, QueryIInv, SortPartition(t) PROVE QueryIInv'
<1>1. /\ phase = "sort" /\ phase' = "sort" /\ graph' = graph /\ next' = next
      /\ held' = [held EXCEPT ![t] = None] /\ held \in [Team -> Partitions \cup {None}]
      /\ lists \in [Vertices -> Seq(Vertices)]
  BY DEF SortPartition, QueryIInv, QueryTypeOK
<1>2. PICK sorted \in [Vertices -> UNION {Sorted(lists[v]) : v \in Vertices}] :
         /\ \A v \in Vertices : sorted[v] \in Sorted(lists[v])
         /\ lists' = [v \in Vertices |-> IF PartitionOf[v] = held[t] THEN sorted[v] ELSE lists[v]]
  BY DEF SortPartition
<1>3. ASSUME NEW v \in Vertices
      PROVE  /\ lists'[v] \in Seq(Vertices)
             /\ Elements(lists'[v]) = Elements(lists[v])
             /\ PartitionOf[v] = held[t] => Ascending(lists'[v])
             /\ PartitionOf[v] # held[t] => lists'[v] = lists[v]
  <2>1. lists[v] \in Seq(Vertices) /\ sorted[v] \in Sorted(lists[v])
    BY <1>1, <1>2
  <2>2. /\ sorted[v] \in Seq(Vertices) /\ Ascending(sorted[v])
        /\ Elements(sorted[v]) = Elements(lists[v])
    BY <2>1, SortedElements
  <2> QED
    BY <1>2, <2>1, <2>2
<1>4. QueryTypeOK'
  <2>1. lists' \in [Vertices -> Seq(Vertices)]
    BY <1>2, <1>3
  <2> QED
    BY <1>1, <2>1 DEF QueryIInv, QueryTypeOK, SortPartition, TableSize
<1>5. ListsKept'
  BY <1>1, <1>3 DEF QueryIInv, ListsKept
<1>6. SortedSoFar'
  <2> SUFFICES ASSUME NEW v \in Vertices, PartitionOf[v] < next,
                      \A u \in Team : held'[u] # PartitionOf[v]
               PROVE  Ascending(lists'[v])
    BY <1>1 DEF SortedSoFar
  <2>1. CASE PartitionOf[v] = held[t]
    BY <1>3, <2>1
  <2>2. CASE PartitionOf[v] # held[t]
    <3>1. \A u \in Team : held[u] # PartitionOf[v]
      BY <1>1, <2>2
    <3>2. Ascending(lists[v])
      BY <1>1, <3>1 DEF QueryIInv, SortedSoFar
    <3> QED
      BY <1>3, <2>2, <3>2
  <2> QED
    BY <2>1, <2>2
<1>7. InsertedSoFar'
  BY <1>1 DEF InsertedSoFar
<1> QED
  BY <1>4, <1>5, <1>6, <1>7 DEF QueryIInv

LEMMA CreateFilterInv == QueryIInv /\ CreateFilter => QueryIInv'
<1> SUFFICES ASSUME QueryIInv, CreateFilter PROVE QueryIInv'
  OBVIOUS
<1>1. PartitionOf \in [Vertices -> Partitions] /\ PartitionNum \in Nat
  BY NeighborQueryAssumption
<1>2. QueryTypeOK'
  <2>1. table' \in [0 .. TableSize - 1 -> SUBSET (0 .. 63)] /\ TableSize' = TableSize
    BY DEF CreateFilter, TableSize
  <2> QED
    BY <1>1, <2>1 DEF QueryIInv, QueryTypeOK, CreateFilter
<1>3. ListsKept'
  BY DEF QueryIInv, ListsKept, CreateFilter
<1>4. SortedSoFar'
  <2> SUFFICES ASSUME NEW v \in Vertices PROVE Ascending(lists[v])
    BY DEF SortedSoFar, CreateFilter
  <2>1. PartitionOf[v] < next /\ \A t \in Team : held[t] # PartitionOf[v]
    BY <1>1 DEF CreateFilter, LoopDone, Partitions, None
  <2> QED
    BY <2>1 DEF QueryIInv, SortedSoFar, CreateFilter
<1>5. InsertedSoFar'
  BY <1>1 DEF InsertedSoFar, CreateFilter, Partitions
<1> QED
  BY <1>2, <1>3, <1>4, <1>5 DEF QueryIInv

LEMMA TakeToInsertInv ==
    ASSUME NEW t \in Team, QueryIInv, TakeToInsert(t) PROVE QueryIInv'
<1>1. /\ PartitionOf \in [Vertices -> Partitions] /\ PartitionNum \in Nat /\ next \in Nat
      /\ held \in [Team -> Partitions \cup {None}] /\ rest \in [Team -> SUBSET Pairs]
  BY NeighborQueryAssumption DEF QueryIInv, QueryTypeOK
<1>2. /\ phase = "insert" /\ phase' = "insert" /\ held[t] = None
      /\ held' = [held EXCEPT ![t] = next] /\ next' = next + 1 /\ next < PartitionNum
      /\ rest' = [rest EXCEPT ![t] = EdgesOf(next)]
      /\ lists' = lists /\ table' = table /\ graph' = graph
  BY DEF TakeToInsert, Take
<1>3. QueryTypeOK'
  <2>1. EdgesOf(next) \subseteq Pairs /\ next \in Partitions
    BY <1>1, <1>2 DEF EdgesOf, Partitions
  <2>2. /\ rest' \in [Team -> SUBSET Pairs] /\ held' \in [Team -> Partitions \cup {None}]
        /\ next' \in 0 .. PartitionNum
    BY <1>1, <1>2, <2>1
  <2> QED
    BY <1>2, <2>2 DEF QueryIInv, QueryTypeOK, TakeToInsert, TableSize
<1>4. ListsKept'
  BY <1>2 DEF QueryIInv, ListsKept
<1>5. SortedSoFar'
  BY <1>2 DEF QueryIInv, SortedSoFar
<1>6. InsertedSoFar'
  <2> SUFFICES ASSUME NEW u \in Vertices, NEW v \in Vertices,
                      PartitionOf[u] < next + 1, v \in Elements(lists[u])
               PROVE  \/ Exist(u, v)'
                      \/ \E w \in Team : held'[w] = PartitionOf[u] /\ <<u, v>> \in rest'[w]
    BY <1>2 DEF InsertedSoFar
  <2>1. Exist(u, v)' = Exist(u, v)
    BY <1>2 DEF Exist, GetHash, GetValue, TableSize
  <2>2. CASE PartitionOf[u] = next
    <3>1. <<u, v>> \in EdgesOf(next)
      BY <2>2 DEF EdgesOf, Pairs
    <3> QED
      BY <1>1, <1>2, <2>2, <3>1
  <2>3. CASE PartitionOf[u] # next
    <3>1. PartitionOf[u] < next /\ PartitionOf[u] # None
      BY <1>1, <2>3 DEF Partitions, None
    <3>2. CASE Exist(u, v)
      BY <2>1, <3>2
    <3>3. CASE \E w \in Team : held[w] = PartitionOf[u] /\ <<u, v>> \in rest[w]
      <4>1. PICK w \in Team : held[w] = PartitionOf[u] /\ <<u, v>> \in rest[w]
        BY <3>3
      <4>2. w # t
        BY <1>2, <3>1, <4>1
      <4> QED
        BY <1>1, <1>2, <4>1, <4>2
    <3> QED
      BY <1>2, <3>1, <3>2, <3>3 DEF QueryIInv, InsertedSoFar
  <2> QED
    BY <2>2, <2>3
<1> QED
  BY <1>3, <1>4, <1>5, <1>6 DEF QueryIInv

LEMMA InsertEdgeInv ==
    ASSUME NEW t \in Team, QueryIInv, InsertEdge(t) PROVE QueryIInv'
<1>1. /\ phase = "insert" /\ phase' = "insert" /\ graph' = graph /\ graph \in Graphs
      /\ lists' = lists /\ next' = next /\ held' = held /\ rest \in [Team -> SUBSET Pairs]
      /\ table \in [0 .. TableSize - 1 -> SUBSET (0 .. 63)]
  BY DEF InsertEdge, QueryIInv, QueryTypeOK
<1>2. PICK e \in rest[t] :
         LET value == GetValue(e[1], e[2]) IN
         /\ table' = [table EXCEPT ![GetHash(value)] = @ \cup Bloom[value]]
         /\ rest' = [rest EXCEPT ![t] = @ \ {e}]
  BY DEF InsertEdge
<1>3. e[1] \in Vertices /\ e[2] \in Vertices /\ e = <<e[1], e[2]>>
  BY <1>1, <1>2 DEF Pairs
<1> DEFINE value == GetValue(e[1], e[2])
<1>4. GetHash(value) \in 0 .. TableSize - 1 /\ Bloom[value] \subseteq 0 .. 63
  BY <1>1, <1>3, HashInTable
<1>5. /\ table' = [table EXCEPT ![GetHash(value)] = @ \cup Bloom[value]]
      /\ rest' = [rest EXCEPT ![t] = @ \ {e}]
  BY <1>2
<1> HIDE DEF value
<1>6. TableSize' = TableSize
  BY <1>1 DEF TableSize
<1>7. QueryTypeOK'
  <2>1. table' \in [0 .. TableSize - 1 -> SUBSET (0 .. 63)] /\ rest' \in [Team -> SUBSET Pairs]
    BY <1>1, <1>4, <1>5
  <2> QED
    BY <1>1, <1>6, <2>1 DEF QueryIInv, QueryTypeOK, InsertEdge
<1>8. ListsKept' /\ SortedSoFar'
  BY <1>1 DEF QueryIInv, ListsKept, SortedSoFar
<1>9. ASSUME NEW slot \in 0 .. TableSize - 1 PROVE table[slot] \subseteq table'[slot]
  BY <1>1, <1>5
<1>10. ASSUME NEW u \in Vertices, NEW v \in Vertices, Exist(u, v) PROVE Exist(u, v)'
  <2>1. GetHash(GetValue(u, v)) \in 0 .. TableSize - 1
    BY <1>1, HashInTable
  <2>2. GetHash(GetValue(u, v))' = GetHash(GetValue(u, v))
    BY <1>6 DEF GetHash, GetValue
  <2>3. GetValue(u, v)' = GetValue(u, v)
    BY DEF GetValue
  <2> QED
    BY <1>9, <1>10, <2>1, <2>2, <2>3 DEF Exist
<1>11. Exist(e[1], e[2])'
  <2>1. GetHash(value)' = GetHash(value) /\ value' = value
    BY <1>2, <1>6 DEF GetHash, GetValue, value
  <2>2. Bloom[value] \subseteq table'[GetHash(value)]
    BY <1>1, <1>4, <1>5
  <2> QED
    BY <2>1, <2>2, <1>6 DEF Exist, GetHash, GetValue, value
<1>12. InsertedSoFar'
  <2> SUFFICES ASSUME NEW u \in Vertices, NEW v \in Vertices,
                      PartitionOf[u] < next, v \in Elements(lists[u])
               PROVE  \/ Exist(u, v)'
                      \/ \E w \in Team : held[w] = PartitionOf[u] /\ <<u, v>> \in rest'[w]
    BY <1>1 DEF InsertedSoFar
  <2>1. CASE Exist(u, v)
    BY <1>10, <2>1
  <2>2. CASE \E w \in Team : held[w] = PartitionOf[u] /\ <<u, v>> \in rest[w]
    <3>1. PICK w \in Team : held[w] = PartitionOf[u] /\ <<u, v>> \in rest[w]
      BY <2>2
    <3>2. CASE <<u, v>> = e
      BY <1>3, <1>11, <3>2
    <3>3. CASE <<u, v>> # e
      BY <1>1, <1>5, <3>1, <3>3
    <3> QED
      BY <3>2, <3>3
  <2> QED
    BY <1>1, <2>1, <2>2 DEF QueryIInv, InsertedSoFar
<1> QED
  BY <1>7, <1>8, <1>12 DEF QueryIInv

LEMMA PartitionInsertedInv ==
    ASSUME NEW t \in Team, QueryIInv, PartitionInserted(t) PROVE QueryIInv'
<1>1. /\ phase = "insert" /\ phase' = "insert" /\ graph' = graph /\ rest[t] = {}
      /\ lists' = lists /\ next' = next /\ rest' = rest /\ table' = table
      /\ held' = [held EXCEPT ![t] = None] /\ held \in [Team -> Partitions \cup {None}]
  BY DEF PartitionInserted, QueryIInv, QueryTypeOK
<1>2. QueryTypeOK'
  BY <1>1 DEF QueryIInv, QueryTypeOK, PartitionInserted, TableSize
<1>3. ListsKept' /\ SortedSoFar'
  BY <1>1 DEF QueryIInv, ListsKept, SortedSoFar
<1>4. InsertedSoFar'
  <2> SUFFICES ASSUME NEW u \in Vertices, NEW v \in Vertices,
                      PartitionOf[u] < next, v \in Elements(lists[u])
               PROVE  \/ Exist(u, v)'
                      \/ \E w \in Team : held'[w] = PartitionOf[u] /\ <<u, v>> \in rest[w]
    BY <1>1 DEF InsertedSoFar
  <2>1. Exist(u, v)' = Exist(u, v)
    BY <1>1 DEF Exist, GetHash, GetValue, TableSize
  <2>2. ASSUME NEW w \in Team, <<u, v>> \in rest[w] PROVE held'[w] = held[w]
    BY <1>1, <2>2
  <2> QED
    BY <1>1, <2>1, <2>2 DEF QueryIInv, InsertedSoFar
<1> QED
  BY <1>2, <1>3, <1>4 DEF QueryIInv

LEMMA PreparedInv == QueryIInv /\ Prepared => QueryIInv'
<1> SUFFICES ASSUME QueryIInv, Prepared PROVE QueryIInv'
  OBVIOUS
<1>1. /\ phase = "insert" /\ phase' = "query" /\ graph' = graph /\ lists' = lists
      /\ table' = table /\ next = PartitionNum /\ \A t \in Team : held[t] = None
  BY DEF Prepared, LoopDone
<1>2. QueryTypeOK'
  BY <1>1 DEF QueryIInv, QueryTypeOK, Prepared, TableSize
<1>3. ListsKept' /\ SortedSoFar'
  BY <1>1 DEF QueryIInv, ListsKept, SortedSoFar
<1>4. InsertedSoFar'
  <2> SUFFICES ASSUME NEW u \in Vertices, NEW v \in Vertices, v \in Elements(lists[u])
               PROVE  Exist(u, v)'
    BY <1>1 DEF InsertedSoFar
  <2>1. PartitionOf[u] < next /\ PartitionOf[u] # None
    BY <1>1, NeighborQueryAssumption DEF Partitions, None
  <2>2. Exist(u, v)
    BY <1>1, <2>1 DEF QueryIInv, InsertedSoFar
  <2> QED
    BY <1>1, <2>2 DEF Exist, GetHash, GetValue, TableSize
<1> QED
  BY <1>2, <1>3, <1>4 DEF QueryIInv

LEMMA StepInv == QueryIInv /\ Step => QueryIInv'
<1> SUFFICES ASSUME QueryIInv, Step PROVE QueryIInv'
  OBVIOUS
<1>1. /\ phase' = phase /\ graph' = graph /\ lists' = lists /\ table' = table
      /\ next' = next /\ held' = held /\ rest' = rest
  BY DEF Step
<1>2. QueryTypeOK'
  <2>1. PICK v \in Elements(lists[walker.cur]) : walker' = [prev |-> walker.cur, cur |-> v]
    BY DEF Step
  <2>2. walker.cur \in Vertices /\ lists[walker.cur] \in Seq(Vertices)
    BY DEF QueryIInv, QueryTypeOK
  <2>3. v \in Vertices
    BY <2>1, <2>2 DEF Elements
  <2> QED
    BY <1>1, <2>1, <2>2, <2>3 DEF QueryIInv, QueryTypeOK, Step, TableSize
<1>3. ListsKept' /\ SortedSoFar'
  BY <1>1 DEF QueryIInv, ListsKept, SortedSoFar
<1>4. InsertedSoFar'
  BY <1>1 DEF QueryIInv, InsertedSoFar, Exist, GetHash, GetValue, TableSize
<1> QED
  BY <1>2, <1>3, <1>4 DEF QueryIInv

LEMMA QueryStutterInv == QueryIInv /\ UNCHANGED queryVars => QueryIInv'
<1> SUFFICES ASSUME QueryIInv, UNCHANGED queryVars PROVE QueryIInv'
  OBVIOUS
<1>1. /\ phase' = phase /\ graph' = graph /\ lists' = lists /\ table' = table
      /\ next' = next /\ held' = held /\ rest' = rest
  BY DEF queryVars
<1>2. QueryTypeOK'
  BY DEF QueryIInv, QueryTypeOK, queryVars, TableSize
<1>3. ListsKept' /\ SortedSoFar'
  BY <1>1 DEF QueryIInv, ListsKept, SortedSoFar
<1>4. InsertedSoFar'
  BY <1>1 DEF QueryIInv, InsertedSoFar, Exist, GetHash, GetValue, TableSize
<1> QED
  BY <1>2, <1>3, <1>4 DEF QueryIInv

-----------------------------------------------------------------------------
(* What the invariant says of a prepared query                             *)

LEMMA InvImpliesExact == QueryIInv => HasNeighborExact
<1> SUFFICES ASSUME QueryIInv, phase = "query", NEW u \in Vertices, NEW v \in Vertices
             PROVE  HasNeighborAnswers(u, v) = {Listed(graph.lists[u], v)}
  BY DEF HasNeighborExact
<1>1. Ascending(lists[u]) /\ Elements(lists[u]) = Elements(graph.lists[u])
  BY DEF QueryIInv, SortedSoFar, ListsKept
<1>2. Listed(lists[u], v) = Listed(graph.lists[u], v)
  BY <1>1, Zenon DEF Listed
<1>3. CASE Exist(u, v)
  <2>1. HasNeighborAnswers(u, v) = {Listed(lists[u], v)}
    BY <1>1, <1>3, Zenon DEF HasNeighborAnswers, SearchAnswers
  <2> QED
    BY <1>2, <2>1, Zenon
<1>4. CASE ~ Exist(u, v)
  <2>1. Listed(graph.lists[u], v) = FALSE
    BY <1>1, <1>4 DEF QueryIInv, InsertedSoFar, Listed
  <2>2. HasNeighborAnswers(u, v) = {FALSE}
    BY <1>4, Zenon DEF HasNeighborAnswers
  <2> QED
    BY <2>1, <2>2, Zenon
<1> QED
  BY <1>3, <1>4, Zenon

\* With an exact query, node2vec_accept compares the number with the weight of the edge.
LEMMA AcceptsWeight ==
    ASSUME QueryIInv, phase = "query", NEW prev \in Vertices, NEW v \in Vertices, NEW prob \in Nat
    PROVE  Accepts(prev, v, prob) = {prob <= Weight(prev, v)}
<1>1. bias.one \in Nat /\ bias.divP \in Nat /\ bias.divQ \in Nat
  BY NeighborQueryAssumption DEF QueryIInv, QueryTypeOK
<1>2. HasNeighborAnswers(prev, v) = {Listed(graph.lists[prev], v)}
  BY InvImpliesExact DEF HasNeighborExact
<1>3. CASE prev = v
  BY <1>3 DEF Accepts, Weight
<1>4. CASE prev # v
  <2> DEFINE Other(has) == IF has THEN bias.one ELSE bias.divQ
             found      == Listed(graph.lists[prev], v)
  <2>1. Weight(prev, v) = Other(found)
    BY <1>4, Zenon DEF Weight
  <2>2. CASE prob <= Min1Q
    <3>1. (prob <= bias.one) = TRUE /\ (prob <= bias.divQ) = TRUE
      BY <1>1, <2>2 DEF Min1Q, Lesser
    <3>2. Accepts(prev, v, prob) = {TRUE}
      BY <1>4, <2>2, Zenon DEF Accepts
    <3>3. Weight(prev, v) = bias.one \/ Weight(prev, v) = bias.divQ
      BY <2>1
    <3> QED
      BY <3>1, <3>2, <3>3, Zenon
  <2>3. CASE ~ (prob <= Min1Q)
    <3>1. Accepts(prev, v, prob) = {prob <= Other(has) : has \in HasNeighborAnswers(prev, v)}
      BY <1>4, <2>3, Zenon DEF Accepts
    <3>2. ASSUME NEW x
          PROVE  x \in Accepts(prev, v, prob) <=> x = (prob <= Other(found))
      <4> HIDE DEF Other, found
      <4>1. x \in Accepts(prev, v, prob)
               <=> \E has \in HasNeighborAnswers(prev, v) : x = (prob <= Other(has))
        BY <3>1, Zenon
      <4>2. HasNeighborAnswers(prev, v) = {found}
        BY <1>2, Zenon DEF found
      <4> QED
        BY <4>1, <4>2, Zenon
    <3>3. Accepts(prev, v, prob) = {prob <= Other(found)}
      <4> HIDE DEF Other, found
      <4> QED
        BY <3>2, Zenon
    <3> QED
      BY <2>1, <3>3, Zenon
  <2> QED
    BY <2>2, <2>3, Zenon
<1> QED
  BY <1>3, <1>4, Zenon

LEMMA InvImpliesByWeight == QueryIInv => AcceptedByWeight
<1> SUFFICES ASSUME QueryIInv, phase = "query", NEW prev \in Vertices, NEW v \in Vertices
             PROVE  /\ \A prob \in 1 .. UpperBound : Accepts(prev, v, prob) \in {{TRUE}, {FALSE}}
                    /\ Cardinality({prob \in 1 .. UpperBound : Accepts(prev, v, prob) = {TRUE}})
                         = Weight(prev, v)
  BY DEF AcceptedByWeight
<1>1. bias.one \in Nat /\ bias.divP \in Nat /\ bias.divQ \in Nat
  BY NeighborQueryAssumption DEF QueryIInv, QueryTypeOK
<1>2. Weight(prev, v) \in Nat /\ UpperBound \in Nat /\ Weight(prev, v) <= UpperBound
  BY <1>1 DEF Weight, UpperBound, Greater
<1>3. ASSUME NEW prob \in 1 .. UpperBound
      PROVE  /\ Accepts(prev, v, prob) = {prob <= Weight(prev, v)}
             /\ Accepts(prev, v, prob) \in {{TRUE}, {FALSE}}
             /\ Accepts(prev, v, prob) = {TRUE} <=> prob <= Weight(prev, v)
  <2>1. prob \in Nat
    BY <1>2
  <2>2. Accepts(prev, v, prob) = {prob <= Weight(prev, v)}
    BY <2>1, AcceptsWeight
  <2>3. CASE prob <= Weight(prev, v)
    <3>1. (prob <= Weight(prev, v)) = TRUE
      BY <2>3
    <3> QED
      BY <2>2, <2>3, <3>1, Zenon
  <2>4. CASE ~ (prob <= Weight(prev, v))
    <3>1. (prob <= Weight(prev, v)) = FALSE
      BY <2>4
    <3>2. {FALSE} # {TRUE}
      OBVIOUS
    <3> QED
      BY <2>2, <2>4, <3>1, <3>2, Zenon
  <2> QED
    BY <2>3, <2>4
<1>4. {prob \in 1 .. UpperBound : Accepts(prev, v, prob) = {TRUE}} = 1 .. Weight(prev, v)
  <2> DEFINE w == Weight(prev, v)
             accepted == {prob \in 1 .. UpperBound : Accepts(prev, v, prob) = {TRUE}}
  <2>1. ASSUME NEW prob PROVE prob \in accepted <=> prob \in 1 .. UpperBound /\ prob <= w
    BY <1>3, Zenon
  <2>2. ASSUME NEW prob PROVE prob \in 1 .. w <=> prob \in 1 .. UpperBound /\ prob <= w
    BY <1>2
  <2> QED
    BY <2>1, <2>2, Zenon
<1>5. Cardinality(1 .. Weight(prev, v)) = Weight(prev, v)
  BY <1>2, FS_Interval
<1> QED
  BY <1>3, <1>4, <1>5

-----------------------------------------------------------------------------
(* The theorems                                                            *)

(***************************************************************************)
(* The invariant of prepare_neighbor_query: what is sorted and what is in  *)
(* the filter, partition by partition.                                     *)
(***************************************************************************)
THEOREM QueryInvariant == QuerySpec => []QueryIInv
<1>1. QueryIInv /\ [QueryNext]_queryVars => QueryIInv'
  <2> SUFFICES ASSUME QueryIInv, [QueryNext]_queryVars PROVE QueryIInv'
    OBVIOUS
  <2>1. CASE Prepare
    BY <2>1, PrepareInv
  <2>2. ASSUME NEW t \in Team, QueryThread(t) PROVE QueryIInv'
    BY <2>2, TakeToSortInv, SortPartitionInv, TakeToInsertInv, InsertEdgeInv,
       PartitionInsertedInv DEF QueryThread
  <2>3. CASE CreateFilter
    BY <2>3, CreateFilterInv
  <2>4. CASE Prepared
    BY <2>4, PreparedInv
  <2>5. CASE Step
    BY <2>5, StepInv
  <2>6. CASE UNCHANGED queryVars
    BY <2>6, QueryStutterInv
  <2> QED
    BY <2>1, <2>2, <2>3, <2>4, <2>5, <2>6 DEF QueryNext
<1> QED
  BY QueryInitInv, <1>1, PTL DEF QuerySpec

\* Type correctness of the neighbour query, with it that the filter is never written outside
\* its table (BloomFilter::insert).
THEOREM QueryTypeCorrect == QuerySpec => []QueryTypeOK
<1>1. QueryIInv => QueryTypeOK
  BY DEF QueryIInv
<1> QED
  BY QueryInvariant, <1>1, PTL

\* Graph::has_neighbor is exact once the query is prepared.
THEOREM NeighborsExact == QuerySpec => []HasNeighborExact
  BY QueryInvariant, InvImpliesExact, PTL

\* WalkManager::node2vec_accept accepts every edge as often as its weight says.
THEOREM WeightsKept == QuerySpec => []AcceptedByWeight
  BY QueryInvariant, InvImpliesByWeight, PTL
=============================================================================
