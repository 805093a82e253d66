---------------------------- MODULE NeighborQuery ----------------------------
(***************************************************************************)
(* The neighbour query of node2vec: Graph::prepare_neighbor_query sorts    *)
(* the adjacency lists and fills a Bloom filter, in two parallel loops     *)
(* over partitions; has_neighbor asks the filter and then searches a list; *)
(* node2vec_accept turns the answer into the weight of an edge, on which   *)
(* the rejection loop of node2vec_walk_message rests.                      *)
(*                                                                         *)
(* Every socket has its own array of AdjList, but their edges are the same *)
(* memory: there is one list per vertex.                                   *)
(***************************************************************************)
EXTENDS Threads, Arithmetic, Sequences, FiniteSets

CONSTANTS Vertices,      \* numbers
          PartitionNum,  \* partition_num
          PartitionOf,   \* the partition of each vertex
          Graphs,        \* the graphs to consider: lists of neighbours, as_undirected
          Mixed,         \* get_hash of a pair before the mask is applied
          Bloom,         \* get_bloom of a pair: its bits
          Biases,        \* the node2vec parameters to consider, see Weight
          MaxPrepares    \* bounds how often the query is prepared

Partitions == 0 .. PartitionNum - 1
Pairs      == Vertices \X Vertices

(***************************************************************************)
(* one, divP and divQ are 1, 1/p and 1/q in a unit that divides all three. *)
(***************************************************************************)
ASSUME NeighborQueryAssumption ==
    /\ Vertices \subseteq Nat /\ IsFiniteSet(Vertices)
    /\ PartitionNum \in Nat
    /\ PartitionOf \in [Vertices -> Partitions]
    /\ Graphs \subseteq [lists : [Vertices -> Seq(Vertices)], undirected : BOOLEAN]
    /\ Mixed \in [Pairs -> Nat] /\ Bloom \in [Pairs -> SUBSET (0 .. 63)]
    /\ Biases \subseteq [one : Nat \ {0}, divP : Nat \ {0}, divQ : Nat \ {0}]
    /\ MaxPrepares \in Nat

VARIABLES
    graph,      \* the graph as it was made
    bias,       \* what set_node2vec was called with
    phase,      \* "idle", "sort", "insert" or "query"
    prepares,   \* how often the query was prepared
    lists,      \* the adjacency lists
    table,      \* the words of the Bloom filter, as sets of bits
    next,       \* the next iteration of the loop's dynamic schedule
    held,       \* the iteration each thread works on
    rest,       \* the edges of its partition a thread has still to insert
    walker      \* a walker at vertex cur that came from prev

queryVars == <<graph, bias, phase, prepares, lists, table, next, held, rest, walker>>

None == -1
Elements(list) == {list[i] : i \in DOMAIN list}
Listed(list, v) == v \in Elements(list)

-----------------------------------------------------------------------------
(* The Bloom filter                                                        *)

\* The least power of two from 4 on that is above a quarter of the items.
Capacity(items) ==
    CHOOSE c \in {TwoTo[k] : k \in 2 .. items + 2} :
        c > items \div 4 /\ (c = 4 \/ c \div 2 <= items \div 4)

ItemNum(g) == LET edgeNum == Cardinality(UNION {{v} \X DOMAIN g.lists[v] : v \in Vertices})
              IN IF g.undirected THEN edgeNum \div 2 ELSE edgeNum

TableSize == Capacity(ItemNum(graph))

\* The same value for a pair and its reverse.
GetValue(u, v) == IF u > v THEN <<v, u>> ELSE <<u, v>>

\* get_hash and its bitmask.
GetHash(value) == Mixed[value] % TableSize

Exist(u, v) == Bloom[GetValue(u, v)] \subseteq table[GetHash(GetValue(u, v))]

-----------------------------------------------------------------------------
(* The search in a list, and what the query answers                        *)

Ascending(list) == \A i, j \in DOMAIN list : i < j => list[i] <= list[j]

\* The outcomes of std::sort: the list in another order, ascending.
Sorted(list) ==
    {s \in [DOMAIN list -> Elements(list)] :
        /\ Ascending(s)
        /\ \A v \in Elements(list) : Cardinality({i \in DOMAIN list : s[i] = v})
                                   = Cardinality({i \in DOMAIN list : list[i] = v})}

\* std::binary_search may answer anything about a list that is not sorted.
SearchAnswers(list, v) == IF Ascending(list) THEN {Listed(list, v)} ELSE BOOLEAN

HasNeighborAnswers(u, v) == IF Exist(u, v) THEN SearchAnswers(lists[u], v) ELSE {FALSE}

-----------------------------------------------------------------------------
(* Rejection sampling                                                      *)

Lesser(a, b)  == IF a < b THEN a ELSE b
Greater(a, b) == IF a < b THEN b ELSE a

\* n2v_upperbound and n2v_min_1_q.
UpperBound == Greater(bias.one, Greater(bias.divP, bias.divQ))
Min1Q      == Lesser(bias.one, bias.divQ)

\* Mutant: the shortcut comes before the edge back is looked for.
WrongAccepts(prev, v, prob) ==
    IF prob <= Min1Q THEN {TRUE}
    ELSE IF prev = v THEN {prob <= bias.divP}
    ELSE {prob <= (IF has THEN bias.one ELSE bias.divQ) : has \in HasNeighborAnswers(prev, v)}

\* node2vec_accept: its possible answers.
Accepts(prev, v, prob) ==
    IF prev = v THEN {prob <= bias.divP}
    ELSE IF prob <= Min1Q THEN {TRUE}
    ELSE {prob <= (IF has THEN bias.one ELSE bias.divQ) : has \in HasNeighborAnswers(prev, v)}

-----------------------------------------------------------------------------
(* prepare_neighbor_query                                                  *)

QueryInit ==
    /\ graph \in Graphs /\ bias \in Biases
    /\ phase = "idle" /\ prepares = 0
    /\ lists = graph.lists
    /\ table = << >>
    /\ next = 0 /\ held = [t \in Team |-> None] /\ rest = [t \in Team |-> {}]
    /\ walker \in [prev : Vertices, cur : Vertices]

\* FMobSolver::prepare calls it, and a caller may have done so before.
Prepare ==
    /\ phase \in {"idle", "query"} /\ prepares < MaxPrepares
    /\ phase' = "sort" /\ prepares' = prepares + 1
    /\ next' = 0
    /\ UNCHANGED <<graph, bias, lists, table, held, rest, walker>>

\* Mutant: the loop goes on for p_i <= partition_num.
WrongTake(t) ==
    /\ held[t] = None /\ next <= PartitionNum
    /\ held' = [held EXCEPT ![t] = next]
    /\ next' = next + 1

\* schedule(dynamic, 1): a thread without an iteration takes the next one.
Take(t) ==
    /\ held[t] = None /\ next < PartitionNum
    /\ held' = [held EXCEPT ![t] = next]
    /\ next' = next + 1

TakeToSort(t) ==
    /\ phase = "sort"
    /\ Take(t)
    /\ UNCHANGED <<graph, bias, phase, prepares, lists, table, rest, walker>>

(***************************************************************************)
(* The vertices of a partition are sorted in one step: no other thread     *)
(* reads or writes their lists in this loop.                               *)
(***************************************************************************)
SortPartition(t) ==
    /\ phase = "sort" /\ held[t] # None
    /\ \E sorted \in [Vertices -> UNION {Sorted(lists[v]) : v \in Vertices}] :
          /\ \A v \in Vertices : sorted[v] \in Sorted(lists[v])
          /\ lists' = [v \in Vertices |-> IF PartitionOf[v] = held[t] THEN sorted[v] ELSE lists[v]]
    /\ held' = [held EXCEPT ![t] = None]
    /\ UNCHANGED <<graph, bias, phase, prepares, table, next, rest, walker>>

\* The barrier at the end of a loop.
LoopDone == next = PartitionNum /\ \A t \in Team : held[t] = None

\* bf.reset and create: the old filter is gone, the new one is empty.
CreateFilter ==
    /\ phase = "sort" /\ LoopDone
    /\ phase' = "insert"
    /\ table' = [slot \in 0 .. TableSize - 1 |-> {}]
    /\ next' = 0
    /\ UNCHANGED <<graph, bias, prepares, lists, held, rest, walker>>

\* Mutant: an edge is inserted at its lesser end only, which is enough if it is at both.
WrongEdgesOf(p) ==
    {e \in Pairs : PartitionOf[e[1]] = p /\ e[2] \in Elements(lists[e[1]]) /\ e[1] < e[2]}

\* The edges in the lists of a partition's vertices.
EdgesOf(p) == {e \in Pairs : PartitionOf[e[1]] = p /\ e[2] \in Elements(lists[e[1]])}

TakeToInsert(t) ==
    /\ phase = "insert"
    /\ Take(t)
    /\ rest' = [rest EXCEPT ![t] = EdgesOf(next)]
    /\ UNCHANGED <<graph, bias, phase, prepares, lists, table, walker>>

\* bf->insert: one __sync_fetch_and_or.  The order of a thread's edges is of no account.
InsertEdge(t) ==
    /\ phase = "insert"
    /\ \E e \in rest[t] :
          LET value == GetValue(e[1], e[2]) IN
          /\ table' = [table EXCEPT ![GetHash(value)] = @ \cup Bloom[value]]
          /\ rest' = [rest EXCEPT ![t] = @ \ {e}]
    /\ UNCHANGED <<graph, bias, phase, prepares, lists, next, held, walker>>

PartitionInserted(t) ==
    /\ phase = "insert" /\ held[t] # None /\ rest[t] = {}
    /\ held' = [held EXCEPT ![t] = None]
    /\ UNCHANGED <<graph, bias, phase, prepares, lists, table, next, rest, walker>>

Prepared ==
    /\ phase = "insert" /\ LoopDone
    /\ phase' = "query"
    /\ UNCHANGED <<graph, bias, prepares, lists, table, next, held, rest, walker>>

(***************************************************************************)
(* The last turn of the rejection loop for a walker: a draw from the list  *)
(* of cur, a number up to the upper bound, both ends included, and the     *)
(* edge is accepted.  The turns before it change nothing.  A number        *)
(* between two of the integers is as good as the upper one.                *)
(***************************************************************************)
Step ==
    /\ phase = "query"
    /\ \E v \in Elements(lists[walker.cur]), prob \in 0 .. UpperBound :
          /\ TRUE \in Accepts(walker.prev, v, prob)
          /\ walker' = [prev |-> walker.cur, cur |-> v]
    /\ UNCHANGED <<graph, bias, phase, prepares, lists, table, next, held, rest>>

QueryThread(t) == TakeToSort(t) \/ SortPartition(t) \/ TakeToInsert(t) \/ InsertEdge(t)
                    \/ PartitionInserted(t)

QueryNext ==
    \/ Prepare
    \/ \E t \in Team : QueryThread(t)
    \/ CreateFilter \/ Prepared
    \/ Step

QuerySpec == QueryInit /\ [][QueryNext]_queryVars

-----------------------------------------------------------------------------
\* The variables' types.
QueryTypeOK ==
    /\ graph \in Graphs /\ bias \in Biases
    /\ phase \in {"idle", "sort", "insert", "query"}
    /\ prepares \in 0 .. MaxPrepares
    /\ lists \in [Vertices -> Seq(Vertices)]
    /\ phase \in {"insert", "query"} =>
          table \in [0 .. TableSize - 1 -> SUBSET (0 .. 63)]
    /\ next \in 0 .. PartitionNum
    /\ held \in [Team -> Partitions \cup {None}]
    /\ rest \in [Team -> SUBSET Pairs]
    /\ walker \in [prev : Vertices, cur : Vertices]

(***************************************************************************)
(* Once it is prepared, has_neighbor is exact for every pair of vertices:  *)
(* the filter, however its bits collide and in whatever order the threads  *)
(* set them, never hides an edge, and the search in the sorted list takes  *)
(* back what it wrongly let through.                                       *)
(***************************************************************************)
HasNeighborExact ==
    phase = "query" =>
        \A u, v \in Vertices : HasNeighborAnswers(u, v) = {Listed(graph.lists[u], v)}

\* node2vec's weight of the edge from the walker's vertex to v.
Weight(prev, v) ==
    IF v = prev THEN bias.divP
    ELSE IF Listed(graph.lists[prev], v) THEN bias.one
    ELSE bias.divQ

(***************************************************************************)
(* Each neighbour is accepted for as many of the equally likely numbers as *)
(* its weight says: the upper bound cuts none off, and the shortcut that   *)
(* spares the query accepts nothing the query would not.  As all weights   *)
(* are positive, the rejection loop can end wherever a walker is.          *)
(***************************************************************************)
AcceptedByWeight ==
    phase = "query" =>
        \A prev, v \in Vertices :
            /\ \A prob \in 1 .. UpperBound : Accepts(prev, v, prob) \in {{TRUE}, {FALSE}}
            /\ Cardinality({prob \in 1 .. UpperBound : Accepts(prev, v, prob) = {TRUE}})
                 = Weight(prev, v)
=============================================================================
