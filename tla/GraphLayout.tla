----------------------------- MODULE GraphLayout -----------------------------
(***************************************************************************)
(* Graph::load and Graph::make: vertices are numbered in the order their   *)
(* names appear, sorted by degree, cut into groups and partitions, the     *)
(* first partitions are shuffled, every partition goes to a socket, and    *)
(* the threads fill the sockets' edge arrays concurrently.                 *)
(*                                                                         *)
(* A vertex has a name (in the file), an id (its place in the order of     *)
(* appearance) and a position (its final number, vertex_id_t elsewhere).   *)
(***************************************************************************)
EXTENDS Threads, Groups, Sequences, FiniteSets, FiniteSetsExt

CONSTANT RawGraphs   \* the files to consider: [edges, undirected]

(***************************************************************************)
(* counting_sort asserts that no degree is 0; in a directed graph only     *)
(* edges out of a vertex count.                                            *)
(***************************************************************************)
ASSUME GraphAssumption ==
    \A g \in RawGraphs :
          /\ g.undirected \in BOOLEAN
          /\ g.edges \in Seq(Nat \X Nat) /\ g.edges # << >>
          /\ \A i \in DOMAIN g.edges : \A n \in {g.edges[i][1], g.edges[i][2]} :
                \E j \in DOMAIN g.edges :
                    n = g.edges[j][1] \/ (g.undirected /\ n = g.edges[j][2])

\* The vertices of a file.
NamesOf(g) == UNION {{g.edges[i][1], g.edges[i][2]} : i \in DOMAIN g.edges}

\* The vertices round up to whole groups within vertex_id_t.
GroupsFit == \A g \in RawGraphs : WholeGroupsFit(Cardinality(NamesOf(g)))

VARIABLES
    phase, next,   \* which loop of load and make, and its loop variable
    graph,         \* the file that is read
    names,         \* load: the names in the order of their ids (name2id, inverted)
    degree,        \* load: the degree of each id
    counters,      \* counting_sort: its counters
    units,         \* vertex_units: the id at each position
    bits,          \* partition_bits of each group, from the hints
    offsets,       \* groups[..].partition_offset
    parts,         \* partition_begin, partition_end
    shuffleNum,    \* shuffle_partition_num
    sorted,        \* temp_vertex_units
    room,          \* temp_partition_p
    cursor,        \* edge_end, an index in the edge array of the vertex's socket
    edges,         \* the edge array of each socket
    half,          \* the half edge each thread is at
    slot           \* the entry a thread has claimed and not written yet

graphVars == <<phase, next, graph, names, degree, counters, units, bits, offsets, parts,
               shuffleNum, sorted, room, cursor, edges, half, slot>>
makeVars  == <<bits, offsets, parts, shuffleNum, sorted, room>>
fillVars  == <<cursor, edges, half, slot>>

None == -1

VNum == Len(names)
Ids  == 0 .. VNum - 1
IdOf(name) == (CHOOSE i \in DOMAIN names : names[i] = name) - 1

GraphInit ==
    /\ phase = "load" /\ next = 1
    /\ graph \in RawGraphs
    /\ names = << >> /\ degree = << >> /\ counters = << >> /\ units = << >>
    /\ bits = << >> /\ offsets = << >> /\ parts = << >> /\ shuffleNum = 0
    /\ sorted = << >> /\ room = << >>
    /\ cursor = << >> /\ edges = << >>
    /\ half = [t \in Team |-> 0] /\ slot = [t \in Team |-> None]

-----------------------------------------------------------------------------
(* load and counting_sort                                                  *)

Named(list, name) == IF \E i \in DOMAIN list : list[i] = name THEN list ELSE Append(list, name)

ReadEdge ==
    /\ phase = "load" /\ next <= Len(graph.edges)
    /\ names' = Named(Named(names, graph.edges[next][1]), graph.edges[next][2])
    /\ next' = next + 1
    /\ UNCHANGED <<phase, graph, degree, counters, units, makeVars, fillVars>>

\* Mutant: an edge with the vertex at an end of it counts once, a loop too.
WrongDegreeOf(id) ==
    Cardinality({e \in DOMAIN graph.edges :
                    \/ IdOf(graph.edges[e][1]) = id
                    \/ graph.undirected /\ IdOf(graph.edges[e][2]) = id})

\* The edges out of a vertex, with those into it in an undirected graph; a loop counts twice.
DegreeOf(id) ==
    Cardinality({e \in DOMAIN graph.edges : IdOf(graph.edges[e][1]) = id})
    + (IF graph.undirected
       THEN Cardinality({e \in DOMAIN graph.edges : IdOf(graph.edges[e][2]) = id}) ELSE 0)

\* The degrees, counted by all threads, and their prefix sums over the vertices.
CountDegrees ==
    /\ phase = "load" /\ next > Len(graph.edges)
    /\ phase' = "sort" /\ next' = 0
    /\ degree' = [id \in Ids |-> DegreeOf(id)]
    /\ counters' = [d \in 0 .. Max({DegreeOf(id) : id \in Ids}) |->
                       Cardinality({id \in Ids : DegreeOf(id) <= d})]
    /\ units' = [p \in Ids |-> p]
    /\ UNCHANGED <<graph, names, makeVars, fillVars>>

\* Mutant: the counter is not advanced.
WrongSortVertex ==
    LET pos == counters[degree[next] - 1] IN
    /\ phase = "sort" /\ next < VNum
    /\ units' = [units EXCEPT ![VNum - pos - 1] = next]
    /\ next' = next + 1
    /\ UNCHANGED <<phase, graph, names, degree, counters, makeVars, fillVars>>

SortVertex ==
    LET pos == counters[degree[next] - 1] IN
    /\ phase = "sort" /\ next < VNum
    /\ units' = [units EXCEPT ![VNum - pos - 1] = next]
    /\ counters' = [counters EXCEPT ![degree[next] - 1] = @ + 1]
    /\ next' = next + 1
    /\ UNCHANGED <<phase, graph, names, degree, makeVars, fillVars>>

-----------------------------------------------------------------------------
(* The hints of get_partition_hint, and the partitions of make             *)

\* The hints, in which dp may have chosen any size of partition for any group.
TakeHints ==
    /\ phase = "sort" /\ next = VNum
    /\ phase' = "groups" /\ next' = 0
    /\ bits' \in [0 .. GroupNum(VNum) - 1 -> PartitionBits(VNum)]
    /\ UNCHANGED <<graph, names, degree, counters, units, offsets, parts, shuffleNum, sorted, room,
                   fillVars>>

\* Partitions of one size from the group's begin on, cut at the last vertex.
PartsOf(g) ==
    [i \in 1 .. PartitionsOf(VNum, g, bits[g]) |->
        [begin |-> GroupBegin(VNum, g) + (i - 1) * TwoTo[bits[g]],
         end   |-> Least(GroupBegin(VNum, g) + i * TwoTo[bits[g]], VNum)]]

\* Mutant: the number of partitions is that of the group itself, not of the one before.
WrongOffset(g) == IF g = 0 THEN 0 ELSE offsets[g - 1] + TwoTo[GroupBits(VNum) - bits[g]]

\* The group before has as many partitions as a whole group holds.
Offset(g) == IF g = 0 THEN 0 ELSE offsets[g - 1] + TwoTo[GroupBits(VNum) - bits[g - 1]]

AddGroup ==
    /\ phase = "groups" /\ next < GroupNum(VNum)
    /\ offsets' = [g \in 0 .. next |-> IF g = next THEN Offset(g) ELSE offsets[g]]
    /\ parts' = parts \o PartsOf(next)
    /\ shuffleNum' = IF next = 0 THEN Least(ThreadNum, Len(parts')) ELSE shuffleNum
    /\ next' = next + 1
    /\ UNCHANGED <<phase, graph, names, degree, counters, units, bits, sorted, room, fillVars>>

GetVertexPartitionId(v) ==
    LET g == v \div TwoTo[GroupBits(VNum)]
    IN  ((v % TwoTo[GroupBits(VNum)]) \div TwoTo[bits[g]]) + offsets[g]

-----------------------------------------------------------------------------
(* The shuffle of the first partitions                                     *)

StartShuffle ==
    /\ phase = "groups" /\ next = GroupNum(VNum)
    /\ phase' = "shuffle" /\ next' = 0
    /\ sorted' = units
    /\ room' = [p \in 1 .. shuffleNum |-> parts[p].begin]
    /\ UNCHANGED <<graph, names, degree, counters, units, bits, offsets, parts, shuffleNum, fillVars>>

\* Mutant: vertices are dealt out in the same direction in every round.
WrongSnake(k) == (k % shuffleNum) + 1

\* Vertices are dealt out there and back, so the turn of two partitions evens out.
Snake(k) ==
    LET turn == k % (2 * shuffleNum)
    IN  IF turn < shuffleNum THEN turn + 1 ELSE 2 * shuffleNum - turn

\* Mutant: neither of the two indices moves on.
WrongPlaceVertex ==
    LET p == Snake(next) IN
    /\ phase = "shuffle" /\ next < parts[shuffleNum].end
    /\ room[p] < parts[p].end
    /\ units' = [units EXCEPT ![room[p]] = sorted[next]]
    /\ UNCHANGED <<phase, next, graph, names, degree, counters, bits, offsets, parts, shuffleNum,
                   sorted, room, fillVars>>

(***************************************************************************)
(* The first group is a whole one, so its partitions are of one size and   *)
(* none of them is full before its turn: the loop passes over nobody (so   *)
(* says the theorem NobodyIsPassedOver).                                   *)
(***************************************************************************)
PlaceVertex ==
    LET p == Snake(next) IN
    /\ phase = "shuffle" /\ next < parts[shuffleNum].end
    /\ room[p] < parts[p].end
    /\ units' = [units EXCEPT ![room[p]] = sorted[next]]
    /\ room' = [room EXCEPT ![p] = @ + 1]
    /\ next' = next + 1
    /\ UNCHANGED <<phase, graph, names, degree, counters, bits, offsets, parts, shuffleNum, sorted,
                   fillVars>>

-----------------------------------------------------------------------------
(* Sockets, adjacency lists, and the concurrent filling of the edge arrays *)

Partitions == 0 .. Len(parts) - 1

\* Partitions are dealt out to the sockets there and back, too.
PartitionSocket(p) ==
    IF p % (2 * SocketNum) < SocketNum THEN p % SocketNum ELSE SocketNum - (p % SocketNum) - 1

Holds(p, v)     == parts[p + 1].begin <= v /\ v < parts[p + 1].end
VertexSocket(v) == PartitionSocket(CHOOSE p \in Partitions : Holds(p, v))
Degree(v)       == degree[units[v]]
NewId(id)       == CHOOSE v \in Ids : units[v] = id

\* The sum of the degrees of the vertices of socket s before v.
EdgesAt(s, v) == Sum([u \in Ids |-> IF VertexSocket(u) = s THEN Degree(u) ELSE 0], v)

\* Where v's list begins in its socket's array: behind the lists of the vertices before it.
ListBegin(v) == EdgesAt(VertexSocket(v), v)

\* Half edge h of the fill loop enters To(h) into the list of From(h).
Halves == IF graph.undirected THEN 2 ELSE 1
EdgeOf(h)  == graph.edges[h \div Halves + 1]
From(h)    == NewId(IdOf(EdgeOf(h)[(h % Halves) + 1]))

\* Mutant: the second half enters the edge's end into its own list.
WrongTo(h) == NewId(IdOf(EdgeOf(h)[2]))

To(h)      == NewId(IdOf(EdgeOf(h)[2 - (h % Halves)]))

\* The static schedule: consecutive edges, the first threads get one more when there is a rest.
FirstHalf(t) ==
    Halves * (t * (Len(graph.edges) \div ThreadNum) + Least(t, Len(graph.edges) % ThreadNum))

StartFill ==
    /\ phase = "shuffle" /\ next = parts[shuffleNum].end
    /\ phase' = "fill" /\ next' = 0
    /\ edges' = [s \in Sockets |-> [i \in 0 .. EdgesAt(s, VNum) - 1 |-> None]]
    /\ cursor' = [v \in Ids |-> ListBegin(v)]
    /\ half' = [t \in Team |-> FirstHalf(t)]
    /\ UNCHANGED <<graph, names, degree, counters, units, makeVars, slot>>

\* Mutant: an add-and-fetch.
WrongClaimSlot(t) ==
    LET u == From(half[t]) IN
    /\ phase = "fill" /\ slot[t] = None /\ half[t] < FirstHalf(t + 1)
    /\ slot' = [slot EXCEPT ![t] = cursor[u] + 1]
    /\ cursor' = [cursor EXCEPT ![u] = @ + 1]
    /\ UNCHANGED <<phase, next, graph, names, degree, counters, units, makeVars, edges, half>>

\* __sync_fetch_and_add(&edge_end[u], sizeof(AdjUnit))
ClaimSlot(t) ==
    LET u == From(half[t]) IN
    /\ phase = "fill" /\ slot[t] = None /\ half[t] < FirstHalf(t + 1)
    /\ slot' = [slot EXCEPT ![t] = cursor[u]]
    /\ cursor' = [cursor EXCEPT ![u] = @ + 1]
    /\ UNCHANGED <<phase, next, graph, names, degree, counters, units, makeVars, edges, half>>

WriteSlot(t) ==
    /\ phase = "fill" /\ slot[t] # None
    /\ edges' = [edges EXCEPT ![VertexSocket(From(half[t]))][slot[t]] = To(half[t])]
    /\ slot' = [slot EXCEPT ![t] = None]
    /\ half' = [half EXCEPT ![t] = @ + 1]
    /\ UNCHANGED <<phase, next, graph, names, degree, counters, units, makeVars, cursor>>

\* The end of the region; the other sockets get copies of the adjacency lists.
EndFill ==
    /\ phase = "fill"
    /\ \A t \in Team : slot[t] = None /\ half[t] = FirstHalf(t + 1)
    /\ phase' = "done"
    /\ UNCHANGED <<next, graph, names, degree, counters, units, makeVars, fillVars>>

Finished == phase = "done" /\ UNCHANGED graphVars

Serial ==
    \/ ReadEdge
    \/ CountDegrees
    \/ SortVertex
    \/ TakeHints
    \/ AddGroup
    \/ StartShuffle
    \/ PlaceVertex
    \/ StartFill
    \/ EndFill

FillStep(t) == ClaimSlot(t) \/ WriteSlot(t)

GraphNext == Serial \/ (\E t \in Team : FillStep(t)) \/ Finished

GraphSpec == GraphInit /\ [][GraphNext]_graphVars

\* The master runs, and every thread of the team works off its edges.
FairGraphSpec ==
    GraphSpec /\ WF_graphVars(Serial) /\ \A t \in Team : WF_graphVars(FillStep(t))

-----------------------------------------------------------------------------
Sorted   == phase \notin {"load", "sort"}
Laid     == phase \in {"fill", "done"}

(***************************************************************************)
(* The variables' types, and the arrays the loops' indices lie in: the     *)
(* counter and the place counting_sort takes next, the partitions and      *)
(* where a group's begin, the next free place of each shuffled partition,  *)
(* the edge a thread is at, and the entry of its list each vertex's        *)
(* edge_end points to, or the end of the list.  (Where the entries that    *)
(* the threads have claimed lie is SlotsExclusive's matter.)               *)
(***************************************************************************)
GraphTypeOK ==
    /\ phase \in {"load", "sort", "groups", "shuffle", "fill", "done"}
    /\ next \in Nat
    /\ graph \in RawGraphs
    /\ phase # "load" => /\ degree \in [Ids -> Nat \ {0}]
                         /\ units \in [Ids -> Ids]
                         /\ \A d \in DOMAIN counters : counters[d] \in 0 .. VNum
    /\ phase = "sort" /\ next < VNum => /\ degree[next] - 1 \in DOMAIN counters
                                        /\ VNum - counters[degree[next] - 1] - 1 \in Ids
    /\ \A p \in DOMAIN parts : parts[p].begin \in Ids /\ parts[p].end \in 1 .. VNum
    /\ \A g \in DOMAIN offsets : offsets[g] \in Partitions
    /\ shuffleNum \in 0 .. Len(parts)
    /\ phase = "shuffle" => \A p \in 1 .. shuffleNum : room[p] \in parts[p].begin .. parts[p].end
    /\ Laid => /\ cursor \in [Ids -> Nat]
               /\ \A v \in Ids : cursor[v] \in ListBegin(v) .. ListBegin(v) + Degree(v)
               /\ \A s \in Sockets : \A i \in DOMAIN edges[s] : edges[s][i] \in Ids \cup {None}
               /\ \A t \in Team : half[t] \in FirstHalf(t) .. FirstHalf(t + 1)
    /\ half \in [Team -> Nat] /\ slot \in [Team -> Nat \cup {None}]

(***************************************************************************)
(* A walker is sent to the partition get_vertex_partition_id computes from *)
(* the bits and offsets of groups; samplers, sockets and edge lists go by  *)
(* partition_begin and partition_end.  For every vertex the two must name  *)
(* the same partition, the only one that holds it.                         *)
(***************************************************************************)
LookupAgrees ==
    phase \in {"shuffle", "fill", "done"} =>
        \A v \in Ids : {p \in Partitions : Holds(p, v)} = {GetVertexPartitionId(v)}

(***************************************************************************)
(* Sorting and shuffling lose no vertex, and leave the vertices of every   *)
(* partition in the order of their degrees, from the greatest down: the    *)
(* runs of equal degrees that the samplers count on (SamplersAssumption).  *)
(* Behind the shuffled partitions all vertices are in that order.  The     *)
(* CHECK in SimilarDegreeDirectSampler::valid asks for this order.  The    *)
(* comment of that function wants degrees "in ascending order", which no   *)
(* partition with two different degrees satisfies: it has the order the    *)
(* wrong way round.                                                        *)
(***************************************************************************)
DegreesFall ==
    Sorted /\ phase # "shuffle" =>
        /\ \A id \in Ids : \E v \in Ids : units[v] = id
        /\ \A u, v \in Ids : u < v =>
              \/ Degree(u) >= Degree(v)
              \/ /\ Laid
                 /\ v < parts[shuffleNum].end
                 /\ \A p \in Partitions : ~(Holds(p, u) /\ Holds(p, v))

(***************************************************************************)
(* "Evenly shuffled for load-balance" says the comment of the class: what  *)
(* a partition is ahead after one round it loses in the next, so that two  *)
(* partitions differ by a round's drop in degrees for every two rounds,    *)
(* not for every one.                                                      *)
(***************************************************************************)
ShuffleBalanced ==
    Laid =>
        LET rounds  == parts[1].end
            Size(p) == parts[p].end - parts[p].begin
            Load(p) == Sum([i \in 0 .. Size(p) - 1 |-> Degree(parts[p].begin + i)], Size(p))
            Drop(r) == degree[sorted[(r - 1) * shuffleNum]] - degree[sorted[r * shuffleNum - 1]]
        IN
        \A p, q \in 1 .. shuffleNum :
            Load(p) - Load(q) <= CeilDiv(rounds, 2) * Max({Drop(r) : r \in 1 .. rounds})

(***************************************************************************)
(* While all threads fill the lists, a claimed entry belongs to the vertex *)
(* it was claimed for, is claimed by one thread, and is still free.        *)
(***************************************************************************)
SlotsExclusive ==
    \A t \in Team : slot[t] # None =>
        LET u == From(half[t])
            s == VertexSocket(u)
        IN
        /\ slot[t] \in ListBegin(u) .. ListBegin(u) + Degree(u) - 1
        /\ slot[t] \in DOMAIN edges[s] /\ edges[s][slot[t]] = None
        /\ \A r \in Team : r # t /\ slot[r] = slot[t] => VertexSocket(From(half[r])) # s

(***************************************************************************)
(* The lists, read through id2name, are the edges of the file: each as     *)
(* often as it is in the file, in both directions in an undirected graph.  *)
(***************************************************************************)
GraphKept ==
    phase = "done" =>
        \A u, v \in Ids :
            Cardinality({i \in ListBegin(u) .. ListBegin(u) + Degree(u) - 1 :
                            edges[VertexSocket(u)][i] = v})
            = LET a == names[units[u] + 1]
                  b == names[units[v] + 1]
                  Read(x, y) == Cardinality({e \in DOMAIN graph.edges : graph.edges[e] = <<x, y>>})
              IN  Read(a, b) + (IF graph.undirected THEN Read(b, a) ELSE 0)

\* make returns.
LayoutEnds == <>(phase = "done")
=============================================================================
