------------------------------ MODULE Samplers ------------------------------
(***************************************************************************)
(* The sampler of one partition: which class SamplerManager::init gives    *)
(* it, how its tables are laid out, and how it answers sample(vertex) from *)
(* then on.  One thread at a time walks a partition (WalkClaim), so calls  *)
(* follow one another.                                                     *)
(*                                                                         *)
(* An edge is told apart by the vertex whose adjacency list it is in: a    *)
(* random draw from a list is that vertex, wherever in the list it fell.   *)
(***************************************************************************)
EXTENDS Arithmetic, Sequences

CONSTANTS VNum,         \* v_num, the number of vertices of the graph
          VertexBegin, VertexEnd,   \* vertex_begin, vertex_end of the partition
          Layouts,      \* the adjacency lists to consider: degree and begin of each vertex
          MinLength,    \* the least edge buffer length
          MaxHintNum    \* SimilarDegreeDirectSamplerMaxHintNum

PartitionVertices == VertexBegin .. VertexEnd - 1

(***************************************************************************)
(* In an undirected graph every vertex has an edge.  The vertices of a     *)
(* partition are in the order of their degrees, the largest first, and     *)
(* Graph::make puts their lists one behind the other: no two overlap, and  *)
(* those of a run of equal degrees are evenly spaced.                      *)
(***************************************************************************)
ASSUME SamplersAssumption ==
    /\ VNum \in Nat /\ VertexBegin \in Nat /\ VertexEnd \in Nat
    /\ VertexBegin < VertexEnd /\ VertexEnd <= VNum
    /\ MinLength \in Nat \ {0} /\ MaxHintNum \in Nat \ {0}
    /\ Layouts \subseteq [degree : [PartitionVertices -> Nat \ {0}],
                          begin  : [PartitionVertices -> Nat]]
    /\ \A l \in Layouts : \A u, v \in PartitionVertices : u < v =>
          /\ l.degree[u] >= l.degree[v]
          /\ l.begin[u] + l.degree[u] <= l.begin[v]
          /\ l.degree[u] = l.degree[v] => l.begin[v] = l.begin[u] + (v - u) * l.degree[u]

VARIABLES
    phase,      \* "build" (the loops of the init functions) or "ready"
    next,       \* the loop variable of init
    class,      \* sampler_class
    adjlists,
    stop,       \* headers[v_idx].end
    head,       \* headers[v_idx].head
    units,      \* the edge buffers: the list each prefetched edge was drawn from
    fresh,      \* history: the entries drawn and not handed out yet
    hints,      \* hints[0 .. hint_num - 1]
    out         \* history: the last answer of sample, with what it was asked

samplerVars == <<phase, next, class, adjlists, stop, head, units, fresh, hints, out>>

Degree(v) == adjlists.degree[v]
Begin(v)  == adjlists.begin[v]
Edges(v)  == Begin(v) .. Begin(v) + Degree(v) - 1
NoVertex  == -1

\* The vertex whose list the edge at an index of the edge array is in.
ListOf(edge) ==
    IF \E v \in PartitionVertices : edge \in Edges(v)
    THEN CHOOSE v \in PartitionVertices : edge \in Edges(v)
    ELSE NoVertex

Least(a, b)   == IF a < b THEN a ELSE b
Largest(a, b) == IF a < b THEN b ELSE a
PowerOf2(n)   == \E k \in 0 .. n : TwoTo[k] = n

(***************************************************************************)
(* get_edge_buffer_length: the degree, but neither too short nor a longer  *)
(* power of two.  "The buffer size cannot be a power of 2", its comment    *)
(* says; the least length is one in the code, and stays one.               *)
(***************************************************************************)
BufferLength(degree) ==
    IF degree > MinLength /\ PowerOf2(degree) THEN degree + 1 ELSE Largest(degree, MinLength)

BufferOf(v) == stop[v] - BufferLength(Degree(v)) .. stop[v] - 1

-----------------------------------------------------------------------------
(* SamplerManager::init and the init functions of the samplers             *)

(***************************************************************************)
(* How far the degree of u is ahead of that of v, as the least degree of   *)
(* the partition goes: partition_min_degree starts from v_num, which the   *)
(* degrees of a graph with many parallel edges exceed.                     *)
(***************************************************************************)
Ahead(l, u, v) == l.degree[u] - Least(VNum, l.degree[v])

\* partition_max_degree = partition_min_degree
Uniform(l) == \A u, v \in PartitionVertices : Ahead(l, u, v) = 0

\* Mutant: one degree too many for the room there is.
WrongSimilar(l) == \A u, v \in PartitionVertices : Ahead(l, u, v) <= MaxHintNum

\* SimilarDegreeDirectSampler::valid, as far as degrees go.
Similar(l) == \A u, v \in PartitionVertices : Ahead(l, u, v) + 1 <= MaxHintNum

(***************************************************************************)
(* planned: the plan of the partition asks for an edge buffer; cached: its *)
(* data fits the L2 cache.                                                 *)
(***************************************************************************)
ClassOf(l, planned, cached) ==
    IF planned THEN "ExclusiveBuffer"
    ELSE IF Uniform(l) THEN "UniformDegreeDirect"
    ELSE IF Similar(l) /\ ~cached THEN "SimilarDegreeDirect"
    ELSE "Direct"

SamplersInit ==
    /\ phase = "build" /\ next = VertexBegin
    /\ adjlists \in Layouts
    /\ \E planned, cached \in BOOLEAN : class = ClassOf(adjlists, planned, cached)
    /\ stop = [v \in PartitionVertices |-> 0]
    /\ head = [v \in PartitionVertices |-> 0]
    /\ units = << >> /\ fresh = {}
    /\ hints = << >>
    /\ out = [asked |-> NoVertex, answer |-> NoVertex, isFresh |-> TRUE]

\* Mutant: a header's end is its vertex's degree behind the last one.
WrongPlaceBuffer ==
    /\ phase = "build" /\ next < VertexEnd /\ class = "ExclusiveBuffer"
    /\ stop' = [stop EXCEPT ![next] =
                  (IF next = VertexBegin THEN 0 ELSE stop[next - 1]) + Degree(next)]
    /\ head' = [head EXCEPT ![next] = stop'[next]]
    /\ units' = units \o [i \in 1 .. BufferLength(Degree(next)) |-> 0]
    /\ next' = next + 1
    /\ UNCHANGED <<phase, class, adjlists, fresh, hints, out>>

\* ExclusiveBufferSampler::init: buffers one behind the other, and all of them empty.
PlaceBuffer ==
    /\ phase = "build" /\ next < VertexEnd /\ class = "ExclusiveBuffer"
    /\ stop' = [stop EXCEPT ![next] =
                  (IF next = VertexBegin THEN 0 ELSE stop[next - 1]) + BufferLength(Degree(next))]
    /\ head' = [head EXCEPT ![next] = stop'[next]]
    /\ units' = units \o [i \in 1 .. BufferLength(Degree(next)) |-> 0]
    /\ next' = next + 1
    /\ UNCHANGED <<phase, class, adjlists, fresh, hints, out>>

\* SimilarDegreeDirectSampler::init: a hint for each run of equal degrees.
NewRun == hints = << >> \/ hints[Len(hints)].degree # Degree(next)

\* Mutant: the run before is left without an end.
WrongCloseRun(v) == hints

\* hints[hint_num - 1].vertex_end = v, if there is a hint.
CloseRun(v) ==
    IF hints = << >> THEN << >> ELSE [hints EXCEPT ![Len(hints)].vertexEnd = v]

AddHint ==
    /\ phase = "build" /\ next < VertexEnd /\ class = "SimilarDegreeDirect"
    /\ hints' = IF NewRun
                THEN Append(CloseRun(next), [degree |-> Degree(next), vertexBegin |-> next,
                                             vertexEnd |-> 0, edgeBegin |-> Begin(next)])
                ELSE hints
    /\ next' = next + 1
    /\ UNCHANGED <<phase, class, adjlists, stop, head, units, fresh, out>>

\* The direct samplers keep no tables of their own.
Built ==
    /\ phase = "build"
    /\ next = VertexEnd \/ class \in {"UniformDegreeDirect", "Direct"}
    /\ phase' = "ready"
    /\ hints' = IF class = "SimilarDegreeDirect" THEN CloseRun(VertexEnd) ELSE hints
    /\ UNCHANGED <<next, class, adjlists, stop, head, units, fresh, out>>

-----------------------------------------------------------------------------
(* sample, fill and clear                                                  *)

\* Mutant: as many entries are drawn anew as the vertex has edges.
WrongFilled(v) == stop[v] - BufferLength(Degree(v)) .. stop[v] - BufferLength(Degree(v)) + Degree(v) - 1

\* fill draws anew what lies between the buffer's beginning and the head.
Filled(v) == stop[v] - BufferLength(Degree(v)) .. head[v] - 1

SampleBuffer(v) ==
    LET fills  == head[v] = stop[v]
        filled == IF fills THEN Filled(v) ELSE {}
        at     == IF fills THEN stop[v] - BufferLength(Degree(v)) ELSE head[v]
    IN
    /\ phase = "ready" /\ class = "ExclusiveBuffer"
    /\ units' = [i \in DOMAIN units |-> IF i - 1 \in filled THEN v ELSE units[i]]
    /\ fresh' = (fresh \cup filled) \ {at}
    /\ head' = [head EXCEPT ![v] = at + 1]
    /\ out' = [asked |-> v, answer |-> units'[at + 1], isFresh |-> at \in fresh \cup filled]
    /\ UNCHANGED <<phase, next, class, adjlists, stop, hints>>

\* A direct draw from the edge array is fresh by itself.
Answer(v, edge) == out' = [asked |-> v, answer |-> ListOf(edge), isFresh |-> TRUE]

SampleDirect(v) ==
    /\ phase = "ready" /\ class = "Direct"
    /\ \E r \in 0 .. Degree(v) - 1 : Answer(v, Begin(v) + r)
    /\ UNCHANGED <<phase, next, class, adjlists, stop, head, units, fresh, hints>>

\* The address is computed from the degree and the list of the first vertex.
SampleUniform(v) ==
    LET degree == Degree(VertexBegin) IN
    /\ phase = "ready" /\ class = "UniformDegreeDirect"
    /\ \E r \in 0 .. degree - 1 :
          Answer(v, Begin(VertexBegin) + (v - VertexBegin) * degree + r)
    /\ UNCHANGED <<phase, next, class, adjlists, stop, head, units, fresh, hints>>

\* The first hint that ends behind v; without one the answer is vertex 0.
SampleSimilar(v) ==
    /\ phase = "ready" /\ class = "SimilarDegreeDirect"
    /\ \/ \E h \in DOMAIN hints :
             /\ v < hints[h].vertexEnd
             /\ \A k \in 1 .. h - 1 : hints[k].vertexEnd <= v
             /\ \E r \in 0 .. hints[h].degree - 1 :
                   Answer(v, hints[h].edgeBegin + (v - hints[h].vertexBegin) * hints[h].degree + r)
       \/ /\ \A h \in DOMAIN hints : hints[h].vertexEnd <= v
          /\ out' = [asked |-> v, answer |-> 0, isFresh |-> TRUE]
    /\ UNCHANGED <<phase, next, class, adjlists, stop, head, units, fresh, hints>>

(***************************************************************************)
(* SamplerManager::clear throws the prefetched edges away.  For a sampler  *)
(* of similar degrees it is a failed CHECK: there is no such call.         *)
(***************************************************************************)
Clear ==
    /\ phase = "ready" /\ class = "ExclusiveBuffer"
    /\ head' = stop
    /\ fresh' = {}
    /\ UNCHANGED <<phase, next, class, adjlists, stop, units, hints, out>>

SamplersNext ==
    \/ PlaceBuffer
    \/ AddHint
    \/ Built
    \/ \E v \in PartitionVertices :
          SampleBuffer(v) \/ SampleDirect(v) \/ SampleUniform(v) \/ SampleSimilar(v)
    \/ Clear

SamplersSpec == SamplersInit /\ [][SamplersNext]_samplerVars

-----------------------------------------------------------------------------
Classes == {"ExclusiveBuffer", "UniformDegreeDirect", "SimilarDegreeDirect", "Direct"}

(***************************************************************************)
(* The variables' types.  The hints are an array of MaxHintNum members of  *)
(* the sampler, written without a bounds check.                            *)
(***************************************************************************)
SamplersTypeOK ==
    /\ phase \in {"build", "ready"}
    /\ next \in VertexBegin .. VertexEnd
    /\ class \in Classes
    /\ adjlists \in Layouts
    /\ stop \in [PartitionVertices -> Nat] /\ head \in [PartitionVertices -> Nat]
    /\ units \in Seq(Int)
    /\ fresh \subseteq Nat
    /\ hints \in Seq([degree : Nat, vertexBegin : Nat, vertexEnd : Nat, edgeBegin : Nat])
    /\ Len(hints) <= MaxHintNum
    /\ out \in [asked : Int, answer : Int, isFresh : BOOLEAN]

(***************************************************************************)
(* Whatever class it has and however often its buffers were refilled, a    *)
(* sampler answers with an edge of the vertex it was asked about: the      *)
(* address arithmetic of the direct samplers, the runs of the hints and    *)
(* the buffers of neighbouring vertices never run into one another.        *)
(***************************************************************************)
SampledOwnEdge == out.answer = out.asked

(***************************************************************************)
(* A prefetched edge is a random draw made for one walker: none is handed  *)
(* out twice, and none that was never drawn.  Walkers that were given the  *)
(* same draw would no longer walk independently of each other.             *)
(***************************************************************************)
EveryDrawFresh == out.isFresh

(***************************************************************************)
(* The vertices' buffers do not overlap, lie in the units the partition    *)
(* allocated, and what is left in a buffer, from its head to its end, are  *)
(* draws from the vertex's list that nobody has had.                       *)
(***************************************************************************)
BuffersApart ==
    phase = "ready" /\ class = "ExclusiveBuffer" =>
        \A v \in PartitionVertices :
            /\ BufferOf(v) \subseteq 0 .. Len(units) - 1
            /\ \A u \in PartitionVertices : u # v => BufferOf(u) \cap BufferOf(v) = {}
            /\ \A i \in head[v] .. stop[v] - 1 :
                  i \in BufferOf(v) /\ i \in fresh /\ units[i + 1] = v
=============================================================================
