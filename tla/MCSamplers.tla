----------------------------- MODULE MCSamplers -----------------------------
(***************************************************************************)
(* The last partition of a graph of seven vertices, which has three.  The  *)
(* degrees fall from vertex to vertex, as sorting leaves them; they differ *)
(* by nothing, by as much and by more than the hints have room for; their  *)
(* buffers are of the least length, which is a power of two as it is in    *)
(* the code, of the degree, and of a power of two made one longer.  Equal  *)
(* degrees that exceed the number of vertices are not Uniform but Similar. *)
(***************************************************************************)
EXTENDS Samplers

MCDegrees ==
    {d \in [PartitionVertices -> 1 .. 4] :
        \A v \in PartitionVertices : v + 1 \in PartitionVertices => d[v] >= d[v + 1]}
    \cup {[v \in PartitionVertices |-> 8]}

\* The lists of the partition begin behind those of four vertices of degree 8.
MCBegin(d) ==
    LET begin[v \in PartitionVertices] ==
            IF v = VertexBegin THEN 32 ELSE begin[v - 1] + d[v - 1]
    IN  begin

MCLayouts == {[degree |-> d, begin |-> MCBegin(d)] : d \in MCDegrees}
=============================================================================
