--------------------------- MODULE MCSolverMemory ---------------------------
(* Values of the constants for the runs of SolverMemory. *)
EXTENDS SolverMemory

\* Two partitions with an edge buffer, one without.
MCVertexNum   == [p \in 0 .. 2 |-> 3 + p]
MCBufferUnits == [p \in 0 .. 2 |-> IF p = 1 THEN 0 ELSE 32]

\* Sizes of which one is a multiple of the alignment and others are not.
MCObjectSize == [rand |-> 8, sampler |-> 56, state |-> 12, task |-> 64]
=============================================================================
