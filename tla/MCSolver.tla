------------------------------ MODULE MCSolver ------------------------------
(***************************************************************************)
(* Three vertices in two partitions on one socket, two threads.  Walkers   *)
(* come in an epoch of three and a shorter one of two: task 0 has one      *)
(* walker, task 1 has two and loses one in the second epoch.               *)
(***************************************************************************)
EXTENDS Solver, TLC

MCVertices == 0 .. 2
MCNeighbors == (0 :> {1, 2}) @@ (1 :> {0}) @@ (2 :> {0})
MCPartitionIds == 0 .. 1
MCPartitionOf == (0 :> 0) @@ (1 :> 0) @@ (2 :> 1)
MCSocketPartitions == [s \in Sockets |-> <<0, 1>>]
MCPartitionNum == [s \in Sockets |-> 2]
MCThreadBegin == (0 :> 0) @@ (1 :> 1)
MCThreadEnd == (0 :> 1) @@ (1 :> 3)
=============================================================================
