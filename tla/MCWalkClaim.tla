---------------------------- MODULE MCWalkClaim ----------------------------
(***************************************************************************)
(* Two sockets of three threads: on each socket two threads take from the  *)
(* low end and one from the high end.  Socket 0 has fewer partitions than  *)
(* threads, socket 1 more tickets than any thread can take at once.        *)
(***************************************************************************)
EXTENDS WalkClaim

MCPartitionNum == [s \in Sockets |-> s + 2]
=============================================================================
