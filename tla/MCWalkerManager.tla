-------------------------- MODULE MCWalkerManager --------------------------
(***************************************************************************)
(* Two sockets of two threads.  11 walkers are less than a page per        *)
(* socket, so the last socket gets them all; of 19 the first socket gets a *)
(* page.  With 5 walkers active, ranges are cut in their middle, some      *)
(* threads have nothing of their own, and every range is stolen from.      *)
(***************************************************************************)
EXTENDS WalkerManager

\* The hypothesis of the theorems about the loop; WrapWalkerManager.cfg runs without it.
ASSUME MCNoWrap == NoWrap
=============================================================================
