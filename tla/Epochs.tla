-------------------------------- MODULE Epochs --------------------------------
(***************************************************************************)
(* estimate_epoch_walker: how many walkers an epoch has, so that what they *)
(* need fits the memory quota.  Shared by the solver's walk (Solver) and   *)
(* its memory (SolverMemory).                                              *)
(***************************************************************************)
EXTENDS Integers

CONSTANTS WalkerNum, WalkLen,   \* the arguments of prepare
          WalkerCap             \* the largest epoch, 2^32 - 2

ASSUME EpochsAssumption ==
    WalkerNum \in Nat \ {0} /\ WalkLen \in Nat \ {0} /\ WalkerCap \in Nat \ {0}

Least(a, b) == IF a < b THEN a ELSE b
CeilDiv(a, b) == (a + b - 1) \div b

\* As few epochs as memory allows when it has room for fit walkers, of equal size.
EpochNum(fit) == CeilDiv(WalkerNum, Least(fit, WalkerNum))
MaxEpochWalkers(fit) == Least(CeilDiv(WalkerNum, EpochNum(fit)), WalkerCap)
=============================================================================
