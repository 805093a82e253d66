----------------------------- MODULE WalkClaim -----------------------------
(***************************************************************************)
(* WalkManager::walk: one parallel region in which the threads of a socket *)
(* share the socket's partitions, sorted from high degree to low degree.   *)
(* A thread draws a ticket from partittion_progress and, if it got one,    *)
(* takes the next partition from the high end (threads of odd offset) or   *)
(* from the low end (even offset).  The two ends advance on counters of    *)
(* their own, so nothing but the ticket keeps them from meeting.           *)
(*                                                                         *)
(* What is done to a partition is left to the module that composes this    *)
(* one (Solver): this module is about who walks what.                      *)
(***************************************************************************)
EXTENDS Threads, FiniteSets

CONSTANT PartitionNum   \* graph->socket_partition_nums, a function on Sockets

ASSUME PartitionNumAssumption == PartitionNum \in [Sockets -> Nat]

VARIABLES
    pc,         \* where each thread is in the region
    part,       \* the index in socket_partitions[socket] the thread holds
    progress,   \* partittion_progress
    hdv,        \* hdv_partition_progress
    ldv,        \* ldv_partition_progress
    walked      \* history: how often each partition was walked in this region

claimVars == <<pc, part, progress, hdv, ldv, walked>>

Partitions(s) == 0 .. PartitionNum[s] - 1
AllPartitions == UNION {{s} \X Partitions(s) : s \in Sockets}
HdvThread(t)  == SocketOffset(t) % 2 = 1
NoPart        == -1

Goto(t, from, to) ==
    /\ pc[t] = from
    /\ pc' = [pc EXCEPT ![t] = to]

(***************************************************************************)
(* The serial code before and after the region, and the fork: the three    *)
(* counter vectors are locals of walk(), fresh in every call.              *)
(***************************************************************************)
ClaimInit ==
    /\ pc = [t \in Team |-> "serial"]
    /\ part = [t \in Team |-> NoPart]
    /\ progress = [s \in Sockets |-> 0]
    /\ hdv = [s \in Sockets |-> 0]
    /\ ldv = [s \in Sockets |-> 0]
    /\ walked = [sp \in AllPartitions |-> 0]

\* Mutant: only the tickets are counted anew, the two ends go on where they were.
WrongFork ==
    /\ \A t \in Team : pc[t] = "serial"
    /\ pc' = [t \in Team |-> "ticket"]
    /\ progress' = [s \in Sockets |-> 0]
    /\ walked' = [sp \in AllPartitions |-> 0]
    /\ UNCHANGED <<part, hdv, ldv>>

Fork ==
    /\ \A t \in Team : pc[t] = "serial"
    /\ pc' = [t \in Team |-> "ticket"]
    /\ progress' = [s \in Sockets |-> 0]
    /\ hdv' = [s \in Sockets |-> 0]
    /\ ldv' = [s \in Sockets |-> 0]
    /\ walked' = [sp \in AllPartitions |-> 0]
    /\ UNCHANGED part

\* Mutant: one ticket more than there are partitions.
WrongDrawTicket(t) ==
    LET s == SocketId(t) IN
    /\ progress[s] <= PartitionNum[s]
    /\ Goto(t, "ticket", "index")
    /\ progress' = [progress EXCEPT ![s] = @ + 1]
    /\ UNCHANGED <<part, hdv, ldv, walked>>

\* The loop condition: one fetch-and-add, and the comparison with its result.
DrawTicket(t) ==
    LET s == SocketId(t) IN
    /\ progress[s] < PartitionNum[s]
    /\ Goto(t, "ticket", "index")
    /\ progress' = [progress EXCEPT ![s] = @ + 1]
    /\ UNCHANGED <<part, hdv, ldv, walked>>

\* Mutant: a thread leaves while the last partition is still to be taken.
EarlyLeaveLoop(t) ==
    LET s == SocketId(t) IN
    /\ progress[s] >= PartitionNum[s] - 1
    /\ Goto(t, "ticket", "join")
    /\ progress' = [progress EXCEPT ![s] = @ + 1]
    /\ UNCHANGED <<part, hdv, ldv, walked>>

\* Mutant: the first ticket past the end is neither a partition nor a reason to leave.
LateLeaveLoop(t) ==
    LET s == SocketId(t) IN
    /\ progress[s] > PartitionNum[s]
    /\ Goto(t, "ticket", "join")
    /\ progress' = [progress EXCEPT ![s] = @ + 1]
    /\ UNCHANGED <<part, hdv, ldv, walked>>

LeaveLoop(t) ==
    LET s == SocketId(t) IN
    /\ progress[s] >= PartitionNum[s]
    /\ Goto(t, "ticket", "join")
    /\ progress' = [progress EXCEPT ![s] = @ + 1]
    /\ UNCHANGED <<part, hdv, ldv, walked>>

TakeHighEnd(t) ==
    LET s == SocketId(t) IN
    /\ HdvThread(t)
    /\ Goto(t, "index", "walk")
    /\ part' = [part EXCEPT ![t] = hdv[s]]
    /\ hdv' = [hdv EXCEPT ![s] = @ + 1]
    /\ UNCHANGED <<progress, ldv, walked>>

TakeLowEnd(t) ==
    LET s == SocketId(t) IN
    /\ ~HdvThread(t)
    /\ Goto(t, "index", "walk")
    /\ part' = [part EXCEPT ![t] = PartitionNum[s] - ldv[s] - 1]
    /\ ldv' = [ldv EXCEPT ![s] = @ + 1]
    /\ UNCHANGED <<progress, hdv, walked>>

\* The body of the loop is over: the partition's blocks of all tasks are walked.
FinishPartition(t) ==
    LET s == SocketId(t) IN
    /\ Goto(t, "walk", "ticket")
    /\ walked' = [walked EXCEPT ![<<s, part[t]>>] = @ + 1]
    /\ part' = [part EXCEPT ![t] = NoPart]
    /\ UNCHANGED <<progress, hdv, ldv>>

\* The barrier at the end of the region.
Join ==
    /\ \A t \in Team : pc[t] = "join"
    /\ pc' = [t \in Team |-> "serial"]
    /\ UNCHANGED <<part, progress, hdv, ldv, walked>>

Claim(t) ==
    \/ DrawTicket(t)
    \/ LeaveLoop(t)
    \/ TakeHighEnd(t)
    \/ TakeLowEnd(t)

ClaimNext ==
    \/ Fork
    \/ Join
    \/ \E t \in Team : Claim(t) \/ FinishPartition(t)

ClaimSpec == ClaimInit /\ [][ClaimNext]_claimVars

(***************************************************************************)
(* The operating system runs every thread of the team, and a thread that   *)
(* can take its next step takes it: nothing in the region waits for a      *)
(* lock.  The caller may stop calling walk(), so Fork is not fair.         *)
(***************************************************************************)
ClaimFairness ==
    /\ \A t \in Team : WF_claimVars(Claim(t) \/ FinishPartition(t))
    /\ WF_claimVars(Join)

FairClaimSpec == ClaimSpec /\ ClaimFairness

-----------------------------------------------------------------------------
Locations == {"serial", "ticket", "index", "walk", "join"}

(***************************************************************************)
(* The variables' types.  The counters stay within what the team can add:  *)
(* each thread of a socket draws at most one ticket past the last, and an  *)
(* end advances over no more than the socket's partitions.  A thread holds *)
(* a partition of its own socket or none.                                  *)
(***************************************************************************)
ClaimTypeOK ==
    /\ pc \in [Team -> Locations]
    /\ part \in [Team -> Int]
    /\ \A t \in Team : part[t] \in Partitions(SocketId(t)) \cup {NoPart}
    /\ progress \in [Sockets -> Nat] /\ hdv \in [Sockets -> Nat] /\ ldv \in [Sockets -> Nat]
    /\ \A s \in Sockets : /\ progress[s] <= PartitionNum[s] + SocketThreadNum
                          /\ hdv[s] <= PartitionNum[s]
                          /\ ldv[s] <= PartitionNum[s]
    /\ walked \in [AllPartitions -> Nat]

(***************************************************************************)
(* A partition's sampler, its edge buffer and its blocks of messages are   *)
(* touched without a lock: the thread that walks partition p_i must be the *)
(* only one, although the two ends of socket_partitions are taken with     *)
(* unrelated counters.  The index itself must lie in socket_partitions.    *)
(***************************************************************************)
ExclusivePartition ==
    \A t \in Team : pc[t] = "walk" =>
        /\ part[t] \in Partitions(SocketId(t))
        /\ \A u \in Team : pc[u] = "walk" /\ SocketId(u) = SocketId(t)
                              /\ part[u] = part[t] => u = t

(***************************************************************************)
(* A walker that sits in a partition makes one step per call of walk():    *)
(* no partition is walked twice, and when the region is over every         *)
(* partition has been walked, whichever threads drew the tickets.          *)
(***************************************************************************)
EachPartitionWalkedOnce ==
    \A sp \in AllPartitions :
        /\ walked[sp] <= 1
        /\ (\A t \in Team : pc[t] = "join") => walked[sp] = 1

\* Every call of walk() returns: the threads run out of tickets and join.
RegionEnds == (\E t \in Team : pc[t] # "serial") ~> (\A t \in Team : pc[t] = "serial")
=============================================================================
