---------------------------- MODULE SolverProofs ----------------------------
(***************************************************************************)
(* FMobSolver: that every walker's message comes back to it, moved along   *)
(* one edge, for every graph, team, division of the walkers and number of  *)
(* epochs; and that the solver therefore implements RandomWalk.            *)
(*                                                                         *)
(* A counting sort is followed through three regions: the slot of a walker *)
(* is the number of walkers before it in the order by partition and then   *)
(* by walker, so two walkers have different slots, and the walkers of one  *)
(* partition fill the slots of its block.  From the shuffle to the update  *)
(* the slot of a walker holds the vertex it is at, and once its partition  *)
(* has been walked a neighbour of it.                                      *)
(*                                                                         *)
(* The claims within the walk region come first: the tickets keep the two  *)
(* ends of socket_partitions apart.  That invariant counts: on socket s,   *)
(* the partitions already taken from either end plus the threads that hold *)
(* a ticket they have not used yet are as many as the tickets given out,   *)
(* of which there are no more than partitions.  A thread about to take one *)
(* therefore finds a gap between the ends.                                 *)
(***************************************************************************)
EXTENDS Solver, CommonProofs, FiniteSetTheorems

-----------------------------------------------------------------------------
(* The claims                                                              *)

Indexing(s) == {t \in Team : SocketId(t) = s /\ pc[t] = "index"}
Outside(s)  == {t \in Team : SocketId(t) = s /\ pc[t] \in {"join", "serial"}}
Tickets(s)  == IF progress[s] < PartitionNum[s] THEN progress[s] ELSE PartitionNum[s]

\* Partition p of socket s has been taken from one of the ends; a thread walks it.
Taken(s, p) == p < hdv[s] \/ p >= PartitionNum[s] - ldv[s]
Held(s, p)  == \E t \in Team : pc[t] = "walk" /\ SocketId(t) = s /\ part[t] = p

ClaimTypes ==
    /\ pc \in [Team -> Locations] /\ part \in [Team -> Int]
    /\ progress \in [Sockets -> Nat] /\ hdv \in [Sockets -> Nat] /\ ldv \in [Sockets -> Nat]
    /\ walked \in [AllPartitions -> Nat]

TicketsAddUp == \A s \in Sockets :
    hdv[s] + ldv[s] + Cardinality(Indexing(s)) = Tickets(s)

HeldIsTaken == \A t \in Team : pc[t] = "walk" =>
    part[t] \in Partitions(SocketId(t)) /\ Taken(SocketId(t), part[t])

HeldByOne == \A t, u \in Team :
    /\ pc[t] = "walk" /\ pc[u] = "walk"
    /\ SocketId(u) = SocketId(t) /\ part[u] = part[t]
    => u = t

WalkedIsTakenAndReleased == \A s \in Sockets : \A p \in Partitions(s) :
    walked[<<s, p>>] = IF Taken(s, p) /\ ~Held(s, p) THEN 1 ELSE 0

LeftMeansSoldOut == \A t \in Team :
    pc[t] = "join" => progress[SocketId(t)] >= PartitionNum[SocketId(t)]

\* Every ticket past the last has sent a thread out of the loop.
TicketsBounded == \A s \in Sockets : progress[s] <= PartitionNum[s] + Cardinality(Outside(s))

NoneHeld == \A t \in Team : pc[t] # "walk" => part[t] = NoPart

ClaimCounts ==
    /\ ClaimTypes
    /\ TicketsAddUp
    /\ HeldIsTaken
    /\ HeldByOne
    /\ WalkedIsTakenAndReleased
    /\ LeftMeansSoldOut
    /\ TicketsBounded
    /\ NoneHeld

\* What the counts say of the variables' bounds belongs to the invariant.
ClaimIInv == ClaimCounts /\ ClaimTypeOK
-----------------------------------------------------------------------------
\* The number of a socket's partitions is a number.
LEMMA PartitionNumNat == ASSUME NEW s \in Sockets PROVE PartitionNum[s] \in Nat
  BY PartitionNumAssumption

\* The history has one entry for each partition of each socket.
LEMMA AllPartitionsIs ==
    ASSUME NEW s \in Sockets, NEW p PROVE <<s, p>> \in AllPartitions <=> p \in Partitions(s)
  BY DEF AllPartitions

\* Only so many threads can hold a ticket that is not used yet.
LEMMA IndexingFinite ==
    ASSUME NEW s PROVE IsFiniteSet(Indexing(s)) /\ Cardinality(Indexing(s)) \in Nat
<1>1. IsFiniteSet(Team)
  BY FS_Interval, ThreadsAssumption DEF Team
<1>2. Indexing(s) \in SUBSET Team
  BY DEF Indexing
<1> QED
  BY <1>1, <1>2, FS_Subset, FS_CardinalityType

\* A thread that draws a ticket, and one that uses it, change the count of its socket by one.
LEMMA IndexingEnter ==
    ASSUME ClaimTypes, NEW t \in Team, NEW s \in Sockets, Goto(t, "ticket", "index")
    PROVE  Cardinality(Indexing(s)') =
             Cardinality(Indexing(s)) + (IF s = SocketId(t) THEN 1 ELSE 0)
<1>1. t \notin Indexing(s)
  BY DEF Goto, Indexing
<1>2. CASE s = SocketId(t)
  <2>1. Indexing(s)' = Indexing(s) \cup {t}
    BY <1>2 DEF Goto, Indexing, ClaimTypes
  <2> QED
    BY <1>1, <1>2, <2>1, IndexingFinite, FS_AddElement
<1>3. CASE s # SocketId(t)
  <2>1. Indexing(s)' = Indexing(s)
    BY <1>3 DEF Goto, Indexing, ClaimTypes
  <2> QED
    BY <1>3, <2>1, IndexingFinite
<1> QED
  BY <1>2, <1>3

\* A thread that takes its partition uses its ticket up.
LEMMA IndexingLeave ==
    ASSUME ClaimTypes, NEW t \in Team, NEW s \in Sockets, Goto(t, "index", "walk")
    PROVE  Cardinality(Indexing(s)') =
             Cardinality(Indexing(s)) - (IF s = SocketId(t) THEN 1 ELSE 0)
<1>2. CASE s = SocketId(t)
  <2>1. Indexing(s)' = Indexing(s) \ {t} /\ t \in Indexing(s)
    BY <1>2 DEF Goto, Indexing, ClaimTypes
  <2> QED
    BY <1>2, <2>1, IndexingFinite, FS_RemoveElement
<1>3. CASE s # SocketId(t)
  <2>1. Indexing(s)' = Indexing(s)
    BY <1>3 DEF Goto, Indexing, ClaimTypes
  <2> QED
    BY <1>3, <2>1, IndexingFinite
<1> QED
  BY <1>2, <1>3

\* Nobody else's move changes the count.
LEMMA IndexingKept ==
    ASSUME NEW s \in Sockets,
           \A t \in Team : pc'[t] = "index" <=> pc[t] = "index"
    PROVE  Indexing(s)' = Indexing(s)
  BY DEF Indexing

\* The threads outside the loop are at most those of the socket.
LEMMA OutsideFinite ==
    ASSUME NEW s \in Sockets
    PROVE  IsFiniteSet(Outside(s)) /\ Cardinality(Outside(s)) \in 0 .. SocketThreadNum
<1> DEFINE k == SocketThreadNum
           T == k * s .. k * s + k - 1
<1>1. k \in Nat \ {0} /\ s \in Nat /\ k * s \in Nat
  <2>1. k \in Nat \ {0} /\ s \in Nat
    BY TeamSize, ThreadsAssumption DEF Sockets
  <2> QED
    BY <2>1, Z3
<1>2. IsFiniteSet(T) /\ Cardinality(T) = k
  <2> HIDE DEF k
  <2> QED
    BY <1>1, FS_Interval
<1>3. ASSUME NEW t \in Outside(s) PROVE t \in T
  <2>1. t \in Nat /\ t \div k = s
    BY ThreadsAssumption DEF Outside, Team, SocketId
  <2>2. t % k \in 0 .. k - 1 /\ t = k * (t \div k) + (t % k)
    BY <1>1, <2>1, DivMod
  <2> HIDE DEF k
  <2> QED
    BY <1>1, <2>1, <2>2
<1> HIDE DEF T
<1>4. Outside(s) \in SUBSET T
  BY <1>3
<1>5. IsFiniteSet(Outside(s)) /\ Cardinality(Outside(s)) <= Cardinality(T)
  BY <1>2, <1>4, FS_Subset
<1> QED
  BY <1>1, <1>2, <1>5, FS_CardinalityType

\* A thread that leaves the loop is one more outside.
LEMMA OutsideEnter ==
    ASSUME ClaimTypes, NEW t \in Team, NEW s \in Sockets, Goto(t, "ticket", "join")
    PROVE  Cardinality(Outside(s)') =
             Cardinality(Outside(s)) + (IF s = SocketId(t) THEN 1 ELSE 0)
<1>1. t \notin Outside(s)
  BY DEF Goto, Outside
<1>2. CASE s = SocketId(t)
  <2>1. Outside(s)' = Outside(s) \cup {t}
    BY <1>2 DEF Goto, Outside, ClaimTypes
  <2> QED
    BY <1>1, <1>2, <2>1, OutsideFinite, FS_AddElement
<1>3. CASE s # SocketId(t)
  <2>1. Outside(s)' = Outside(s)
    BY <1>3 DEF Goto, Outside, ClaimTypes
  <2> QED
    BY <1>3, <2>1, OutsideFinite
<1> QED
  BY <1>2, <1>3

\* A step that takes nobody out of the loop or into it, and draws no ticket.
LEMMA TicketsKept ==
    ASSUME TicketsBounded, progress' = progress,
           \A t \in Team : pc'[t] \in {"join", "serial"} <=> pc[t] \in {"join", "serial"}
    PROVE  TicketsBounded'
<1>1. ASSUME NEW s PROVE Outside(s)' = Outside(s)
  BY DEF Outside
<1> QED
  BY <1>1 DEF TicketsBounded

\* A thread that holds a ticket finds a partition between the two ends.
LEMMA GapBetweenEnds ==
    ASSUME ClaimTypes, TicketsAddUp, NEW t \in Team, pc[t] = "index", NEW s, s = SocketId(t)
    PROVE  s \in Sockets /\ hdv[s] + ldv[s] < PartitionNum[s]
<1>1. s \in Sockets
  BY SocketIdType
<1>2. t \in Indexing(s)
  BY DEF Indexing
<1>3. Cardinality(Indexing(s)) # 0
  BY <1>2, IndexingFinite, FS_EmptySet
<1> QED
  BY <1>1, <1>3, IndexingFinite, PartitionNumNat DEF TicketsAddUp, Tickets, ClaimTypes
-----------------------------------------------------------------------------
\* Before the region nothing is counted and nothing is held.
LEMMA ClaimInitInv == ClaimInit => ClaimCounts
<1> SUFFICES ASSUME ClaimInit PROVE ClaimCounts
  OBVIOUS
<1> USE DEF ClaimInit
<1>1. ClaimTypes
  BY DEF ClaimTypes, Locations, NoPart
<1>2. ASSUME NEW s \in Sockets PROVE hdv[s] + ldv[s] + Cardinality(Indexing(s)) = Tickets(s)
  <2>1. Indexing(s) = {}
    BY DEF Indexing
  <2> QED
    BY <2>1, FS_EmptySet, PartitionNumNat DEF Tickets
<1>3. HeldIsTaken /\ HeldByOne /\ LeftMeansSoldOut
  BY DEF HeldIsTaken, HeldByOne, LeftMeansSoldOut
<1>5. NoneHeld
  BY DEF NoneHeld
<1>6. TicketsBounded
  BY OutsideFinite, PartitionNumNat DEF TicketsBounded
<1>4. ASSUME NEW s \in Sockets, NEW p \in Partitions(s)
      PROVE  walked[<<s, p>>] = 0 /\ ~Taken(s, p)
  BY AllPartitionsIs, PartitionNumNat DEF Partitions, Taken
<1> QED
  BY <1>1, <1>2, <1>3, <1>4, <1>5, <1>6 DEF ClaimCounts, TicketsAddUp, WalkedIsTakenAndReleased

\* The fork starts all counts anew.
LEMMA ForkInv == ClaimCounts /\ Fork => ClaimCounts'
<1> SUFFICES ASSUME ClaimCounts, Fork PROVE ClaimCounts'
  OBVIOUS
<1> USE DEF ClaimCounts, Fork
<1>1. ClaimTypes'
  BY DEF ClaimTypes, Locations
<1>2. ASSUME NEW s \in Sockets
      PROVE  (hdv[s] + ldv[s] + Cardinality(Indexing(s)) = Tickets(s))'
  <2>1. Indexing(s)' = {}
    BY DEF Indexing
  <2> QED
    BY <2>1, FS_EmptySet, PartitionNumNat DEF Tickets
<1>3. HeldIsTaken' /\ HeldByOne' /\ LeftMeansSoldOut'
  BY DEF HeldIsTaken, HeldByOne, LeftMeansSoldOut
<1>5. NoneHeld'
  BY DEF NoneHeld
<1>6. TicketsBounded'
  <2>1. ASSUME NEW s \in Sockets PROVE Outside(s)' = {}
    BY DEF Outside
  <2> QED
    BY <2>1, FS_EmptySet, PartitionNumNat DEF TicketsBounded
<1>4. ASSUME NEW s \in Sockets, NEW p \in Partitions(s)
      PROVE  (walked[<<s, p>>] = 0)' /\ ~Taken(s, p)'
  BY AllPartitionsIs, PartitionNumNat DEF Partitions, Taken
<1> QED
  BY <1>1, <1>2, <1>3, <1>4, <1>5, <1>6 DEF TicketsAddUp, WalkedIsTakenAndReleased

\* At the barrier nothing is held, so nothing is lost.
LEMMA JoinInv == ClaimCounts /\ Join => ClaimCounts'
<1> SUFFICES ASSUME ClaimCounts, Join PROVE ClaimCounts'
  OBVIOUS
<1> USE DEF ClaimCounts, Join
<1>1. ClaimTypes'
  BY DEF ClaimTypes, Locations
<1>2. ASSUME NEW s \in Sockets PROVE Indexing(s)' = Indexing(s)
  BY DEF Indexing
<1>3. ASSUME NEW s \in Sockets, NEW p PROVE Held(s, p)' = Held(s, p)
  BY DEF Held
<1>4. TicketsAddUp'
  BY <1>2 DEF TicketsAddUp, Tickets
<1>5. WalkedIsTakenAndReleased'
  BY <1>3 DEF WalkedIsTakenAndReleased, Taken, Held
<1>6. HeldIsTaken' /\ HeldByOne' /\ LeftMeansSoldOut'
  BY DEF HeldIsTaken, HeldByOne, LeftMeansSoldOut
<1>7. NoneHeld' /\ TicketsBounded'
  BY TicketsKept DEF NoneHeld
<1> QED
  BY <1>1, <1>4, <1>5, <1>6, <1>7

\* One ticket more is drawn, and one thread more is about to use one.
LEMMA DrawTicketInv == ASSUME ClaimCounts, NEW t \in Team, DrawTicket(t) PROVE ClaimCounts'
<1> DEFINE s == SocketId(t)
<1> USE DEF ClaimCounts, DrawTicket
<1>0. s \in Sockets
  BY SocketIdType
<1>1. ClaimTypes'
  BY <1>0 DEF ClaimTypes, Locations, Goto
<1>2. ASSUME NEW r \in Sockets
      PROVE  (hdv[r] + ldv[r] + Cardinality(Indexing(r)) = Tickets(r))'
  <2>1. Cardinality(Indexing(r)') = Cardinality(Indexing(r)) + (IF r = s THEN 1 ELSE 0)
    BY IndexingEnter
  <2>2. Tickets(r)' = Tickets(r) + (IF r = s THEN 1 ELSE 0)
    BY <1>0, PartitionNumNat DEF Tickets, ClaimTypes
  <2>3. hdv[r] + ldv[r] + Cardinality(Indexing(r)) = Tickets(r) /\ Tickets(r) \in Nat
    BY PartitionNumNat DEF TicketsAddUp, Tickets, ClaimTypes
  <2>4. hdv'[r] = hdv[r] /\ ldv'[r] = ldv[r] /\ hdv[r] \in Nat /\ ldv[r] \in Nat
    BY DEF ClaimTypes
  <2> QED
    BY <2>1, <2>2, <2>3, <2>4, IndexingFinite
<1>3. \A u \in Team : pc'[u] = "walk" <=> pc[u] = "walk"
  BY DEF Goto, ClaimTypes
<1>4. HeldIsTaken' /\ HeldByOne'
  BY <1>3 DEF HeldIsTaken, HeldByOne, Taken
<1>5. WalkedIsTakenAndReleased'
  BY <1>3 DEF WalkedIsTakenAndReleased, Taken, Held
<1>6. ASSUME NEW u \in Team, pc'[u] = "join"
      PROVE  progress'[SocketId(u)] >= PartitionNum[SocketId(u)]
  BY <1>0, <1>6, SocketIdType, PartitionNumNat DEF LeftMeansSoldOut, Goto, ClaimTypes
<1>7. NoneHeld'
  BY DEF NoneHeld, Goto, ClaimTypes
<1>8. TicketsBounded'
  <2>1. ASSUME NEW r \in Sockets PROVE Outside(r)' = Outside(r)
    BY DEF Outside, Goto, ClaimTypes
  <2>2. ASSUME NEW r \in Sockets PROVE progress'[r] <= PartitionNum[r] + Cardinality(Outside(r))
    <3>1. CASE r = s
      BY <1>0, <3>1, OutsideFinite, PartitionNumNat DEF ClaimTypes
    <3>2. CASE r # s
      BY <1>0, <3>2 DEF TicketsBounded, ClaimTypes
    <3> QED
      BY <3>1, <3>2
  <2> QED
    BY <2>1, <2>2 DEF TicketsBounded
<1> QED
  BY <1>1, <1>2, <1>4, <1>5, <1>6, <1>7, <1>8 DEF TicketsAddUp, LeftMeansSoldOut

\* A thread leaves only when as many tickets are drawn as there are partitions.
LEMMA LeaveLoopInv == ASSUME ClaimCounts, NEW t \in Team, LeaveLoop(t) PROVE ClaimCounts'
<1> DEFINE s == SocketId(t)
<1> USE DEF ClaimCounts, LeaveLoop
<1>0. s \in Sockets
  BY SocketIdType
<1>1. ClaimTypes'
  BY <1>0 DEF ClaimTypes, Locations, Goto
<1>2. \A u \in Team : /\ pc'[u] = "walk" <=> pc[u] = "walk"
                      /\ pc'[u] = "index" <=> pc[u] = "index"
  BY DEF Goto, ClaimTypes
<1>3. TicketsAddUp'
  <2>1. ASSUME NEW r \in Sockets PROVE Indexing(r)' = Indexing(r) /\ Tickets(r)' = Tickets(r)
    BY <1>0, <1>2, IndexingKept, PartitionNumNat DEF Tickets, ClaimTypes
  <2> QED
    BY <2>1 DEF TicketsAddUp
<1>4. HeldIsTaken' /\ HeldByOne'
  BY <1>2 DEF HeldIsTaken, HeldByOne, Taken
<1>5. WalkedIsTakenAndReleased'
  <2>1. ASSUME NEW r, NEW p
        PROVE  /\ walked' = walked
               /\ Taken(r, p)' <=> Taken(r, p)
               /\ Held(r, p)' <=> Held(r, p)
    BY <1>2 DEF Taken, Held
  <2> HIDE DEF ClaimCounts, LeaveLoop
  <2>2. WalkedIsTakenAndReleased
    BY DEF ClaimCounts
  <2> QED
    BY <2>1, <2>2 DEF WalkedIsTakenAndReleased
<1>6. ASSUME NEW u \in Team, pc'[u] = "join"
      PROVE  progress'[SocketId(u)] >= PartitionNum[SocketId(u)]
  BY <1>0, <1>6, SocketIdType, PartitionNumNat DEF LeftMeansSoldOut, Goto, ClaimTypes
<1>7. NoneHeld'
  BY <1>2 DEF NoneHeld
<1>8. TicketsBounded'
  <2>1. ASSUME NEW r \in Sockets
        PROVE  Cardinality(Outside(r)') = Cardinality(Outside(r)) + (IF r = s THEN 1 ELSE 0)
    BY OutsideEnter
  <2>2. ASSUME NEW r \in Sockets
        PROVE  progress'[r] = progress[r] + (IF r = s THEN 1 ELSE 0) /\ progress[r] \in Nat
    BY <1>0 DEF ClaimTypes
  <2>3. ASSUME NEW r \in Sockets PROVE progress[r] <= PartitionNum[r] + Cardinality(Outside(r))
    BY DEF TicketsBounded
  <2> HIDE DEF ClaimCounts, LeaveLoop
  <2>4. ASSUME NEW r \in Sockets
        PROVE  progress'[r] <= PartitionNum[r] + Cardinality(Outside(r)')
    BY <2>1, <2>2, <2>3, OutsideFinite, PartitionNumNat
  <2> QED
    BY <2>4 DEF TicketsBounded
<1> QED
  BY <1>1, <1>3, <1>4, <1>5, <1>6, <1>7, <1>8 DEF LeftMeansSoldOut

\* The high end moves by one, into the gap between the ends.
LEMMA TakeHighEndInv == ASSUME ClaimCounts, NEW t \in Team, TakeHighEnd(t) PROVE ClaimCounts'
<1> DEFINE s == SocketId(t)
           p == hdv[s]
<1> USE DEF ClaimCounts, TakeHighEnd
<1>0. s \in Sockets /\ hdv[s] + ldv[s] < PartitionNum[s] /\ PartitionNum[s] \in Nat
  BY GapBetweenEnds, PartitionNumNat DEF Goto
<1>1. hdv[s] \in Nat /\ ldv[s] \in Nat
  BY <1>0 DEF ClaimTypes
<1>2. p \in Partitions(s) /\ ~Taken(s, p)
  BY <1>0, <1>1 DEF Partitions, Taken
<1>3. ClaimTypes'
  BY <1>0, <1>1, <1>2 DEF ClaimTypes, Locations, Goto, Partitions
<1>4. ASSUME NEW r \in Sockets
      PROVE  (hdv[r] + ldv[r] + Cardinality(Indexing(r)) = Tickets(r))'
  <2>1. Cardinality(Indexing(r)') = Cardinality(Indexing(r)) - (IF r = s THEN 1 ELSE 0)
    BY IndexingLeave
  <2>2. hdv'[r] = hdv[r] + (IF r = s THEN 1 ELSE 0) /\ ldv'[r] = ldv[r]
    BY <1>0 DEF ClaimTypes
  <2>3. hdv[r] + ldv[r] + Cardinality(Indexing(r)) = Tickets(r) /\ Tickets(r)' = Tickets(r)
    BY DEF TicketsAddUp, Tickets
  <2>4. hdv[r] \in Nat /\ ldv[r] \in Nat
    BY DEF ClaimTypes
  <2> QED
    BY <2>1, <2>2, <2>3, <2>4, IndexingFinite
<1> DEFINE TakenNow(r, q) == q < hdv'[r] \/ q >= PartitionNum[r] - ldv'[r]
<1>5. ASSUME NEW r \in Sockets, NEW q \in Partitions(r)
      PROVE  TakenNow(r, q) <=> (Taken(r, q) \/ (r = s /\ q = p))
  <2>1. q \in Int /\ PartitionNum[r] \in Nat /\ hdv[r] \in Nat /\ ldv[r] \in Nat
    BY PartitionNumNat DEF Partitions, ClaimTypes
  <2>2. CASE r = s
    <3>1. hdv'[r] = hdv[r] + 1 /\ ldv'[r] = ldv[r]
      BY <1>0, <2>2 DEF ClaimTypes
    <3> QED
      BY <2>1, <2>2, <3>1 DEF Taken
  <2>3. CASE r # s
    BY <1>0, <2>3 DEF Taken, ClaimTypes
  <2> QED
    BY <2>2, <2>3
<1>6. \A u \in Team : u # t => pc'[u] = pc[u] /\ part'[u] = part[u]
  BY DEF Goto, ClaimTypes
<1>7. pc[t] = "index" /\ pc'[t] = "walk" /\ part'[t] = p
  BY DEF Goto, ClaimTypes
<1>8. HeldIsTaken'
  <2> HIDE DEF TakenNow, p
  <2>1. ASSUME NEW u \in Team, pc'[u] = "walk"
        PROVE  part'[u] \in Partitions(SocketId(u)) /\ TakenNow(SocketId(u), part'[u])
    <3>1. CASE u = t
      BY <1>0, <1>2, <1>5, <1>7, <3>1
    <3>2. CASE u # t
      <4>1. part'[u] = part[u] /\ part[u] \in Partitions(SocketId(u))
            /\ Taken(SocketId(u), part[u])
        BY <1>6, <2>1, <3>2 DEF HeldIsTaken
      <4> QED
        BY <1>5, <4>1, SocketIdType
    <3> QED
      BY <3>1, <3>2
  <2> QED
    BY <2>1 DEF HeldIsTaken, TakenNow, Taken
<1>9. HeldByOne'
  <2>1. ASSUME NEW u \in Team, u # t, pc[u] = "walk", SocketId(u) = s PROVE part[u] # p
    BY <1>2, <2>1 DEF HeldIsTaken
  <2> QED
    BY <1>6, <1>7, <2>1 DEF HeldByOne
<1>10. ASSUME NEW r \in Sockets, NEW q \in Partitions(r)
       PROVE  Held(r, q)' <=> (Held(r, q) \/ (r = s /\ q = p))
  BY <1>6, <1>7 DEF Held
<1>11. WalkedIsTakenAndReleased'
  <2>1. ~Held(s, p)
    BY <1>2 DEF Held, HeldIsTaken
  <2>2. walked' = walked
    OBVIOUS
  <2>3. ASSUME NEW r \in Sockets, NEW q \in Partitions(r)
        PROVE  walked[<<r, q>>] = IF TakenNow(r, q) /\ ~Held(r, q)' THEN 1 ELSE 0
    <3>1. walked[<<r, q>>] = IF Taken(r, q) /\ ~Held(r, q) THEN 1 ELSE 0
      BY DEF WalkedIsTakenAndReleased
    <3> HIDE DEF TakenNow, p
    <3> QED
      BY <1>2, <1>5, <1>10, <2>1, <3>1
  <2> QED
    BY <2>2, <2>3 DEF WalkedIsTakenAndReleased, TakenNow, Taken
<1>12. LeftMeansSoldOut'
  BY <1>6, <1>7 DEF LeftMeansSoldOut
<1>13. NoneHeld' /\ TicketsBounded'
  BY <1>6, <1>7, TicketsKept DEF NoneHeld
<1> QED
  BY <1>3, <1>4, <1>8, <1>9, <1>11, <1>12, <1>13 DEF TicketsAddUp

\* The low end moves by one, into the gap between the ends.
LEMMA TakeLowEndInv == ASSUME ClaimCounts, NEW t \in Team, TakeLowEnd(t) PROVE ClaimCounts'
<1> DEFINE s == SocketId(t)
           p == PartitionNum[s] - ldv[s] - 1
<1> USE DEF ClaimCounts, TakeLowEnd
<1>0. s \in Sockets /\ hdv[s] + ldv[s] < PartitionNum[s] /\ PartitionNum[s] \in Nat
  BY GapBetweenEnds, PartitionNumNat DEF Goto
<1>1. hdv[s] \in Nat /\ ldv[s] \in Nat
  BY <1>0 DEF ClaimTypes
<1>2. p \in Partitions(s) /\ ~Taken(s, p)
  BY <1>0, <1>1 DEF Partitions, Taken
<1>3. ClaimTypes'
  BY <1>0, <1>1, <1>2 DEF ClaimTypes, Locations, Goto, Partitions
<1>4. ASSUME NEW r \in Sockets
      PROVE  (hdv[r] + ldv[r] + Cardinality(Indexing(r)) = Tickets(r))'
  <2>1. Cardinality(Indexing(r)') = Cardinality(Indexing(r)) - (IF r = s THEN 1 ELSE 0)
    BY IndexingLeave
  <2>2. ldv'[r] = ldv[r] + (IF r = s THEN 1 ELSE 0) /\ hdv'[r] = hdv[r]
    BY <1>0 DEF ClaimTypes
  <2>3. hdv[r] + ldv[r] + Cardinality(Indexing(r)) = Tickets(r) /\ Tickets(r)' = Tickets(r)
    BY DEF TicketsAddUp, Tickets
  <2>4. hdv[r] \in Nat /\ ldv[r] \in Nat
    BY DEF ClaimTypes
  <2> QED
    BY <2>1, <2>2, <2>3, <2>4, IndexingFinite
<1> DEFINE TakenNow(r, q) == q < hdv'[r] \/ q >= PartitionNum[r] - ldv'[r]
<1>5. ASSUME NEW r \in Sockets, NEW q \in Partitions(r)
      PROVE  TakenNow(r, q) <=> (Taken(r, q) \/ (r = s /\ q = p))
  <2>1. q \in Int /\ PartitionNum[r] \in Nat /\ hdv[r] \in Nat /\ ldv[r] \in Nat
    BY PartitionNumNat DEF Partitions, ClaimTypes
  <2>2. CASE r = s
    <3>1. ldv'[r] = ldv[r] + 1 /\ hdv'[r] = hdv[r]
      BY <1>0, <2>2 DEF ClaimTypes
    <3> QED
      BY <2>1, <2>2, <3>1 DEF Taken
  <2>3. CASE r # s
    BY <1>0, <2>3 DEF Taken, ClaimTypes
  <2> QED
    BY <2>2, <2>3
<1>6. \A u \in Team : u # t => pc'[u] = pc[u] /\ part'[u] = part[u]
  BY DEF Goto, ClaimTypes
<1>7. pc[t] = "index" /\ pc'[t] = "walk" /\ part'[t] = p
  BY DEF Goto, ClaimTypes
<1>8. HeldIsTaken'
  <2> HIDE DEF TakenNow, p
  <2>1. ASSUME NEW u \in Team, pc'[u] = "walk"
        PROVE  part'[u] \in Partitions(SocketId(u)) /\ TakenNow(SocketId(u), part'[u])
    <3>1. CASE u = t
      BY <1>0, <1>2, <1>5, <1>7, <3>1
    <3>2. CASE u # t
      <4>1. part'[u] = part[u] /\ part[u] \in Partitions(SocketId(u))
            /\ Taken(SocketId(u), part[u])
        BY <1>6, <2>1, <3>2 DEF HeldIsTaken
      <4> QED
        BY <1>5, <4>1, SocketIdType
    <3> QED
      BY <3>1, <3>2
  <2> QED
    BY <2>1 DEF HeldIsTaken, TakenNow, Taken
<1>9. HeldByOne'
  <2>1. ASSUME NEW u \in Team, u # t, pc[u] = "walk", SocketId(u) = s PROVE part[u] # p
    BY <1>2, <2>1 DEF HeldIsTaken
  <2> QED
    BY <1>6, <1>7, <2>1 DEF HeldByOne
<1>10. ASSUME NEW r \in Sockets, NEW q \in Partitions(r)
       PROVE  Held(r, q)' <=> (Held(r, q) \/ (r = s /\ q = p))
  BY <1>6, <1>7 DEF Held
<1>11. WalkedIsTakenAndReleased'
  <2>1. ~Held(s, p)
    BY <1>2 DEF Held, HeldIsTaken
  <2>2. walked' = walked
    OBVIOUS
  <2>3. ASSUME NEW r \in Sockets, NEW q \in Partitions(r)
        PROVE  walked[<<r, q>>] = IF TakenNow(r, q) /\ ~Held(r, q)' THEN 1 ELSE 0
    <3>1. walked[<<r, q>>] = IF Taken(r, q) /\ ~Held(r, q) THEN 1 ELSE 0
      BY DEF WalkedIsTakenAndReleased
    <3> HIDE DEF TakenNow, p
    <3> QED
      BY <1>2, <1>5, <1>10, <2>1, <3>1
  <2> QED
    BY <2>2, <2>3 DEF WalkedIsTakenAndReleased, TakenNow, Taken
<1>12. LeftMeansSoldOut'
  BY <1>6, <1>7 DEF LeftMeansSoldOut
<1>13. NoneHeld' /\ TicketsBounded'
  BY <1>6, <1>7, TicketsKept DEF NoneHeld
<1> QED
  BY <1>3, <1>4, <1>8, <1>9, <1>11, <1>12, <1>13 DEF TicketsAddUp

LEMMA FinishPartitionInv ==
    ASSUME ClaimCounts, NEW t \in Team, FinishPartition(t) PROVE ClaimCounts'
<1> DEFINE s == SocketId(t)
           p == part[t]
<1> USE DEF ClaimCounts, FinishPartition
<1>0. s \in Sockets /\ p \in Partitions(s) /\ Taken(s, p)
  BY SocketIdType DEF Goto, HeldIsTaken
<1>1. ClaimTypes'
  BY <1>0, AllPartitionsIs DEF ClaimTypes, Locations, Goto, NoPart
<1>2. \A u \in Team : pc'[u] = "index" <=> pc[u] = "index"
  BY DEF Goto, ClaimTypes
<1>3. TicketsAddUp'
  <2>1. ASSUME NEW r \in Sockets PROVE Indexing(r)' = Indexing(r) /\ Tickets(r)' = Tickets(r)
    BY <1>2, IndexingKept DEF Tickets
  <2> QED
    BY <2>1 DEF TicketsAddUp
<1>4. \A u \in Team : u # t => pc'[u] = pc[u] /\ part'[u] = part[u]
  BY DEF Goto, ClaimTypes
<1>5. pc[t] = "walk" /\ pc'[t] = "ticket"
  BY DEF Goto, ClaimTypes
<1>6. HeldIsTaken' /\ HeldByOne' /\ LeftMeansSoldOut'
  BY <1>4, <1>5 DEF HeldIsTaken, HeldByOne, LeftMeansSoldOut, Taken
<1>7. ASSUME NEW r \in Sockets, NEW q \in Partitions(r)
      PROVE  Held(r, q)' <=> (Held(r, q) /\ ~(r = s /\ q = p))
  <2>1. ASSUME NEW u \in Team, pc[u] = "walk", SocketId(u) = s, part[u] = p PROVE u = t
    BY <1>5, <2>1 DEF HeldByOne
  <2> QED
    BY <1>4, <1>5, <2>1 DEF Held
<1>8. ASSUME NEW r \in Sockets, NEW q \in Partitions(r)
      PROVE  walked'[<<r, q>>] =
               IF r = s /\ q = p THEN walked[<<r, q>>] + 1 ELSE walked[<<r, q>>]
  BY <1>0, AllPartitionsIs DEF ClaimTypes
<1>9. WalkedIsTakenAndReleased'
  <2>1. Held(s, p)
    BY <1>5 DEF Held
  <2>2. ASSUME NEW r \in Sockets, NEW q \in Partitions(r)
        PROVE  walked'[<<r, q>>] = IF Taken(r, q) /\ ~Held(r, q)' THEN 1 ELSE 0
    <3>1. walked[<<r, q>>] = IF Taken(r, q) /\ ~Held(r, q) THEN 1 ELSE 0
      BY DEF WalkedIsTakenAndReleased
    <3> HIDE DEF p
    <3> QED
      BY <1>0, <1>7, <1>8, <2>1, <3>1
  <2>3. hdv' = hdv /\ ldv' = ldv
    OBVIOUS
  <2> QED
    BY <2>2, <2>3 DEF WalkedIsTakenAndReleased, Taken
<1>10. part'[t] = NoPart
  BY DEF ClaimTypes
<1>11. NoneHeld' /\ TicketsBounded'
  BY <1>4, <1>5, <1>10, TicketsKept DEF NoneHeld
<1> QED
  BY <1>1, <1>3, <1>6, <1>9, <1>11

-----------------------------------------------------------------------------
\* A step that leaves the region's variables alone.
LEMMA ClaimKept == ClaimCounts /\ UNCHANGED claimVars => ClaimCounts'
  BY DEF claimVars, ClaimCounts, ClaimTypes, TicketsAddUp, Indexing, Tickets,
     HeldIsTaken, HeldByOne, WalkedIsTakenAndReleased, Taken, Held, LeftMeansSoldOut,
     TicketsBounded, Outside, NoneHeld

\* A step of a thread in the loop, up to the body of the loop.
LEMMA ClaimActionInv == ASSUME ClaimCounts, NEW t \in Team, Claim(t) PROVE ClaimCounts'
  BY DrawTicketInv, LeaveLoopInv, TakeHighEndInv, TakeLowEndInv DEF Claim

\* Threads that have all left the loop have sold every ticket, and nobody holds a partition.
LEMMA AllWalkedAtJoin == ClaimCounts => EachPartitionWalkedOnce
<1> SUFFICES ASSUME ClaimCounts, NEW s \in Sockets, NEW p \in Partitions(s)
             PROVE  /\ walked[<<s, p>>] <= 1
                    /\ (\A t \in Team : pc[t] = "join") => walked[<<s, p>>] = 1
  BY DEF EachPartitionWalkedOnce, AllPartitions
<1>1. walked[<<s, p>>] = IF Taken(s, p) /\ ~Held(s, p) THEN 1 ELSE 0
  BY DEF ClaimCounts, WalkedIsTakenAndReleased
<1>2. ASSUME \A t \in Team : pc[t] = "join" PROVE Taken(s, p) /\ ~Held(s, p)
  <2>1. ~Held(s, p) /\ Indexing(s) = {}
    BY <1>2 DEF Held, Indexing
  <2>2. progress[s] >= PartitionNum[s]
    BY <1>2, SocketHasThread DEF ClaimCounts, LeftMeansSoldOut
  <2>3. hdv[s] + ldv[s] + 0 = PartitionNum[s]
    <3>1. Cardinality(Indexing(s)) = 0
      BY <2>1, FS_EmptySet
    <3>2. hdv[s] + ldv[s] + Cardinality(Indexing(s)) = Tickets(s)
      BY DEF ClaimCounts, TicketsAddUp
    <3>3. Tickets(s) = PartitionNum[s]
      BY <2>2, PartitionNumNat DEF Tickets, ClaimCounts, ClaimTypes
    <3> QED
      BY <3>1, <3>2, <3>3
  <2>4. hdv[s] \in Nat /\ ldv[s] \in Nat /\ p \in Int
    BY DEF ClaimCounts, ClaimTypes, Partitions
  <2> QED
    BY <2>1, <2>3, <2>4, PartitionNumNat DEF Taken
<1> QED
  BY <1>1, <1>2

\* The bounds of the counters follow: the two ends share the partitions between them.
LEMMA ClaimTypeFollows == ClaimCounts => ClaimTypeOK
<1> SUFFICES ASSUME ClaimCounts PROVE ClaimTypeOK
  OBVIOUS
<1>1. ASSUME NEW t \in Team PROVE part[t] \in Partitions(SocketId(t)) \cup {NoPart}
  BY DEF ClaimCounts, HeldIsTaken, NoneHeld
<1>2. ASSUME NEW s \in Sockets PROVE progress[s] <= PartitionNum[s] + SocketThreadNum
  <2>1. progress[s] <= PartitionNum[s] + Cardinality(Outside(s)) /\ progress[s] \in Nat
    BY DEF ClaimCounts, TicketsBounded, ClaimTypes
  <2> QED
    BY <2>1, OutsideFinite, TeamSize, PartitionNumNat
<1>3. ASSUME NEW s \in Sockets PROVE hdv[s] <= PartitionNum[s] /\ ldv[s] <= PartitionNum[s]
  <2>1. /\ hdv[s] \in Nat /\ ldv[s] \in Nat /\ progress[s] \in Nat
        /\ hdv[s] + ldv[s] + Cardinality(Indexing(s)) = Tickets(s)
    BY DEF ClaimCounts, TicketsAddUp, ClaimTypes
  <2> QED
    BY <2>1, IndexingFinite, PartitionNumNat DEF Tickets
<1> QED
  BY <1>1, <1>2, <1>3 DEF ClaimTypeOK, ClaimCounts, ClaimTypes

LEMMA ClaimStays == ASSUME ClaimCounts' PROVE ClaimIInv'
  BY ClaimTypeFollows, PTL DEF ClaimIInv

\* The invariant is inductive: it holds initially and every action keeps it.
THEOREM ClaimInvariant == ClaimSpec => []ClaimIInv
<1>1. ClaimInit => ClaimCounts
  BY ClaimInitInv
<1>2. ClaimCounts /\ [ClaimNext]_claimVars => ClaimCounts'
  <2> SUFFICES ASSUME ClaimCounts, [ClaimNext]_claimVars PROVE ClaimCounts'
    OBVIOUS
  <2>1. CASE Fork
    BY <2>1, ForkInv
  <2>2. CASE Join
    BY <2>2, JoinInv
  <2>3. ASSUME NEW t \in Team, Claim(t) PROVE ClaimCounts'
    BY <2>3, ClaimActionInv
  <2>4. ASSUME NEW t \in Team, FinishPartition(t) PROVE ClaimCounts'
    BY <2>4, FinishPartitionInv
  <2>5. CASE UNCHANGED claimVars
    BY <2>5, ClaimKept
  <2> QED
    BY <2>1, <2>2, <2>3, <2>4, <2>5 DEF ClaimNext
<1>3. ClaimCounts => ClaimIInv
  BY ClaimTypeFollows DEF ClaimIInv
<1> QED
  BY <1>1, <1>2, <1>3, PTL DEF ClaimSpec

(***************************************************************************)
(* The variables of WalkManager::walk keep their types and the counters    *)
(* their bounds, for any number of sockets, threads and partitions.        *)
(***************************************************************************)
THEOREM ClaimTypeCorrect == ClaimSpec => []ClaimTypeOK
<1>1. ClaimIInv => ClaimTypeOK
  BY DEF ClaimIInv
<1> QED
  BY <1>1, ClaimInvariant, PTL

(***************************************************************************)
(* No two threads ever walk one partition, and every partition index is in *)
(* range, for any number of sockets, threads and partitions.               *)
(***************************************************************************)
THEOREM ClaimExclusive == ClaimSpec => []ExclusivePartition
<1>1. ClaimIInv => ExclusivePartition
  BY DEF ClaimIInv, ClaimCounts, HeldIsTaken, HeldByOne, ExclusivePartition
<1> QED
  BY <1>1, ClaimInvariant, PTL

(***************************************************************************)
(* When the threads have left the loop every partition of every socket has *)
(* been walked, exactly once.                                              *)
(***************************************************************************)
THEOREM ClaimComplete == ClaimSpec => []EachPartitionWalkedOnce
<1>1. ClaimIInv => EachPartitionWalkedOnce
  BY AllWalkedAtJoin DEF ClaimIInv
<1> QED
  BY <1>1, ClaimInvariant, PTL
-----------------------------------------------------------------------------
(* The solver                                                              *)

\* The slot of walker m among the walkers ws, and the walkers that come before it.
SlotOf(ids, ws, m) == BlockStart(ids, ws)[ids[m]] + Rank(ids, ws, m)
Before(ids, ws, m) == {k \in ws : ids[k] < ids[m] \/ (ids[k] = ids[m] /\ k < m)}

\* The walkers in partition p, in the partitions before it, and in either.
Here(ids, ws, p)  == {k \in ws : ids[k] = p}
Below(ids, ws, p) == {k \in ws : ids[k] < p}
UpTo(ids, ws, p)  == {k \in ws : ids[k] <= p}

\* The slot of walker m of task t; what the task holds is sorted and not yet copied back.
Slot(t, m)  == SlotOf(pids, TaskWalkers(t), m)
Shuffled(t) == \/ phase = "shuffle" /\ t \in done
               \/ phase = "walk"
               \/ phase = "update" /\ t \notin done

\* Partition p has been walked in this step.
Moved(p) == \/ phase = "update"
            \/ /\ phase = "walk"
               /\ \E s \in Sockets : \E i \in Partitions(s) :
                     SocketPartitions[s][i + 1] = p /\ walked[<<s, i>>] # 0

InStep == phase \in {"shuffle", "walk", "update"}

WalkersCounted ==
    /\ rest + terminated = WalkerNum
    /\ phase # "idle" => active = Least(MaxEpoch, rest) /\ rest # 0

StepInWalk ==
    /\ InStep \/ phase = "step" => step \in 1 .. WalkLen - 1
    /\ phase = "paths" => step = WalkLen
    /\ phase \notin {"shuffle", "update"} => done = {}
    /\ phase # "walk" => \A t \in Team : pc[t] = "serial"

\* The ranges of the tasks are those of a full epoch, cut at a.
CutAt(a) == \A t \in Team : /\ taskBegin[t] = Least(ThreadBegin[t], a)
                            /\ taskEnd[t] = Least(ThreadEnd[t], a)

TasksCut == \E a \in 0 .. MaxEpoch :
    /\ CutAt(a)
    /\ Least(MaxEpoch, rest) <= a
    /\ InStep => a = active

BlocksSorted == \A t \in Team : Shuffled(t) =>
    /\ blockBegin[t] = BlockStart(pids, TaskWalkers(t))
    /\ blockEnd[t] = BlockStop(pids, TaskWalkers(t))
    /\ \A m \in TaskWalkers(t) : pids[m] = PartitionOf[walks[step - 1][m]]

MessagesFollow == \A t \in Team : Shuffled(t) => \A m \in TaskWalkers(t) :
    /\ Moved(pids[m]) => msgs[t][Slot(t, m)] \in Neighbors[walks[step - 1][m]]
    /\ ~Moved(pids[m]) => msgs[t][Slot(t, m)] = walks[step - 1][m]

StatesFollow == Node2vec /\ step > 1 =>
    \A t \in Team : Shuffled(t) => \A m \in TaskWalkers(t) :
        /\ states[t][Slot(t, m)] = walks[step - 2][m]
        /\ Moved(pids[m]) => cond[t][Slot(t, m)] = walks[step - 2][m]

SolverIInv ==
    /\ SolverTypeOK
    /\ ClaimIInv
    /\ WalkersCounted
    /\ StepInWalk
    /\ TasksCut
    /\ BlocksSorted
    /\ MessagesFollow
    /\ StatesFollow
-----------------------------------------------------------------------------
(* The size of an epoch.                                                   *)

\* A quotient rounded up is positive.
LEMMA CeilDivPositive ==
    ASSUME NEW a \in Nat \ {0}, NEW b \in Nat \ {0}
    PROVE  CeilDiv(a, b) \in Nat \ {0}
<1> DEFINE n == a + b - 1
           q == n \div b
<1>1. n \in Nat /\ n >= b
  OBVIOUS
<1>2. q \in Nat /\ n % b \in 0 .. b - 1 /\ n = b * q + (n % b)
  BY <1>1, DivMod
<1> HIDE DEF q, n
<1>3. q # 0
  BY <1>1, <1>2
<1> QED
  BY <1>2, <1>3 DEF CeilDiv, n, q

\* At least one walker walks in an epoch.
LEMMA MaxEpochType == MaxEpoch \in Nat \ {0}
<1>1. Least(FitWalkers, WalkerNum) \in Nat \ {0}
  BY SolverAssumption, EpochsAssumption DEF Least
<1>2. EpochNum(FitWalkers) \in Nat \ {0}
  BY <1>1, CeilDivPositive, EpochsAssumption DEF EpochNum
<1>3. CeilDiv(WalkerNum, EpochNum(FitWalkers)) \in Nat \ {0}
  BY <1>2, CeilDivPositive, EpochsAssumption
<1> QED
  BY <1>3, EpochsAssumption DEF MaxEpoch, MaxEpochWalkers, Least

\* There are finitely many walkers, and they are numbers.
LEMMA WalkersFinite ==
    ASSUME NEW ws \in SUBSET Walkers
    PROVE  IsFiniteSet(ws) /\ ws \subseteq Nat /\ Cardinality(ws) \in Nat /\ Cardinality(ws) <= MaxEpoch
<1>1. IsFiniteSet(Walkers) /\ Cardinality(Walkers) = MaxEpoch
  <2>1. 0 \in Int /\ MaxEpoch - 1 \in Int /\ ~(0 > MaxEpoch - 1) /\ (MaxEpoch - 1) - 0 + 1 = MaxEpoch
    BY MaxEpochType
  <2> QED
    BY <2>1, FS_Interval DEF Walkers
<1>2. IsFiniteSet(ws) /\ Cardinality(ws) \in Nat /\ Cardinality(ws) <= MaxEpoch
  BY <1>1, FS_Subset, FS_CardinalityType
<1> QED
  BY <1>2, MaxEpochType DEF Walkers
-----------------------------------------------------------------------------
(* The counting sort.                                                      *)

\* The parts a sort is made of are finite.
LEMMA PartFinite ==
    ASSUME NEW ws \in SUBSET Walkers, NEW part1, part1 \subseteq ws
    PROVE  IsFiniteSet(part1) /\ Cardinality(part1) \in Nat /\ Cardinality(part1) <= Cardinality(ws)
  BY WalkersFinite, FS_Subset, FS_CardinalityType

\* A part that lacks an element the other has is smaller.
LEMMA PartSmaller ==
    ASSUME NEW ws \in SUBSET Walkers, NEW S, NEW T, S \subseteq T, T \subseteq ws, NEW m \in T, m \notin S
    PROVE  Cardinality(S) + 1 <= Cardinality(T)
<1>1. IsFiniteSet(S) /\ IsFiniteSet(T) /\ Cardinality(S) \in Nat /\ Cardinality(T) \in Nat
  BY PartFinite
<1>2. Cardinality(S \cup {m}) = Cardinality(S) + 1
  BY <1>1, FS_AddElement
<1>3. S \cup {m} \subseteq T
  OBVIOUS
<1>4. Cardinality(S \cup {m}) <= Cardinality(T)
  BY <1>1, <1>3, FS_Subset
<1> QED
  BY <1>2, <1>4

\* The slot of a walker is the number of walkers before it.
LEMMA SlotIsBefore ==
    ASSUME NEW ws \in SUBSET Walkers, NEW ids, \A k \in ws : ids[k] \in PartitionIds, NEW m \in ws
    PROVE  /\ SlotOf(ids, ws, m) = Cardinality(Before(ids, ws, m))
           /\ Before(ids, ws, m) \subseteq ws /\ m \notin Before(ids, ws, m)
<1> DEFINE S == {k \in ws : ids[k] < ids[m]}
           T == {k \in ws : k < m /\ ids[k] = ids[m]}
<1>1. ws \subseteq Nat /\ \A k \in ws : ids[k] \in Nat
  BY WalkersFinite, SolverAssumption
<1>2. SlotOf(ids, ws, m) = Cardinality(S) + Cardinality(T)
  BY DEF SlotOf, BlockStart, Rank
<1>3. Before(ids, ws, m) = S \cup T /\ S \cap T = {}
  BY <1>1 DEF Before
<1>4. S \subseteq ws /\ T \subseteq ws
  OBVIOUS
<1>5. m \notin S /\ m \notin T
  BY <1>1
<1> HIDE DEF S, T
<1>6. IsFiniteSet(S) /\ IsFiniteSet(T) /\ Cardinality(S) \in Nat /\ Cardinality(T) \in Nat
  BY <1>4, PartFinite
<1>7. Cardinality(S \cup T) = Cardinality(S) + Cardinality(T)
  BY <1>3, <1>6, FS_Union, FS_EmptySet
<1> QED
  BY <1>2, <1>3, <1>4, <1>5, <1>7

\* There are as many slots as walkers.
LEMMA SlotBound ==
    ASSUME NEW ws \in SUBSET Walkers, NEW ids, \A k \in ws : ids[k] \in PartitionIds, NEW m \in ws
    PROVE  SlotOf(ids, ws, m) \in Nat /\ SlotOf(ids, ws, m) + 1 <= Cardinality(ws)
<1>1. Before(ids, ws, m) \subseteq ws /\ m \notin Before(ids, ws, m)
  BY SlotIsBefore
<1>2. Cardinality(Before(ids, ws, m)) + 1 <= Cardinality(ws)
  BY <1>1, PartSmaller
<1>3. Cardinality(Before(ids, ws, m)) \in Nat
  BY <1>1, PartFinite
<1> QED
  BY <1>2, <1>3, SlotIsBefore

\* Two walkers have different slots.
LEMMA SlotInjective ==
    ASSUME NEW ws \in SUBSET Walkers, NEW ids, \A k \in ws : ids[k] \in PartitionIds,
           NEW m \in ws, NEW n \in ws, SlotOf(ids, ws, m) = SlotOf(ids, ws, n)
    PROVE  m = n
<1>1. ws \subseteq Nat /\ \A k \in ws : ids[k] \in Nat
  BY WalkersFinite, SolverAssumption
<1>2. ASSUME NEW x \in ws, NEW y \in ws, ids[x] < ids[y] \/ (ids[x] = ids[y] /\ x < y)
      PROVE  SlotOf(ids, ws, x) + 1 <= SlotOf(ids, ws, y)
  <2>1. x \in Before(ids, ws, y) /\ x \notin Before(ids, ws, x)
    BY <1>2, SlotIsBefore DEF Before
  <2>2. Before(ids, ws, x) \subseteq Before(ids, ws, y)
    <3>1. ASSUME NEW k \in Before(ids, ws, x) PROVE k \in Before(ids, ws, y)
      <4>1. k \in ws /\ (ids[k] < ids[x] \/ (ids[k] = ids[x] /\ k < x))
        BY DEF Before
      <4>2. k \in Nat /\ x \in Nat /\ y \in Nat /\ ids[k] \in Nat /\ ids[x] \in Nat /\ ids[y] \in Nat
        BY <1>1, <4>1
      <4>3. ids[k] < ids[y] \/ (ids[k] = ids[y] /\ k < y)
        BY <1>2, <4>1, <4>2
      <4> QED
        BY <4>1, <4>3 DEF Before
    <3> QED
      BY <3>1
  <2>3. Before(ids, ws, y) \subseteq ws
    BY SlotIsBefore
  <2>4. Cardinality(Before(ids, ws, x)) + 1 <= Cardinality(Before(ids, ws, y))
    BY <2>1, <2>2, <2>3, PartSmaller
  <2> QED
    BY <2>4, SlotIsBefore
<1>3. SlotOf(ids, ws, m) \in Nat /\ SlotOf(ids, ws, n) \in Nat
  BY SlotBound
<1>4. ~(ids[m] < ids[n] \/ (ids[m] = ids[n] /\ m < n)) /\ ~(ids[n] < ids[m] \/ (ids[n] = ids[m] /\ n < m))
  BY <1>2, <1>3
<1> QED
  BY <1>1, <1>4

\* The bounds of the blocks.
LEMMA BlockBounds ==
    ASSUME NEW ws \in SUBSET Walkers, NEW ids, \A k \in ws : ids[k] \in PartitionIds, NEW p \in PartitionIds
    PROVE  /\ BlockStart(ids, ws)[p] = Cardinality(Below(ids, ws, p))
           /\ BlockSize(ids, ws)[p] = Cardinality(Here(ids, ws, p))
           /\ BlockStop(ids, ws)[p] = Cardinality(UpTo(ids, ws, p))
           /\ BlockStop(ids, ws)[p] = BlockStart(ids, ws)[p] + BlockSize(ids, ws)[p]
           /\ BlockStart(ids, ws)[p] \in Nat /\ BlockSize(ids, ws)[p] \in Nat
           /\ BlockStop(ids, ws)[p] <= Cardinality(ws)
<1> DEFINE S == Below(ids, ws, p)
           T == Here(ids, ws, p)
           U == UpTo(ids, ws, p)
<1>1. p \in Nat /\ \A k \in ws : ids[k] \in Nat
  BY SolverAssumption
<1>2. BlockStart(ids, ws)[p] = Cardinality(S) /\ BlockSize(ids, ws)[p] = Cardinality(T)
  BY DEF BlockStart, BlockSize, Below, Here
<1>3. BlockStop(ids, ws)[p] = BlockStart(ids, ws)[p] + BlockSize(ids, ws)[p]
  BY DEF BlockStop
<1>4. U = S \cup T /\ S \cap T = {}
  BY <1>1 DEF Below, Here, UpTo
<1>5. S \subseteq ws /\ T \subseteq ws /\ U \subseteq ws
  BY DEF Below, Here, UpTo
<1> HIDE DEF S, T, U
<1>6. /\ IsFiniteSet(S) /\ IsFiniteSet(T) /\ Cardinality(S) \in Nat /\ Cardinality(T) \in Nat
      /\ Cardinality(U) <= Cardinality(ws)
  BY <1>5, PartFinite
<1>7. Cardinality(U) = Cardinality(S) + Cardinality(T)
  <2>1. Cardinality(S \cup T) = Cardinality(S) + Cardinality(T) - Cardinality(S \cap T)
    BY <1>6, FS_Union
  <2>2. Cardinality(S \cap T) = 0
    BY <1>4, FS_EmptySet, Zenon
  <2>3. Cardinality(U) = Cardinality(S \cup T)
    BY <1>4, Zenon
  <2> QED
    BY <2>1, <2>2, <2>3, <1>6
<1>8. BlockStop(ids, ws)[p] = Cardinality(U) /\ BlockStop(ids, ws)[p] <= Cardinality(ws)
  BY <1>2, <1>3, <1>6, <1>7
<1> QED
  BY <1>2, <1>3, <1>6, <1>8 DEF S, T, U

\* A walker's rank in its partition.
LEMMA SlotParts ==
    ASSUME NEW ws \in SUBSET Walkers, NEW ids, \A k \in ws : ids[k] \in PartitionIds, NEW m \in ws
    PROVE  /\ Rank(ids, ws, m) \in Nat /\ Rank(ids, ws, m) + 1 <= BlockSize(ids, ws)[ids[m]]
           /\ SlotOf(ids, ws, m) = BlockStart(ids, ws)[ids[m]] + Rank(ids, ws, m)
<1> DEFINE R == {k \in ws : k < m /\ ids[k] = ids[m]}
           H == Here(ids, ws, ids[m])
<1>1. R \subseteq H /\ H \subseteq ws /\ m \in H /\ m \notin R
  BY WalkersFinite DEF Here
<1>2. Rank(ids, ws, m) = Cardinality(R) /\ BlockSize(ids, ws)[ids[m]] = Cardinality(H)
  BY BlockBounds DEF Rank
<1> HIDE DEF R, H
<1>3. Cardinality(R) + 1 <= Cardinality(H) /\ Cardinality(R) \in Nat
  BY <1>1, PartSmaller, PartFinite
<1> QED
  BY <1>2, <1>3 DEF SlotOf

\* The slot of a walker is in the block of its partition and in no other.
LEMMA SlotInBlock ==
    ASSUME NEW ws \in SUBSET Walkers, NEW ids, \A k \in ws : ids[k] \in PartitionIds,
           NEW m \in ws, NEW p \in PartitionIds
    PROVE  BlockStart(ids, ws)[p] <= SlotOf(ids, ws, m) /\ SlotOf(ids, ws, m) < BlockStop(ids, ws)[p]
           <=> ids[m] = p
<1> DEFINE q == ids[m]
           first == BlockStart(ids, ws)[p]
           stop == BlockStop(ids, ws)[p]
           slot == SlotOf(ids, ws, m)
<1>1. p \in Nat /\ q \in Nat /\ q \in PartitionIds /\ \A k \in ws : ids[k] \in Nat
  BY SolverAssumption
<1>2. first \in Nat /\ stop \in Nat /\ slot \in Nat /\ first <= stop
  BY BlockBounds, SlotBound
<1>3. CASE q = p
  BY <1>2, <1>3, BlockBounds, SlotParts
<1>4. CASE q < p
  <2>1. Before(ids, ws, m) \subseteq Below(ids, ws, p) /\ m \in Below(ids, ws, p)
    BY <1>1, <1>4 DEF Before, Below
  <2>2. Below(ids, ws, p) \subseteq ws
    BY DEF Below
  <2>3. slot = Cardinality(Before(ids, ws, m)) /\ m \notin Before(ids, ws, m)
    BY SlotIsBefore
  <2>4. Cardinality(Before(ids, ws, m)) + 1 <= Cardinality(Below(ids, ws, p))
    BY <2>1, <2>2, <2>3, PartSmaller
  <2>5. first = Cardinality(Below(ids, ws, p))
    BY BlockBounds
  <2>6. slot < first
    BY <2>3, <2>4, <2>5, <1>2
  <2> QED
    BY <2>6, <1>1, <1>2, <1>4
<1>5. CASE p < q
  <2>1. UpTo(ids, ws, p) \subseteq Below(ids, ws, q) /\ Below(ids, ws, q) \subseteq ws
    BY <1>1, <1>5 DEF UpTo, Below
  <2>2. IsFiniteSet(Below(ids, ws, q))
    BY <2>1, PartFinite
  <2>3. Cardinality(UpTo(ids, ws, p)) <= Cardinality(Below(ids, ws, q))
    BY <2>1, <2>2, FS_Subset
  <2>4. stop = Cardinality(UpTo(ids, ws, p))
    BY BlockBounds
  <2>5. BlockStart(ids, ws)[q] = Cardinality(Below(ids, ws, q)) /\ BlockStart(ids, ws)[q] \in Nat
    BY <1>1, BlockBounds
  <2>6. slot = BlockStart(ids, ws)[q] + Rank(ids, ws, m) /\ Rank(ids, ws, m) \in Nat
    BY SlotParts
  <2>7. stop <= slot
    BY <2>3, <2>4, <2>5, <2>6, <1>2
  <2> QED
    BY <2>7, <1>1, <1>2, <1>5
<1> QED
  BY <1>1, <1>3, <1>4, <1>5

\* Every slot of a block is the slot of a walker of its partition: there are as many of one as of the other.
LEMMA BlockFilled ==
    ASSUME NEW ws \in SUBSET Walkers, NEW ids, \A k \in ws : ids[k] \in PartitionIds, NEW p \in PartitionIds,
           NEW i \in Int, BlockStart(ids, ws)[p] <= i, i < BlockStop(ids, ws)[p]
    PROVE  \E m \in ws : ids[m] = p /\ SlotOf(ids, ws, m) = i
<1> DEFINE S == Here(ids, ws, p)
           a == BlockStart(ids, ws)[p]
           b == BlockStop(ids, ws)[p] - 1
           f == [m \in S |-> SlotOf(ids, ws, m)]
<1>1. a \in Nat /\ b = a + Cardinality(S) - 1 /\ Cardinality(S) \in Nat /\ b \in Int
  BY BlockBounds
<1>2. \A m \in S : m \in ws /\ ids[m] = p
  BY DEF Here
<1>3. ASSUME NEW m \in S PROVE SlotOf(ids, ws, m) \in a .. b
  <2>1. m \in ws /\ ids[m] = p
    BY <1>2
  <2>2. a <= SlotOf(ids, ws, m) /\ SlotOf(ids, ws, m) < BlockStop(ids, ws)[p]
    BY <2>1, SlotInBlock
  <2>3. SlotOf(ids, ws, m) \in Nat
    BY <2>1, SlotBound
  <2> QED
    BY <2>2, <2>3, <1>1, BlockBounds
<1>4. \A m, n \in S : SlotOf(ids, ws, m) = SlotOf(ids, ws, n) => m = n
  BY <1>2, SlotInjective
<1>5. i \in a .. b
  BY <1>1, BlockBounds
<1> HIDE DEF S, a, b
<1>6. f \in Injection(S, a .. b)
  BY <1>3, <1>4 DEF Injection, IsInjective
<1>7. IsFiniteSet(a .. b) /\ Cardinality(a .. b) = Cardinality(S)
  <2>1. ~(a > b) /\ b - a + 1 = Cardinality(S) /\ a \in Int
    BY <1>1, <1>5
  <2>2. IsFiniteSet(a .. b) /\ Cardinality(a .. b) = IF a > b THEN 0 ELSE b - a + 1
    BY <2>1, <1>1, FS_Interval
  <2> QED
    BY <2>1, <2>2
<1> HIDE DEF f
<1>8. f \in Surjection(S, a .. b)
  BY <1>6, <1>7, FS_Injection
<1>9. PICK m \in S : f[m] = i
  BY <1>5, <1>8 DEF Surjection
<1> QED
  BY <1>2, <1>9 DEF f

\* The sort only looks at the walkers that are sorted.
LEMMA SortAgrees ==
    ASSUME NEW ws \in SUBSET Walkers, NEW ids, NEW jds, \A k \in ws : ids[k] = jds[k]
    PROVE  /\ BlockStart(ids, ws) = BlockStart(jds, ws)
           /\ BlockSize(ids, ws) = BlockSize(jds, ws)
           /\ BlockStop(ids, ws) = BlockStop(jds, ws)
           /\ \A m \in ws : SlotOf(ids, ws, m) = SlotOf(jds, ws, m)
<1>1. \A p \in PartitionIds : {m \in ws : ids[m] < p} = {m \in ws : jds[m] < p}
                              /\ {m \in ws : ids[m] = p} = {m \in ws : jds[m] = p}
  OBVIOUS
<1>2. BlockStart(ids, ws) = BlockStart(jds, ws) /\ BlockSize(ids, ws) = BlockSize(jds, ws)
  BY <1>1 DEF BlockStart, BlockSize
<1>3. BlockStop(ids, ws) = BlockStop(jds, ws)
  BY <1>2 DEF BlockStop
<1>4. ASSUME NEW m \in ws PROVE Rank(ids, ws, m) = Rank(jds, ws, m)
  <2>1. {k \in ws : k < m /\ ids[k] = ids[m]} = {k \in ws : k < m /\ jds[k] = jds[m]}
    OBVIOUS
  <2> QED
    BY <2>1 DEF Rank
<1> QED
  BY <1>2, <1>3, <1>4 DEF SlotOf

\* What shuffle leaves in an array: each walker's value in the walker's slot.
LEMMA PlacedHolds ==
    ASSUME NEW ws \in SUBSET Walkers, NEW ids, \A k \in ws : ids[k] \in PartitionIds, NEW t,
           \A m \in ws : SlotOf(ids, ws, m) \in Slots(t),
           NEW array \in [Slots(t) -> Vertices], NEW source \in [Walkers -> Vertices]
    PROVE  /\ Placed(array, source, ids, ws) \in [Slots(t) -> Vertices]
           /\ \A m \in ws : Placed(array, source, ids, ws)[SlotOf(ids, ws, m)] = source[m]
<1> DEFINE D == Slots(t)
           V == Vertices
           F == [i \in D |-> IF \E m \in ws : SlotOf(ids, ws, m) = i
                             THEN source[CHOOSE m \in ws : SlotOf(ids, ws, m) = i] ELSE array[i]]
<1>1. Placed(array, source, ids, ws) = F
  BY DEF Placed, SlotOf
<1>2. ASSUME NEW m \in ws PROVE F[SlotOf(ids, ws, m)] = source[m]
  <2> DEFINE c == CHOOSE k \in ws : SlotOf(ids, ws, k) = SlotOf(ids, ws, m)
  <2>1. c \in ws /\ SlotOf(ids, ws, c) = SlotOf(ids, ws, m)
    OBVIOUS
  <2>2. c = m
    BY <2>1, SlotInjective
  <2>3. F[SlotOf(ids, ws, m)] = source[c]
    OBVIOUS
  <2> QED
    BY <2>2, <2>3
<1>3. ASSUME NEW i \in D PROVE F[i] \in V
  <2>1. CASE \E m \in ws : SlotOf(ids, ws, m) = i
    BY <2>1
  <2>2. CASE ~ \E m \in ws : SlotOf(ids, ws, m) = i
    BY <2>2
  <2> QED
    BY <2>1, <2>2
<1>4. F \in [D -> V]
  <2> HIDE DEF SlotOf
  <2> QED
    BY <1>3
<1> HIDE DEF F
<1> QED
  BY <1>1, <1>2, <1>4
-----------------------------------------------------------------------------
(* The ranges of the tasks.                                                *)

\* The threads of the team and the walkers are numbers.
LEMMA TeamIs == Team \subseteq Nat /\ Walkers \subseteq Nat
  BY MaxEpochType, ThreadsAssumption DEF Team, Walkers

\* The ranges of an epoch of a walkers: they are walkers of it, and fit the task's arrays.
LEMMA TaskRange ==
    ASSUME NEW a \in 0 .. MaxEpoch, CutAt(a), NEW t \in Team
    PROVE  /\ \A m : m \in TaskWalkers(t) <=> m \in Walkers /\ ThreadBegin[t] <= m /\ m < ThreadEnd[t] /\ m < a
           /\ TaskWalkers(t) \subseteq Walkers
           /\ Cardinality(TaskWalkers(t)) <= ThreadEnd[t] - ThreadBegin[t]
<1> DEFINE b == ThreadBegin[t]
           e == ThreadEnd[t]
           tb == taskBegin[t]
           te == taskEnd[t]
<1>1. /\ MaxEpoch \in Nat \ {0} /\ a \in Nat /\ a <= MaxEpoch
      /\ b \in Nat /\ e \in Nat /\ e <= MaxEpoch /\ b <= e
  BY MaxEpochType, SolverAssumption
<1>2. tb = Least(b, a) /\ te = Least(e, a)
  BY DEF CutAt
<1>3. tb \in Nat /\ te \in Nat /\ te <= MaxEpoch /\ (tb <= te - 1 => te - tb <= e - b)
  BY <1>1, <1>2 DEF Least
<1>4. ASSUME NEW m PROVE m \in TaskWalkers(t) <=> m \in Walkers /\ b <= m /\ m < e /\ m < a
  <2> HIDE DEF b, e, tb, te
  <2>1. m \in tb .. te - 1 <=> m \in 0 .. MaxEpoch - 1 /\ b <= m /\ m < e /\ m < a
    BY <1>1, <1>2, <1>3 DEF Least
  <2> QED
    BY <2>1 DEF TaskWalkers, Walkers, tb, te
<1>5. Cardinality(tb .. te - 1) <= e - b
  <2> HIDE DEF b, e, tb, te
  <2>1. Cardinality(tb .. te - 1) = IF tb > te - 1 THEN 0 ELSE (te - 1) - tb + 1
    BY <1>3, FS_Interval
  <2> QED
    BY <2>1, <1>1, <1>3
<1> QED
  BY <1>4, <1>5 DEF TaskWalkers

\* Two tasks have different walkers, and every walker of the epoch has a task.
LEMMA TasksTile ==
    ASSUME NEW a \in 0 .. MaxEpoch, CutAt(a)
    PROVE  /\ \A t, u \in Team : \A m \in TaskWalkers(t) : m \in TaskWalkers(u) => t = u
           /\ \A w \in Walkers : w < a <=> \E t \in Team : w \in TaskWalkers(t)
<1>1. \A t \in Team : ThreadBegin[t] \in Nat /\ ThreadEnd[t] \in Nat
  BY MaxEpochType, SolverAssumption
<1>2. ASSUME NEW t \in Team, NEW u \in Team, NEW m \in TaskWalkers(t), m \in TaskWalkers(u), t < u PROVE FALSE
  <2>1. m \in Walkers /\ m < ThreadEnd[t] /\ ThreadBegin[u] <= m
    BY <1>2, TaskRange
  <2>2. ThreadEnd[t] <= ThreadBegin[u]
    BY <1>2, SolverAssumption
  <2> QED
    BY <2>1, <2>2, <1>1, TeamIs
<1>3. \A t, u \in Team : t = u \/ t < u \/ u < t
  BY TeamIs
<1>4. ASSUME NEW w \in Walkers, w < a PROVE \E t \in Team : w \in TaskWalkers(t)
  <2>1. PICK t \in Team : ThreadBegin[t] <= w /\ w < ThreadEnd[t]
    BY SolverAssumption
  <2> QED
    BY <1>4, <2>1, TaskRange
<1>5. ASSUME NEW w \in Walkers, NEW t \in Team, w \in TaskWalkers(t) PROVE w < a
  BY <1>5, TaskRange
<1> QED
  BY <1>2, <1>3, <1>4, <1>5

\* The slot of a task's walker is in the task's arrays.
LEMMA SlotInTask ==
    ASSUME NEW a \in 0 .. MaxEpoch, CutAt(a), NEW t \in Team, NEW m \in TaskWalkers(t),
           NEW ids, \A k \in TaskWalkers(t) : ids[k] \in PartitionIds
    PROVE  SlotOf(ids, TaskWalkers(t), m) \in Slots(t)
<1>1. TaskWalkers(t) \in SUBSET Walkers /\ Cardinality(TaskWalkers(t)) <= ThreadEnd[t] - ThreadBegin[t]
  BY TaskRange
<1>2. /\ SlotOf(ids, TaskWalkers(t), m) \in Nat
      /\ SlotOf(ids, TaskWalkers(t), m) + 1 <= Cardinality(TaskWalkers(t))
  BY <1>1, SlotBound
<1>3. Cardinality(TaskWalkers(t)) \in Nat
  BY <1>1, WalkersFinite
<1>4. ThreadBegin[t] \in Nat /\ ThreadEnd[t] \in Nat
  BY MaxEpochType, SolverAssumption
<1> QED
  BY <1>1, <1>2, <1>3, <1>4 DEF Slots

\* Cutting the ranges of b walkers at the a of a shorter epoch gives the ranges of a walkers.
LEMMA CutAgain ==
    ASSUME SolverTypeOK, NEW b \in 0 .. MaxEpoch, CutAt(b), active <= b, NEW t \in Team
    PROVE  /\ (IF Cut(t) THEN Least(taskBegin[t], active) ELSE taskBegin[t]) = Least(ThreadBegin[t], active)
           /\ (IF Cut(t) THEN active ELSE taskEnd[t]) = Least(ThreadEnd[t], active)
<1>1. active \in Nat /\ b \in Nat
  BY MaxEpochType DEF SolverTypeOK
<1>2. \A u \in Team : /\ ThreadBegin[u] \in Nat /\ ThreadEnd[u] \in Nat /\ ThreadBegin[u] <= ThreadEnd[u]
                      /\ taskBegin[u] = Least(ThreadBegin[u], b) /\ taskEnd[u] = Least(ThreadEnd[u], b)
  BY MaxEpochType, SolverAssumption DEF CutAt
<1>3. Cut(t) <=> taskEnd[t] > active
  <2>1. ASSUME Cut(t) PROVE taskEnd[t] > active
    BY <2>1, TeamIs DEF Cut, TeamOf
  <2>2. ASSUME taskEnd[t] > active, NEW u \in Team, u >= t PROVE taskEnd[u] > active
    <3>1. CASE u = t
      BY <2>2, <3>1
    <3>2. CASE t < u
      <4>1. ThreadEnd[t] <= ThreadBegin[u]
        BY <3>2, SolverAssumption
      <4>2. ThreadEnd[t] <= ThreadEnd[u]
        BY <4>1, <1>2
      <4> QED
        BY <2>2, <4>2, <1>1, <1>2 DEF Least
    <3> QED
      BY <2>2, <3>1, <3>2, TeamIs
  <2> QED
    BY <2>1, <2>2 DEF Cut, TeamOf
<1>4. CASE taskEnd[t] > active
  BY <1>1, <1>2, <1>3, <1>4 DEF Least
<1>5. CASE ~(taskEnd[t] > active)
  BY <1>1, <1>2, <1>3, <1>5 DEF Least
<1> QED
  BY <1>4, <1>5
-----------------------------------------------------------------------------
(* The serial steps of the solver.                                         *)

\* Nothing has walked, and the ranges are those of a full epoch.
LEMMA SolverInitInv == SolverInit => SolverIInv
<1> SUFFICES ASSUME SolverInit PROVE SolverIInv
  OBVIOUS
<1>1. ClaimIInv
  BY ClaimInitInv, ClaimTypeFollows DEF SolverInit, ClaimIInv
<1>2. /\ MaxEpoch \in Nat \ {0} /\ WalkerNum \in Nat \ {0} /\ WalkLen \in Nat \ {0}
      /\ 0 \in Vertices /\ 0 \in PartitionIds
      /\ ThreadBegin \in [Team -> 0 .. MaxEpoch] /\ ThreadEnd \in [Team -> 0 .. MaxEpoch]
  BY MaxEpochType, EpochsAssumption, SolverAssumption
<1>3. SolverTypeOK
  <2>1. /\ phase \in Phases /\ rest \in 0 .. WalkerNum /\ terminated \in 0 .. WalkerNum
        /\ active \in 0 .. MaxEpoch /\ step \in 0 .. WalkLen /\ done \in SUBSET Team
        /\ taskBegin \in [Team -> 0 .. MaxEpoch] /\ taskEnd \in [Team -> 0 .. MaxEpoch]
    BY <1>2 DEF SolverInit, Phases
  <2>2. /\ walks \in [0 .. WalkLen - 1 -> [Walkers -> Vertices]]
        /\ pids \in [Walkers -> PartitionIds]
        /\ blockBegin \in [Team -> [PartitionIds -> 0 .. MaxEpoch]]
        /\ blockEnd \in [Team -> [PartitionIds -> 0 .. MaxEpoch]]
    BY <1>2 DEF SolverInit
  <2>3. /\ DOMAIN msgs = Team /\ DOMAIN states = Team /\ DOMAIN cond = Team
        /\ \A t \in Team : /\ msgs[t] \in [Slots(t) -> Vertices]
                           /\ states[t] \in [Slots(t) -> Vertices]
                           /\ cond[t] \in [Slots(t) -> Vertices \cup {Static}]
    BY <1>2 DEF SolverInit
  <2> QED
    BY <1>1, <2>1, <2>2, <2>3 DEF SolverTypeOK, ClaimIInv
<1>4. WalkersCounted
  BY <1>2 DEF SolverInit, WalkersCounted
<1>5. StepInWalk
  BY DEF SolverInit, ClaimInit, StepInWalk, InStep
<1>6. TasksCut
  <2>1. CutAt(MaxEpoch)
    BY <1>2 DEF SolverInit, CutAt, Least
  <2>2. MaxEpoch \in 0 .. MaxEpoch /\ Least(MaxEpoch, rest) <= MaxEpoch
    BY <1>2 DEF SolverInit, Least
  <2> QED
    BY <2>1, <2>2 DEF TasksCut, InStep, SolverInit
<1>7. \A t \in Team : ~Shuffled(t)
  BY DEF SolverInit, Shuffled
<1> QED
  BY <1>1, <1>3, <1>4, <1>5, <1>6, <1>7 DEF SolverIInv, BlocksSorted, MessagesFollow, StatesFollow

\* The epoch takes its walkers.
LEMMA BeginEpochInv == SolverIInv /\ BeginEpoch => SolverIInv'
<1> SUFFICES ASSUME SolverIInv, BeginEpoch PROVE SolverIInv'
  OBVIOUS
<1>1. ClaimIInv'
  BY ClaimKept, ClaimStays DEF ClaimIInv, SolverIInv, BeginEpoch
<1>2. MaxEpoch \in Nat \ {0} /\ WalkerNum \in Nat \ {0} /\ WalkLen \in Nat \ {0}
  BY MaxEpochType, EpochsAssumption
<1>3. /\ SolverTypeOK /\ WalkersCounted /\ StepInWalk /\ TasksCut
      /\ rest # 0 /\ phase = "idle" /\ phase' = (IF WalkLen > 1 THEN "step" ELSE "paths")
      /\ active' = Least(MaxEpoch, rest) /\ step' = 1
      /\ UNCHANGED <<rest, terminated, done, taskVars, claimVars>>
  BY DEF SolverIInv, BeginEpoch, Enter
<1>4. SolverTypeOK'
  <2>1. phase' \in Phases /\ active' \in 0 .. MaxEpoch /\ step' \in 0 .. WalkLen
    BY <1>2, <1>3 DEF SolverTypeOK, Phases, Least
  <2>2. walks' \in [0 .. WalkLen - 1 -> [Walkers -> Vertices]]
    <3>1. PICK start \in [0 .. active' - 1 -> Vertices] :
              walks' = [walks EXCEPT ![0] = [w \in Walkers |-> IF w < active' THEN start[w] ELSE @[w]]]
      BY DEF BeginEpoch
    <3>2. walks \in [0 .. WalkLen - 1 -> [Walkers -> Vertices]] /\ 0 \in 0 .. WalkLen - 1 /\ active' \in Nat
      BY <1>2, <1>3, <2>1 DEF SolverTypeOK
    <3>3. ASSUME NEW n \in Nat, start \in [0 .. n - 1 -> Vertices]
          PROVE  [w \in Walkers |-> IF w < n THEN start[w] ELSE walks[0][w]] \in [Walkers -> Vertices]
      <4>1. walks[0] \in [Walkers -> Vertices]
        BY <3>2
      <4>2. ASSUME NEW w \in Walkers, w < n PROVE w \in 0 .. n - 1
        BY <4>2, TeamIs
      <4> QED
        BY <3>3, <4>1, <4>2
    <3> QED
      BY <3>1, <3>2, <3>3
  <2> QED
    BY <1>1, <1>3, <2>1, <2>2 DEF SolverTypeOK, taskVars, ClaimIInv
<1>5. WalkersCounted'
  BY <1>3 DEF WalkersCounted
<1>6. StepInWalk'
  BY <1>2, <1>3 DEF StepInWalk, InStep, claimVars
<1>7. TasksCut'
  <2>1. PICK a \in 0 .. MaxEpoch : CutAt(a) /\ Least(MaxEpoch, rest) <= a
    BY <1>3 DEF TasksCut
  <2>2. CutAt(a)' /\ ~InStep' /\ (Least(MaxEpoch, rest) <= a)'
    BY <1>3, <2>1 DEF CutAt, InStep, taskVars
  <2> QED
    BY <2>2 DEF TasksCut
<1>8. \A t \in Team : ~Shuffled(t)'
  BY <1>3 DEF Shuffled
<1> QED
  BY <1>1, <1>4, <1>5, <1>6, <1>7, <1>8 DEF SolverIInv, BlocksSorted, MessagesFollow, StatesFollow

\* The ranges are cut to the walkers of the epoch before they are sorted.
LEMMA BeginShuffleInv == SolverIInv /\ BeginShuffle => SolverIInv'
<1> SUFFICES ASSUME SolverIInv, BeginShuffle PROVE SolverIInv'
  OBVIOUS
<1>1. ClaimIInv'
  BY ClaimKept, ClaimStays DEF ClaimIInv, SolverIInv, BeginShuffle
<1>2. /\ SolverTypeOK /\ WalkersCounted /\ StepInWalk /\ TasksCut
      /\ phase = "step" /\ phase' = "shuffle"
      /\ UNCHANGED <<rest, terminated, active, step, walks, done>>
      /\ UNCHANGED <<pids, blockBegin, blockEnd, msgs, states, cond, claimVars>>
  BY DEF SolverIInv, BeginShuffle, Enter
<1>3. active = Least(MaxEpoch, rest) /\ active \in 0 .. MaxEpoch /\ done = {}
  BY <1>2 DEF WalkersCounted, StepInWalk, SolverTypeOK
<1>4. CutAt(active)'
  <2>1. PICK a \in 0 .. MaxEpoch : CutAt(a) /\ active <= a
    BY <1>2, <1>3 DEF TasksCut
  <2>2. ASSUME NEW t \in Team
        PROVE taskBegin'[t] = Least(ThreadBegin[t], active) /\ taskEnd'[t] = Least(ThreadEnd[t], active)
    <3>1. /\ taskBegin'[t] = IF Cut(t) THEN Least(taskBegin[t], active) ELSE taskBegin[t]
          /\ taskEnd'[t] = IF Cut(t) THEN active ELSE taskEnd[t]
      BY DEF BeginShuffle
    <3>2. /\ (IF Cut(t) THEN Least(taskBegin[t], active) ELSE taskBegin[t]) = Least(ThreadBegin[t], active)
          /\ (IF Cut(t) THEN active ELSE taskEnd[t]) = Least(ThreadEnd[t], active)
      BY <1>2, <2>1, CutAgain
    <3> QED
      BY <3>1, <3>2
  <2> QED
    BY <1>2, <2>2 DEF CutAt
<1>5. SolverTypeOK'
  <2>1. taskBegin' \in [Team -> 0 .. MaxEpoch] /\ taskEnd' \in [Team -> 0 .. MaxEpoch]
    <3>1. \A t \in Team : taskBegin'[t] \in 0 .. MaxEpoch /\ taskEnd'[t] \in 0 .. MaxEpoch
      BY <1>2, <1>3, <1>4, SolverAssumption, MaxEpochType DEF CutAt, Least
    <3>2. taskBegin' = [t \in Team |-> taskBegin'[t]] /\ taskEnd' = [t \in Team |-> taskEnd'[t]]
      BY DEF BeginShuffle
    <3> QED
      BY <3>1, <3>2
  <2> QED
    BY <1>1, <1>2, <2>1 DEF SolverTypeOK, Phases, ClaimIInv
<1>6. WalkersCounted' /\ StepInWalk'
  BY <1>2 DEF WalkersCounted, StepInWalk, InStep, claimVars
<1>7. TasksCut'
  BY <1>2, <1>3, <1>4, MaxEpochType DEF TasksCut, Least
<1>8. \A t \in Team : ~Shuffled(t)'
  BY <1>2, <1>3 DEF Shuffled
<1> QED
  BY <1>1, <1>5, <1>6, <1>7, <1>8 DEF SolverIInv, BlocksSorted, MessagesFollow, StatesFollow

\* The positions of the step are all in walks, and the arrays are free again.
LEMMA EndStepInv == SolverIInv /\ EndStep => SolverIInv'
<1> SUFFICES ASSUME SolverIInv, EndStep PROVE SolverIInv'
  OBVIOUS
<1>1. ClaimIInv'
  BY ClaimKept, ClaimStays DEF ClaimIInv, SolverIInv, EndStep
<1>2. /\ SolverTypeOK /\ WalkersCounted /\ StepInWalk /\ TasksCut
      /\ phase = "update" /\ phase' = (IF step + 1 < WalkLen THEN "step" ELSE "paths")
      /\ step' = step + 1 /\ done' = {}
      /\ UNCHANGED <<rest, terminated, active, walks, taskVars, claimVars>>
  BY DEF SolverIInv, EndStep, Enter
<1>3. WalkLen \in Nat \ {0} /\ step \in 1 .. WalkLen - 1
  BY <1>2, EpochsAssumption DEF StepInWalk, InStep
<1>4. SolverTypeOK'
  <2>1. phase' \in Phases /\ step' \in 0 .. WalkLen /\ done' \in SUBSET Team
    BY <1>2, <1>3 DEF Phases
  <2> QED
    BY <1>1, <1>2, <2>1 DEF SolverTypeOK, taskVars, ClaimIInv
<1>5. WalkersCounted'
  BY <1>2 DEF WalkersCounted
<1>6. StepInWalk'
  BY <1>2, <1>3 DEF StepInWalk, InStep, claimVars
<1>7. TasksCut'
  <2>1. PICK a \in 0 .. MaxEpoch : CutAt(a) /\ Least(MaxEpoch, rest) <= a
    BY <1>2 DEF TasksCut
  <2>2. CutAt(a)' /\ ~InStep' /\ (Least(MaxEpoch, rest) <= a)'
    BY <1>2, <2>1 DEF CutAt, InStep, taskVars
  <2> QED
    BY <2>2 DEF TasksCut
<1>8. \A t \in Team : ~Shuffled(t)'
  BY <1>2 DEF Shuffled
<1> QED
  BY <1>1, <1>4, <1>5, <1>6, <1>7, <1>8 DEF SolverIInv, BlocksSorted, MessagesFollow, StatesFollow

\* The next epoch is no larger, so the ranges as they are cut still cover it.
LEMMA DeliverInv == SolverIInv /\ Deliver => SolverIInv'
<1> SUFFICES ASSUME SolverIInv, Deliver PROVE SolverIInv'
  OBVIOUS
<1>1. ClaimIInv'
  BY ClaimKept, ClaimStays DEF ClaimIInv, SolverIInv, Deliver
<1>2. /\ SolverTypeOK /\ WalkersCounted /\ StepInWalk /\ TasksCut
      /\ phase = "paths" /\ phase' = "idle"
      /\ terminated' = terminated + active /\ rest' = rest - active
      /\ UNCHANGED <<active, step, walks, done, taskVars, claimVars>>
  BY DEF SolverIInv, Deliver, Enter
<1>3. /\ active = Least(MaxEpoch, rest) /\ rest \in Nat /\ terminated \in Nat
      /\ rest + terminated = WalkerNum /\ MaxEpoch \in Nat /\ WalkerNum \in Nat
  BY <1>2, MaxEpochType, EpochsAssumption DEF WalkersCounted, SolverTypeOK
<1>4. /\ rest' \in 0 .. WalkerNum /\ terminated' \in 0 .. WalkerNum
      /\ rest' + terminated' = WalkerNum /\ Least(MaxEpoch, rest') <= Least(MaxEpoch, rest)
  BY <1>2, <1>3 DEF Least
<1>5. SolverTypeOK'
  BY <1>1, <1>2, <1>4 DEF SolverTypeOK, Phases, taskVars, ClaimIInv
<1>6. WalkersCounted'
  BY <1>2, <1>4 DEF WalkersCounted
<1>7. StepInWalk'
  BY <1>2 DEF StepInWalk, InStep, claimVars
<1>8. TasksCut'
  <2>1. PICK a \in 0 .. MaxEpoch : CutAt(a) /\ Least(MaxEpoch, rest) <= a
    BY <1>2 DEF TasksCut
  <2>2. Least(MaxEpoch, rest') <= a
    BY <1>3, <1>4, <2>1 DEF Least
  <2>3. CutAt(a)' /\ ~InStep' /\ (Least(MaxEpoch, rest) <= a)'
    BY <1>2, <2>1, <2>2 DEF CutAt, InStep, taskVars
  <2> QED
    BY <2>3 DEF TasksCut
<1>9. \A t \in Team : ~Shuffled(t)'
  BY <1>2 DEF Shuffled
<1> QED
  BY <1>1, <1>5, <1>6, <1>7, <1>8, <1>9 DEF SolverIInv, BlocksSorted, MessagesFollow, StatesFollow
-----------------------------------------------------------------------------
(* The region that walks.                                                  *)

\* Every partition has one place on the sockets' lists.
LEMMA PartitionPlace ==
    /\ \A p \in PartitionIds : \E s \in Sockets : \E i \in Partitions(s) : SocketPartitions[s][i + 1] = p
    /\ \A s, u \in Sockets : \A i \in Partitions(s), j \in Partitions(u) :
          /\ SocketPartitions[s][i + 1] \in PartitionIds
          /\ SocketPartitions[s][i + 1] = SocketPartitions[u][j + 1] => s = u /\ i = j
<1>1. \A s \in Sockets : PartitionNum[s] \in Nat
  BY PartitionNumNat
<1>2. ASSUME NEW p \in PartitionIds
      PROVE  \E s \in Sockets : \E i \in Partitions(s) : SocketPartitions[s][i + 1] = p
  <2>0. PICK s \in Sockets : \E k \in 1 .. PartitionNum[s] : SocketPartitions[s][k] = p
    BY SolverAssumption
  <2>1. PICK k \in 1 .. PartitionNum[s] : SocketPartitions[s][k] = p
    BY <2>0
  <2>2. k - 1 \in Partitions(s) /\ (k - 1) + 1 = k
    BY <1>1, <2>1 DEF Partitions
  <2> QED
    BY <2>1, <2>2
<1>3. ASSUME NEW s \in Sockets, NEW u \in Sockets, NEW i \in Partitions(s), NEW j \in Partitions(u)
      PROVE  /\ SocketPartitions[s][i + 1] \in PartitionIds
             /\ SocketPartitions[s][i + 1] = SocketPartitions[u][j + 1] => s = u /\ i = j
  <2>1. i \in Nat /\ j \in Nat /\ i + 1 \in 1 .. PartitionNum[s] /\ j + 1 \in 1 .. PartitionNum[u]
    BY <1>1 DEF Partitions
  <2>2. /\ SocketPartitions[s][i + 1] \in PartitionIds
        /\ SocketPartitions[s][i + 1] = SocketPartitions[u][j + 1] => s = u /\ i + 1 = j + 1
    BY <2>1, SolverAssumption
  <2> QED
    BY <2>1, <2>2
<1> QED
  BY <1>2, <1>3

\* A thread that is in the loop is in the region.
LEMMA InRegion ==
    ASSUME StepInWalk, NEW t \in Team, pc[t] # "serial" PROVE phase = "walk"
  BY DEF StepInWalk

\* While a step runs the tasks have the walkers of the epoch, and their slots are in the arrays.
LEMMA TasksInStep ==
    ASSUME SolverIInv, InStep, NEW t \in Team
    PROVE  /\ active \in 0 .. MaxEpoch /\ CutAt(active)
           /\ TaskWalkers(t) \in SUBSET Walkers
           /\ \A k \in TaskWalkers(t) : pids[k] \in PartitionIds
           /\ \A m \in TaskWalkers(t) : Slot(t, m) \in Slots(t)
<1>1. active \in 0 .. MaxEpoch /\ CutAt(active) /\ pids \in [Walkers -> PartitionIds]
  BY DEF SolverIInv, TasksCut, SolverTypeOK
<1>2. TaskWalkers(t) \in SUBSET Walkers
  BY <1>1, TaskRange
<1>3. \A k \in TaskWalkers(t) : pids[k] \in PartitionIds
  BY <1>1, <1>2
<1>4. \A m \in TaskWalkers(t) : Slot(t, m) \in Slots(t)
  BY <1>1, <1>3, SlotInTask DEF Slot
<1> QED
  BY <1>1, <1>2, <1>3, <1>4

\* A step that leaves the tasks' data and the epoch alone keeps the cut.
LEMMA CutKept ==
    ASSUME TasksCut, UNCHANGED <<rest, active, taskBegin, taskEnd>>, InStep \/ ~InStep'
    PROVE  TasksCut'
<1>1. PICK a \in 0 .. MaxEpoch : CutAt(a) /\ Least(MaxEpoch, rest) <= a /\ (InStep => a = active)
  BY DEF TasksCut
<1>2. CutAt(a)' /\ (Least(MaxEpoch, rest) <= a)' /\ (InStep => a = active)'
  BY <1>1 DEF CutAt
<1> QED
  BY <1>2 DEF TasksCut

\* The threads start on the sorted messages; no partition has been walked.
LEMMA BeginWalkInv == SolverIInv /\ BeginWalk => SolverIInv'
<1> SUFFICES ASSUME SolverIInv, BeginWalk PROVE SolverIInv'
  OBVIOUS
<1>1. ClaimIInv'
  BY ForkInv, ClaimStays DEF ClaimIInv, SolverIInv, BeginWalk
<1>2. /\ SolverTypeOK /\ WalkersCounted /\ StepInWalk /\ TasksCut
      /\ phase = "shuffle" /\ phase' = "walk" /\ done = Team /\ done' = {}
      /\ UNCHANGED <<rest, terminated, active, step, walks>>
      /\ UNCHANGED <<taskBegin, taskEnd, pids, blockBegin, blockEnd, msgs, states, cond>>
  BY DEF SolverIInv, BeginWalk, Enter, taskVars
<1>3. SolverTypeOK'
  BY <1>1, <1>2 DEF SolverTypeOK, Phases, ClaimIInv
<1>4. WalkersCounted' /\ StepInWalk'
  BY <1>2 DEF WalkersCounted, StepInWalk, InStep
<1>5. TasksCut'
  BY <1>2, CutKept DEF InStep
<1>6. \A t \in Team : Shuffled(t)
  BY <1>2 DEF Shuffled
<1>7. BlocksSorted'
  BY <1>2, <1>6 DEF SolverIInv, BlocksSorted, TaskWalkers
<1>8. ASSUME NEW p PROVE ~Moved(p) /\ ~Moved(p)'
  <2>1. \A s \in Sockets : \A i \in Partitions(s) : walked'[<<s, i>>] = 0
    BY AllPartitionsIs DEF BeginWalk, Fork
  <2> QED
    BY <1>2, <2>1 DEF Moved
<1>9. ASSUME NEW t \in Team, NEW m \in TaskWalkers(t)
      PROVE  /\ msgs[t][Slot(t, m)] = walks[step - 1][m]
             /\ Node2vec /\ step > 1 => states[t][Slot(t, m)] = walks[step - 2][m]
  BY <1>6, <1>8 DEF SolverIInv, MessagesFollow, StatesFollow
<1>10. ASSUME NEW p PROVE phase' = "walk" /\ ~(\E s \in Sockets : \E i \in Partitions(s) :
                                      SocketPartitions[s][i + 1] = p /\ walked'[<<s, i>>] # 0)
  BY <1>2, <1>8 DEF Moved
<1>11. MessagesFollow'
  <2>1. ASSUME NEW t \in Team, NEW m \in TaskWalkers(t)
        PROVE  msgs'[t][SlotOf(pids', TaskWalkers(t), m)] = walks'[step' - 1][m]
    BY <1>2, <1>9 DEF Slot
  <2>2. ASSUME NEW t \in Team, NEW m \in TaskWalkers(t)'
        PROVE  ~Moved(pids[m])' /\ (msgs[t][Slot(t, m)] = walks[step - 1][m])'
    BY <1>2, <1>10, <2>1 DEF Slot, TaskWalkers, Moved
  <2> QED
    BY <2>2 DEF MessagesFollow
<1>12. StatesFollow'
  <2>1. ASSUME NEW t \in Team, NEW m \in TaskWalkers(t), Node2vec /\ step' > 1
        PROVE  states'[t][SlotOf(pids', TaskWalkers(t), m)] = walks'[step' - 2][m]
    BY <1>2, <1>9, <2>1 DEF Slot
  <2>2. ASSUME NEW t \in Team, NEW m \in TaskWalkers(t)', (Node2vec /\ step > 1)'
        PROVE  ~Moved(pids[m])' /\ (states[t][Slot(t, m)] = walks[step - 2][m])'
    BY <1>2, <1>10, <2>1, <2>2 DEF Slot, TaskWalkers, Moved
  <2> QED
    BY <2>2 DEF StatesFollow
<1> QED
  BY <1>1, <1>3, <1>4, <1>5, <1>7, <1>11, <1>12 DEF SolverIInv

\* A step in the loop does not touch the messages.
LEMMA ClaimPartitionInv == ASSUME SolverIInv, NEW t \in Team, ClaimPartition(t) PROVE SolverIInv'
<1>1. ClaimIInv'
  BY ClaimActionInv, ClaimStays DEF ClaimIInv, SolverIInv, ClaimPartition
<1>2. /\ SolverTypeOK /\ WalkersCounted /\ StepInWalk /\ TasksCut /\ BlocksSorted /\ MessagesFollow /\ StatesFollow
      /\ UNCHANGED <<phase, rest, terminated, active, step, walks, done>>
      /\ UNCHANGED <<taskBegin, taskEnd, pids, blockBegin, blockEnd, msgs, states, cond>>
  BY DEF SolverIInv, ClaimPartition, epochVars, taskVars
<1>3. walked' = walked /\ pc[t] # "serial"
  BY DEF ClaimPartition, Claim, DrawTicket, LeaveLoop, TakeHighEnd, TakeLowEnd, Goto
<1>4. phase = "walk"
  BY <1>2, <1>3, InRegion
<1>5. SolverTypeOK'
  BY <1>1, <1>2 DEF SolverTypeOK, ClaimIInv
<1>6. WalkersCounted' /\ StepInWalk'
  BY <1>2, <1>4 DEF WalkersCounted, StepInWalk, InStep
<1>7. TasksCut'
  BY <1>2, <1>4, CutKept DEF InStep
<1>8. BlocksSorted'
  BY <1>2 DEF BlocksSorted, Shuffled, TaskWalkers
<1>9. MessagesFollow'
  BY <1>2, <1>3 DEF MessagesFollow, Shuffled, Moved, Slot, TaskWalkers
<1>10. StatesFollow'
  BY <1>2, <1>3 DEF StatesFollow, Shuffled, Moved, Slot, TaskWalkers
<1> QED
  BY <1>1, <1>5, <1>6, <1>7, <1>8, <1>9, <1>10 DEF SolverIInv

\* After the barrier every partition has been walked, so every message has moved.
LEMMA EndWalkInv == SolverIInv /\ EndWalk => SolverIInv'
<1> SUFFICES ASSUME SolverIInv, EndWalk PROVE SolverIInv'
  OBVIOUS
<1>1. ClaimIInv'
  BY JoinInv, ClaimStays DEF ClaimIInv, SolverIInv, EndWalk
<1>2. /\ SolverTypeOK /\ WalkersCounted /\ StepInWalk /\ TasksCut /\ BlocksSorted /\ MessagesFollow /\ StatesFollow
      /\ phase = "walk" /\ phase' = "update" /\ done = {}
      /\ UNCHANGED <<rest, terminated, active, step, walks, done>>
      /\ UNCHANGED <<taskBegin, taskEnd, pids, blockBegin, blockEnd, msgs, states, cond>>
  BY DEF SolverIInv, EndWalk, Enter, taskVars, StepInWalk
<1>3. SolverTypeOK'
  BY <1>1, <1>2 DEF SolverTypeOK, Phases, ClaimIInv
<1>4. WalkersCounted'
  BY <1>2 DEF WalkersCounted
<1>5. StepInWalk'
  BY <1>2 DEF StepInWalk, InStep, EndWalk, Join
<1>6. TasksCut'
  BY <1>2, CutKept DEF InStep
<1>7. \A t \in Team : Shuffled(t)
  BY <1>2 DEF Shuffled
<1>8. BlocksSorted'
  BY <1>2, <1>7 DEF BlocksSorted, TaskWalkers
<1>9. ASSUME NEW p \in PartitionIds PROVE Moved(p)
  <2>0. PICK s \in Sockets : \E i \in Partitions(s) : SocketPartitions[s][i + 1] = p
    BY PartitionPlace
  <2>1. PICK i \in Partitions(s) : SocketPartitions[s][i + 1] = p
    BY <2>0
  <2>2. walked[<<s, i>>] = 1
    BY AllWalkedAtJoin, AllPartitionsIs DEF SolverIInv, ClaimIInv, EachPartitionWalkedOnce, EndWalk, Join
  <2> QED
    BY <1>2, <2>1, <2>2 DEF Moved
<1>10. ASSUME NEW t \in Team, NEW m \in TaskWalkers(t)
       PROVE  /\ msgs[t][Slot(t, m)] \in Neighbors[walks[step - 1][m]]
              /\ Node2vec /\ step > 1 => /\ states[t][Slot(t, m)] = walks[step - 2][m]
                                         /\ cond[t][Slot(t, m)] = walks[step - 2][m]
  <2>1. pids[m] \in PartitionIds
    BY <1>2, TasksInStep DEF InStep
  <2> QED
    BY <1>2, <1>7, <1>9, <2>1 DEF MessagesFollow, StatesFollow
<1>11. MessagesFollow' /\ StatesFollow'
  BY <1>2, <1>10 DEF MessagesFollow, StatesFollow, Slot, TaskWalkers, Moved
<1> QED
  BY <1>1, <1>3, <1>4, <1>5, <1>6, <1>8, <1>11 DEF SolverIInv

\* The messages of a partition are those in its block of each task.
LEMMA BlockIs ==
    ASSUME NEW p, NEW u \in Team, NEW i
    PROVE  <<u, i>> \in Block(p) <=> i \in Slots(u) /\ blockBegin[u][p] <= i /\ i < blockEnd[u][p]
  BY DEF Block

\* The slot of a walker is in the block of its partition and in no other.
LEMMA WalkerInBlock ==
    ASSUME SolverIInv, InStep, NEW u \in Team, Shuffled(u), NEW m \in TaskWalkers(u), NEW p \in PartitionIds
    PROVE  <<u, Slot(u, m)>> \in Block(p) <=> pids[m] = p
<1>1. /\ TaskWalkers(u) \in SUBSET Walkers /\ \A k \in TaskWalkers(u) : pids[k] \in PartitionIds
      /\ Slot(u, m) \in Slots(u)
  BY TasksInStep
<1>2. blockBegin[u] = BlockStart(pids, TaskWalkers(u)) /\ blockEnd[u] = BlockStop(pids, TaskWalkers(u))
  BY DEF SolverIInv, BlocksSorted
<1>3. BlockStart(pids, TaskWalkers(u))[p] <= Slot(u, m) /\ Slot(u, m) < BlockStop(pids, TaskWalkers(u))[p]
      <=> pids[m] = p
  BY <1>1, SlotInBlock DEF Slot
<1> QED
  BY <1>1, <1>2, <1>3, BlockIs

\* A thread moves the messages of a partition that nobody has walked in this step.
LEMMA WalkPartitionInv == ASSUME SolverIInv, NEW t \in Team, WalkPartition(t) PROVE SolverIInv'
<1> DEFINE s == SocketId(t)
           i == part[t]
           p == SocketPartitions[s][i + 1]
           MovedNow(q) == \E r \in Sockets : \E j \in Partitions(r) :
                             SocketPartitions[r][j + 1] = q /\ walked'[<<r, j>>] # 0
<1>1. ClaimIInv'
  BY FinishPartitionInv, ClaimStays DEF ClaimIInv, SolverIInv, WalkPartition
<1>2. /\ SolverTypeOK /\ ClaimIInv /\ WalkersCounted /\ StepInWalk /\ TasksCut
      /\ BlocksSorted /\ MessagesFollow /\ StatesFollow
      /\ UNCHANGED <<phase, rest, terminated, active, step, walks, done>>
      /\ UNCHANGED <<taskBegin, taskEnd, pids, blockBegin, blockEnd, states>>
  BY DEF SolverIInv, WalkPartition, epochVars
<1>3. pc[t] = "walk" /\ phase = "walk"
  BY <1>2, InRegion DEF WalkPartition, FinishPartition, Goto
<1>4. s \in Sockets /\ i \in Partitions(s) /\ p \in PartitionIds
  BY <1>2, <1>3, SocketIdType, PartitionPlace DEF ClaimIInv, ClaimCounts, HeldIsTaken
<1>5. walked[<<s, i>>] = 0
  BY <1>2, <1>3, <1>4 DEF ClaimIInv, ClaimCounts, WalkedIsTakenAndReleased, Held
<1>6. ASSUME NEW r \in Sockets, NEW j \in Partitions(r)
      PROVE  walked'[<<r, j>>] = IF r = s /\ j = i THEN 1 ELSE walked[<<r, j>>]
  <2>1. walked \in [AllPartitions -> Nat] /\ <<r, j>> \in AllPartitions
    BY <1>2, AllPartitionsIs DEF SolverTypeOK, ClaimTypeOK
  <2>2. walked' = [walked EXCEPT ![<<s, i>>] = @ + 1]
    BY DEF WalkPartition, FinishPartition
  <2> HIDE DEF s, i
  <2> QED
    BY <2>1, <2>2, <1>5
<1> HIDE DEF s, i
<1>7. ~Moved(p)
  <2> SUFFICES ASSUME Moved(p) PROVE FALSE
    OBVIOUS
  <2>1. PICK r \in Sockets : \E j \in Partitions(r) : SocketPartitions[r][j + 1] = p /\ walked[<<r, j>>] # 0
    BY <1>3 DEF Moved
  <2>2. PICK j \in Partitions(r) : SocketPartitions[r][j + 1] = p /\ walked[<<r, j>>] # 0
    BY <2>1
  <2>3. r = s /\ j = i
    BY <1>4, <2>2, PartitionPlace
  <2> QED
    BY <1>5, <2>2, <2>3
<1>8. ASSUME NEW q PROVE MovedNow(q) <=> Moved(q) \/ q = p
  <2>1. ASSUME MovedNow(q), q # p PROVE Moved(q)
    BY <1>3, <1>6, <2>1 DEF Moved
  <2>2. ASSUME Moved(q) PROVE MovedNow(q)
    BY <1>3, <1>6, <2>2 DEF Moved
  <2>3. MovedNow(p)
    BY <1>4, <1>6
  <2> QED
    BY <2>1, <2>2, <2>3
<1>9. PICK to \in [Block(p) -> Vertices] :
        /\ \A b \in Block(p) : to[b] \in Neighbors[msgs[b[1]][b[2]]]
        /\ msgs' = [u \in Team |-> [k \in Slots(u) |->
                       IF <<u, k>> \in Block(p) THEN to[<<u, k>>] ELSE msgs[u][k]]]
  BY DEF WalkPartition, s, i
<1>10. cond' = [u \in Team |-> [k \in Slots(u) |->
                   IF Node2vec /\ <<u, k>> \in Block(p) THEN states[u][k] ELSE cond[u][k]]]
  BY DEF WalkPartition, s, i
<1> HIDE DEF p
<1>11. SolverTypeOK'
  <2>1. \A u \in Team : /\ msgs[u] \in [Slots(u) -> Vertices]
                        /\ states[u] \in [Slots(u) -> Vertices]
                        /\ cond[u] \in [Slots(u) -> Vertices \cup {Static}]
    BY <1>2 DEF SolverTypeOK
  <2>2. DOMAIN msgs' = Team /\ \A u \in Team : msgs'[u] \in [Slots(u) -> Vertices]
    BY <1>9, <2>1
  <2>3. DOMAIN cond' = Team /\ \A u \in Team : cond'[u] \in [Slots(u) -> Vertices \cup {Static}]
    BY <1>10, <2>1
  <2> QED
    BY <1>1, <1>2, <2>2, <2>3 DEF SolverTypeOK, ClaimIInv
<1>12. WalkersCounted' /\ StepInWalk'
  BY <1>2, <1>3 DEF WalkersCounted, StepInWalk, InStep
<1>13. TasksCut'
  BY <1>2, <1>3, CutKept DEF InStep
<1>14. BlocksSorted'
  BY <1>2 DEF BlocksSorted, Shuffled, TaskWalkers
<1>15. ASSUME NEW u \in Team, NEW m \in TaskWalkers(u)
       PROVE  /\ MovedNow(pids[m]) => msgs'[u][Slot(u, m)] \in Neighbors[walks[step - 1][m]]
              /\ ~MovedNow(pids[m]) => msgs'[u][Slot(u, m)] = walks[step - 1][m]
              /\ Node2vec /\ step > 1 => /\ states[u][Slot(u, m)] = walks[step - 2][m]
                                         /\ MovedNow(pids[m]) => cond'[u][Slot(u, m)] = walks[step - 2][m]
  <2> DEFINE k == Slot(u, m)
  <2>1. InStep /\ Shuffled(u)
    BY <1>3 DEF InStep, Shuffled
  <2>2. /\ Moved(pids[m]) => msgs[u][k] \in Neighbors[walks[step - 1][m]]
        /\ ~Moved(pids[m]) => msgs[u][k] = walks[step - 1][m]
        /\ Node2vec /\ step > 1 => /\ states[u][k] = walks[step - 2][m]
                                   /\ Moved(pids[m]) => cond[u][k] = walks[step - 2][m]
    BY <1>2, <2>1 DEF MessagesFollow, StatesFollow
  <2>3. k \in Slots(u) /\ (<<u, k>> \in Block(p) <=> pids[m] = p)
    BY <1>4, <2>1, TasksInStep, WalkerInBlock
  <2>4. MovedNow(pids[m]) <=> Moved(pids[m]) \/ pids[m] = p
    BY <1>8
  <2>5. msgs'[u][k] = IF <<u, k>> \in Block(p) THEN to[<<u, k>>] ELSE msgs[u][k]
    BY <1>9, <2>3
  <2>6. cond'[u][k] = IF Node2vec /\ <<u, k>> \in Block(p) THEN states[u][k] ELSE cond[u][k]
    BY <1>10, <2>3
  <2> HIDE DEF k, MovedNow
  <2>7. CASE pids[m] = p
    <3>1. to[<<u, k>>] \in Neighbors[msgs[u][k]]
      BY <1>9, <2>3, <2>7
    <3>2. ~Moved(pids[m])
      BY <1>7, <2>7
    <3> QED
      BY <2>2, <2>3, <2>4, <2>5, <2>6, <2>7, <3>1, <3>2 DEF k
  <2>8. CASE pids[m] # p
    BY <2>2, <2>3, <2>4, <2>5, <2>6, <2>8 DEF k
  <2> QED
    BY <2>7, <2>8
<1>16. MessagesFollow'
  <2>1. ASSUME NEW u \in Team, NEW m \in TaskWalkers(u)'
        PROVE  /\ Moved(pids[m])' => (msgs[u][Slot(u, m)] \in Neighbors[walks[step - 1][m]])'
               /\ ~Moved(pids[m])' => (msgs[u][Slot(u, m)] = walks[step - 1][m])'
    <3>1. m \in TaskWalkers(u) /\ Slot(u, m)' = Slot(u, m)
      BY <1>2 DEF Slot, TaskWalkers
    <3>2. Moved(pids[m])' <=> MovedNow(pids[m])
      BY <1>2, <1>3 DEF Moved
    <3> HIDE DEF MovedNow
    <3> QED
      BY <1>2, <1>15, <3>1, <3>2
  <2> QED
    BY <2>1 DEF MessagesFollow
<1>17. StatesFollow'
  BY <1>2, <1>3, <1>15 DEF StatesFollow, Moved, Slot, TaskWalkers
<1> QED
  BY <1>1, <1>11, <1>12, <1>13, <1>14, <1>16, <1>17 DEF SolverIInv
-----------------------------------------------------------------------------
(* The regions that shuffle and update.                                    *)

\* Two tasks have no walker in common.
LEMMA TasksApart ==
    ASSUME SolverIInv, InStep, NEW t \in Team, NEW u \in Team, NEW m \in TaskWalkers(t), m \in TaskWalkers(u)
    PROVE  t = u
  BY TasksInStep, TasksTile

\* A task sorts its own walkers; the other tasks' walkers are left where they are.
LEMMA ShuffleTaskInv == ASSUME SolverIInv, NEW t \in Team, ShuffleTask(t) PROVE SolverIInv'
<1> DEFINE current == walks[step - 1]
           ws == TaskWalkers(t)
           ids == [w \in Walkers |-> IF w \in ws THEN PartitionOf[current[w]] ELSE pids[w]]
<1>1. ClaimIInv'
  BY ClaimKept, ClaimStays DEF ClaimIInv, SolverIInv, ShuffleTask
<1>2. /\ SolverTypeOK /\ ClaimIInv /\ WalkersCounted /\ StepInWalk /\ TasksCut
      /\ BlocksSorted /\ MessagesFollow /\ StatesFollow
      /\ phase = "shuffle" /\ t \notin done /\ done' = done \cup {t}
      /\ UNCHANGED <<phase, rest, terminated, active, step, walks, taskBegin, taskEnd, claimVars>>
  BY DEF SolverIInv, ShuffleTask
<1>3. /\ pids' = ids
      /\ blockBegin' = [blockBegin EXCEPT ![t] = BlockStart(ids, ws)]
      /\ blockEnd' = [blockEnd EXCEPT ![t] = BlockStop(ids, ws)]
      /\ msgs' = [msgs EXCEPT ![t] = Placed(@, current, ids, ws)]
      /\ states' = IF Node2vec /\ step > 1 THEN [states EXCEPT ![t] = Placed(@, Previous, ids, ws)]
                                           ELSE states
      /\ cond' = [cond EXCEPT ![t] = [i \in Slots(t) |-> Static]]
  BY DEF ShuffleTask
<1>4. InStep /\ step \in 1 .. WalkLen - 1 /\ WalkLen \in Nat \ {0}
  BY <1>2, EpochsAssumption DEF InStep, StepInWalk
<1>5. ws \in SUBSET Walkers /\ active \in 0 .. MaxEpoch /\ CutAt(active)
  BY <1>4, TasksInStep
<1>6. /\ current \in [Walkers -> Vertices]
      /\ step > 1 => Previous \in [Walkers -> Vertices]
  <2>1. walks \in [0 .. WalkLen - 1 -> [Walkers -> Vertices]]
    BY <1>2 DEF SolverTypeOK
  <2>2. step - 1 \in 0 .. WalkLen - 1 /\ (step > 1 => step - 2 \in 0 .. WalkLen - 1)
    BY <1>4
  <2> QED
    BY <2>1, <2>2 DEF Previous
<1> HIDE DEF current, ws
<1>7. ids \in [Walkers -> PartitionIds]
  <2>1. pids \in [Walkers -> PartitionIds]
    BY <1>2 DEF SolverTypeOK
  <2>2. PartitionOf \in [Vertices -> PartitionIds]
    BY SolverAssumption
  <2> QED
    BY <2>1, <2>2, <1>6
<1>8. /\ \A k \in ws : ids[k] = PartitionOf[current[k]]
      /\ \A k \in Walkers \ ws : ids[k] = pids[k]
  BY <1>5
<1> HIDE DEF ids
<1>9. \A k \in ws : ids[k] \in PartitionIds
  BY <1>5, <1>7
<1>10. \A m \in ws : SlotOf(ids, ws, m) \in Slots(t)
  BY <1>5, <1>9, SlotInTask DEF ws
<1>11. /\ msgs[t] \in [Slots(t) -> Vertices] /\ states[t] \in [Slots(t) -> Vertices]
       /\ DOMAIN msgs = Team /\ DOMAIN states = Team /\ DOMAIN cond = Team
       /\ blockBegin \in [Team -> [PartitionIds -> 0 .. MaxEpoch]]
       /\ blockEnd \in [Team -> [PartitionIds -> 0 .. MaxEpoch]]
  BY <1>2 DEF SolverTypeOK
<1>12. /\ msgs'[t] \in [Slots(t) -> Vertices]
       /\ \A m \in ws : msgs'[t][SlotOf(ids, ws, m)] = current[m]
  <2>1. ws \in SUBSET Walkers /\ current \in [Walkers -> Vertices] /\ msgs[t] \in [Slots(t) -> Vertices]
    BY <1>5, <1>6, <1>11
  <2>2. Placed(msgs[t], current, ids, ws) \in [Slots(t) -> Vertices]
    BY <1>9, <1>10, <2>1, PlacedHolds
  <2>3. \A m \in ws : Placed(msgs[t], current, ids, ws)[SlotOf(ids, ws, m)] = current[m]
    BY <1>9, <1>10, <2>1, PlacedHolds
  <2>4. msgs'[t] = Placed(msgs[t], current, ids, ws)
    BY <1>3, <1>11
  <2> QED
    BY <2>2, <2>3, <2>4
<1>13. /\ states'[t] \in [Slots(t) -> Vertices]
       /\ Node2vec /\ step > 1 => \A m \in ws : states'[t][SlotOf(ids, ws, m)] = Previous[m]
  <2>1. CASE Node2vec /\ step > 1
    <3> DEFINE array == states[t]
               source == Previous
    <3>1. ws \in SUBSET Walkers /\ source \in [Walkers -> Vertices] /\ array \in [Slots(t) -> Vertices]
      BY <1>5, <1>6, <1>11, <2>1
    <3>2. states'[t] = Placed(array, source, ids, ws)
      BY <1>3, <1>11, <2>1
    <3> HIDE DEF array, source
    <3>3. Placed(array, source, ids, ws) \in [Slots(t) -> Vertices]
      BY <1>9, <1>10, <3>1, PlacedHolds
    <3>4. \A m \in ws : Placed(array, source, ids, ws)[SlotOf(ids, ws, m)] = source[m]
      BY <1>9, <1>10, <3>1, PlacedHolds
    <3> QED
      BY <3>2, <3>3, <3>4 DEF source
  <2>2. CASE ~(Node2vec /\ step > 1)
    BY <1>3, <1>11, <2>2
  <2> QED
    BY <2>1, <2>2
<1>14. ASSUME NEW u \in Team, u # t
       PROVE  /\ msgs'[u] = msgs[u] /\ states'[u] = states[u] /\ cond'[u] = cond[u]
              /\ blockBegin'[u] = blockBegin[u] /\ blockEnd'[u] = blockEnd[u]
  BY <1>3, <1>11, <1>14
<1>15. SolverTypeOK'
  <2>1. BlockStart(ids, ws) \in [PartitionIds -> 0 .. MaxEpoch] /\ BlockStop(ids, ws) \in [PartitionIds -> 0 .. MaxEpoch]
    <3>1. Cardinality(ws) \in Nat /\ Cardinality(ws) <= MaxEpoch /\ MaxEpoch \in Nat
      BY <1>5, WalkersFinite, MaxEpochType
    <3>2. ASSUME NEW q \in PartitionIds
          PROVE BlockStart(ids, ws)[q] \in 0 .. MaxEpoch /\ BlockStop(ids, ws)[q] \in 0 .. MaxEpoch
      <4>1. /\ BlockStop(ids, ws)[q] = BlockStart(ids, ws)[q] + BlockSize(ids, ws)[q]
            /\ BlockStart(ids, ws)[q] \in Nat /\ BlockSize(ids, ws)[q] \in Nat
            /\ BlockStop(ids, ws)[q] <= Cardinality(ws)
        BY <1>5, <1>9, BlockBounds
      <4> QED
        BY <3>1, <4>1
    <3>3. /\ BlockStart(ids, ws) = [q \in PartitionIds |-> BlockStart(ids, ws)[q]]
          /\ BlockStop(ids, ws) = [q \in PartitionIds |-> BlockStop(ids, ws)[q]]
      BY DEF BlockStart, BlockStop
    <3> QED
      BY <3>2, <3>3
  <2>2. /\ blockBegin' \in [Team -> [PartitionIds -> 0 .. MaxEpoch]]
        /\ blockEnd' \in [Team -> [PartitionIds -> 0 .. MaxEpoch]]
    BY <1>3, <1>11, <2>1
  <2>3. DOMAIN msgs' = Team /\ DOMAIN states' = Team /\ DOMAIN cond' = Team
    BY <1>3, <1>11
  <2>4. ASSUME NEW u \in Team
        PROVE  /\ msgs'[u] \in [Slots(u) -> Vertices] /\ states'[u] \in [Slots(u) -> Vertices]
               /\ cond'[u] \in [Slots(u) -> Vertices \cup {Static}]
    <3>1. CASE u = t
      BY <1>3, <1>11, <1>12, <1>13, <3>1
    <3>2. CASE u # t
      BY <1>2, <1>14, <3>2 DEF SolverTypeOK
    <3> QED
      BY <3>1, <3>2
  <2>5. done' \in SUBSET Team /\ pids' \in [Walkers -> PartitionIds]
    BY <1>2, <1>3, <1>7 DEF SolverTypeOK
  <2> QED
    BY <1>1, <1>2, <2>2, <2>3, <2>4, <2>5 DEF SolverTypeOK, ClaimIInv
<1>16. WalkersCounted' /\ StepInWalk'
  BY <1>2 DEF WalkersCounted, StepInWalk, InStep, claimVars
<1>17. TasksCut'
  BY <1>2, <1>4, CutKept
\* What is sorted afterwards: the task itself, or one whose walkers keep their slots.
<1>18. ASSUME NEW u \in Team, Shuffled(u)'
       PROVE  /\ blockBegin'[u] = BlockStart(ids, TaskWalkers(u))
              /\ blockEnd'[u] = BlockStop(ids, TaskWalkers(u))
              /\ \A m \in TaskWalkers(u) :
                    /\ ids[m] = PartitionOf[current[m]]
                    /\ msgs'[u][SlotOf(ids, TaskWalkers(u), m)] = current[m]
                    /\ Node2vec /\ step > 1 => states'[u][SlotOf(ids, TaskWalkers(u), m)] = Previous[m]
  <2>1. CASE u = t
    BY <1>3, <1>8, <1>11, <1>12, <1>13, <2>1 DEF ws
  <2>2. CASE u # t
    <3>1. Shuffled(u) /\ \A q : ~Moved(q)
      BY <1>2, <1>18, <2>2 DEF Shuffled, Moved
    <3>2. TaskWalkers(u) \in SUBSET Walkers /\ \A m \in TaskWalkers(u) : m \notin ws
      BY <1>4, <2>2, TasksInStep, TasksApart DEF ws
    <3>3. \A m \in TaskWalkers(u) : ids[m] = pids[m]
      BY <1>8, <3>2
    <3>4. /\ BlockStart(ids, TaskWalkers(u)) = BlockStart(pids, TaskWalkers(u))
          /\ BlockStop(ids, TaskWalkers(u)) = BlockStop(pids, TaskWalkers(u))
          /\ \A m \in TaskWalkers(u) : SlotOf(ids, TaskWalkers(u), m) = Slot(u, m)
      BY <3>2, <3>3, SortAgrees DEF Slot
    <3>5. /\ blockBegin[u] = BlockStart(pids, TaskWalkers(u)) /\ blockEnd[u] = BlockStop(pids, TaskWalkers(u))
          /\ \A m \in TaskWalkers(u) : /\ pids[m] = PartitionOf[current[m]]
                                       /\ msgs[u][Slot(u, m)] = current[m]
      BY <1>2, <3>1 DEF BlocksSorted, MessagesFollow, current
    <3>6. Node2vec /\ step > 1 => \A m \in TaskWalkers(u) : states[u][Slot(u, m)] = Previous[m]
      BY <1>2, <3>1 DEF StatesFollow, Previous
    <3> QED
      BY <1>14, <2>2, <3>3, <3>4, <3>5, <3>6
  <2> QED
    BY <2>1, <2>2
<1>19. ASSUME NEW u \in Team
       PROVE  TaskWalkers(u)' = TaskWalkers(u) /\ \A m : Slot(u, m)' = SlotOf(ids, TaskWalkers(u), m)
  BY <1>2, <1>3 DEF Slot, TaskWalkers
<1>20. \A q : ~Moved(q)'
  BY <1>2 DEF Moved
<1>21. walks'[step' - 1] = current /\ walks'[step' - 2] = Previous
  BY <1>2 DEF current, Previous
<1>22. BlocksSorted'
  BY <1>3, <1>18, <1>19, <1>21 DEF BlocksSorted
<1>23. MessagesFollow'
  BY <1>18, <1>19, <1>20, <1>21 DEF MessagesFollow
<1>24. StatesFollow'
  BY <1>2, <1>18, <1>19, <1>20, <1>21 DEF StatesFollow
<1> QED
  BY <1>1, <1>15, <1>16, <1>17, <1>22, <1>23, <1>24 DEF SolverIInv

\* update looks for a message where shuffle put it.
LEMMA UpdateSlotIs ==
    ASSUME SolverIInv, NEW t \in Team, Shuffled(t), NEW m \in TaskWalkers(t)
    PROVE  UpdateSlot(t, m) = Slot(t, m)
  BY DEF SolverIInv, BlocksSorted, UpdateSlot, Slot, SlotOf

\* A task copies its messages back; the others still hold theirs.
LEMMA UpdateTaskInv == ASSUME SolverIInv, NEW t \in Team, UpdateTask(t) PROVE SolverIInv'
<1> DEFINE ws == TaskWalkers(t)
<1>1. ClaimIInv'
  BY ClaimKept, ClaimStays DEF ClaimIInv, SolverIInv, UpdateTask
<1>2. /\ SolverTypeOK /\ ClaimIInv /\ WalkersCounted /\ StepInWalk /\ TasksCut
      /\ BlocksSorted /\ MessagesFollow /\ StatesFollow
      /\ phase = "update" /\ t \notin done /\ done' = done \cup {t}
      /\ UNCHANGED <<phase, rest, terminated, active, step>>
      /\ UNCHANGED <<taskBegin, taskEnd, pids, blockEnd, msgs, states, cond, claimVars>>
  BY DEF SolverIInv, UpdateTask
<1>3. /\ walks' = [walks EXCEPT ![step] =
                     [w \in Walkers |-> IF w \in ws THEN msgs[t][UpdateSlot(t, w)] ELSE @[w]]]
      /\ blockBegin' = [blockBegin EXCEPT ![t] = [p \in PartitionIds |-> @[p] + BlockSize(pids, ws)[p]]]
  BY DEF UpdateTask
<1>4. InStep /\ Shuffled(t) /\ step \in 1 .. WalkLen - 1 /\ WalkLen \in Nat \ {0}
  BY <1>2, EpochsAssumption DEF InStep, Shuffled, StepInWalk
<1>5. /\ ws \in SUBSET Walkers /\ \A k \in ws : pids[k] \in PartitionIds
      /\ \A m \in ws : UpdateSlot(t, m) \in Slots(t)
  BY <1>4, TasksInStep, UpdateSlotIs
<1>6. /\ walks \in [0 .. WalkLen - 1 -> [Walkers -> Vertices]] /\ msgs[t] \in [Slots(t) -> Vertices]
      /\ blockBegin \in [Team -> [PartitionIds -> 0 .. MaxEpoch]]
  BY <1>2 DEF SolverTypeOK
<1> HIDE DEF ws
<1>7. SolverTypeOK'
  <2>1. walks' \in [0 .. WalkLen - 1 -> [Walkers -> Vertices]]
    <3>1. walks[step] \in [Walkers -> Vertices]
      BY <1>4, <1>6
    <3>2. [w \in Walkers |-> IF w \in ws THEN msgs[t][UpdateSlot(t, w)] ELSE walks[step][w]] \in [Walkers -> Vertices]
      BY <1>5, <1>6, <3>1
    <3> QED
      BY <1>3, <1>6, <3>2
  <2>2. ASSUME NEW p \in PartitionIds PROVE blockBegin[t][p] + BlockSize(pids, ws)[p] \in 0 .. MaxEpoch
    <3>1. blockBegin[t] = BlockStart(pids, ws)
      BY <1>2, <1>4 DEF BlocksSorted, ws
    <3>2. /\ BlockStop(pids, ws)[p] = BlockStart(pids, ws)[p] + BlockSize(pids, ws)[p]
          /\ BlockStart(pids, ws)[p] \in Nat /\ BlockSize(pids, ws)[p] \in Nat
          /\ BlockStop(pids, ws)[p] <= Cardinality(ws)
      BY <1>5, BlockBounds
    <3>3. Cardinality(ws) \in Nat /\ Cardinality(ws) <= MaxEpoch /\ MaxEpoch \in Nat
      BY <1>5, WalkersFinite, MaxEpochType
    <3> QED
      BY <3>1, <3>2, <3>3
  <2>3. blockBegin' \in [Team -> [PartitionIds -> 0 .. MaxEpoch]]
    BY <1>3, <1>6, <2>2
  <2>4. done' \in SUBSET Team
    BY <1>2 DEF SolverTypeOK
  <2> QED
    BY <1>1, <1>2, <2>1, <2>3, <2>4 DEF SolverTypeOK, ClaimIInv
<1>8. WalkersCounted' /\ StepInWalk'
  BY <1>2 DEF WalkersCounted, StepInWalk, InStep, claimVars
<1>9. TasksCut'
  BY <1>2, <1>4, CutKept
<1>10. ASSUME NEW u \in Team, Shuffled(u)'
       PROVE  Shuffled(u) /\ blockBegin'[u] = blockBegin[u]
  BY <1>2, <1>3, <1>6, <1>10 DEF Shuffled
<1>11. walks'[step' - 1] = walks[step - 1] /\ (step > 1 => walks'[step' - 2] = walks[step - 2])
  <2>1. step - 1 # step /\ step - 1 \in 0 .. WalkLen - 1 /\ step' = step
    BY <1>2, <1>4
  <2>2. step > 1 => step - 2 # step /\ step - 2 \in 0 .. WalkLen - 1
    BY <1>4
  <2> QED
    BY <1>3, <1>6, <2>1, <2>2
<1>12. ASSUME NEW u \in Team
       PROVE  TaskWalkers(u)' = TaskWalkers(u) /\ \A m : Slot(u, m)' = Slot(u, m)
  BY <1>2 DEF Slot, TaskWalkers
<1>13. \A q : Moved(q)' /\ Moved(q)
  BY <1>2 DEF Moved
<1>14. BlocksSorted'
  BY <1>2, <1>10, <1>11, <1>12 DEF BlocksSorted
<1>15. MessagesFollow'
  BY <1>2, <1>10, <1>11, <1>12, <1>13 DEF MessagesFollow
<1>16. StatesFollow'
  BY <1>2, <1>10, <1>11, <1>12, <1>13 DEF StatesFollow
<1> QED
  BY <1>1, <1>7, <1>8, <1>9, <1>14, <1>15, <1>16 DEF SolverIInv

\* A step that changes nothing.
LEMMA SolverKept == SolverIInv /\ UNCHANGED solverVars => SolverIInv'
<1> SUFFICES ASSUME SolverIInv, UNCHANGED solverVars PROVE SolverIInv'
  OBVIOUS
<1>1. ClaimIInv'
  BY ClaimKept, ClaimStays DEF ClaimIInv, SolverIInv, solverVars
<1>2. UNCHANGED <<phase, rest, terminated, active, step, walks, done>>
      /\ UNCHANGED <<taskBegin, taskEnd, pids, blockBegin, blockEnd, msgs, states, cond>>
      /\ UNCHANGED <<pc, part, progress, hdv, ldv, walked>>
  BY DEF solverVars, epochVars, taskVars, claimVars
<1>3. SolverTypeOK'
  BY <1>1, <1>2 DEF SolverIInv, SolverTypeOK, ClaimIInv
<1>4. WalkersCounted' /\ StepInWalk'
  BY <1>2 DEF SolverIInv, WalkersCounted, StepInWalk, InStep
<1>5. TasksCut'
  BY <1>2, CutKept DEF SolverIInv, InStep
<1>6. BlocksSorted'
  BY <1>2 DEF SolverIInv, BlocksSorted, Shuffled, TaskWalkers
<1>7. MessagesFollow'
  BY <1>2 DEF SolverIInv, MessagesFollow, Shuffled, Moved, Slot, TaskWalkers
<1>8. StatesFollow'
  BY <1>2 DEF SolverIInv, StatesFollow, Shuffled, Moved, Slot, TaskWalkers
<1> QED
  BY <1>1, <1>3, <1>4, <1>5, <1>6, <1>7, <1>8 DEF SolverIInv
-----------------------------------------------------------------------------
\* Every step of the solver keeps the invariant.
LEMMA SolverStepInv == SolverIInv /\ [SolverNext]_solverVars => SolverIInv'
<1> SUFFICES ASSUME SolverIInv, [SolverNext]_solverVars PROVE SolverIInv'
  OBVIOUS
<1>1. CASE Master
  BY <1>1, BeginEpochInv, BeginShuffleInv, BeginWalkInv, EndWalkInv, EndStepInv, DeliverInv DEF Master
<1>2. ASSUME NEW t \in Team, TeamStep(t) PROVE SolverIInv'
  BY <1>2, ShuffleTaskInv, ClaimPartitionInv, WalkPartitionInv, UpdateTaskInv DEF TeamStep
<1>3. CASE Finished
  BY <1>3, SolverKept DEF Finished
<1>4. CASE UNCHANGED solverVars
  BY <1>4, SolverKept
<1> QED
  BY <1>1, <1>2, <1>3, <1>4 DEF SolverNext

\* The invariant is inductive: it holds initially and every step keeps it.
THEOREM SolverInvariant == SolverSpec => []SolverIInv
  BY SolverInitInv, SolverStepInv, PTL DEF SolverSpec

\* The solver's variables, those of the walking region among them, keep their types.
THEOREM SolverTypeCorrect == SolverSpec => []SolverTypeOK
<1>1. SolverIInv => SolverTypeOK
  BY DEF SolverIInv
<1> QED
  BY <1>1, SolverInvariant, PTL

(***************************************************************************)
(* While a step runs, the tasks' ranges, which are cut from those of a     *)
(* full epoch, hold exactly the walkers of the epoch, and the counters of  *)
(* walkers add up.                                                         *)
(***************************************************************************)
THEOREM AllWalkersCovered == SolverSpec => []WalkersCovered
<1>1. SolverIInv => WalkersCovered
  <2> SUFFICES ASSUME SolverIInv PROVE WalkersCovered
    OBVIOUS
  <2>1. /\ rest + terminated = WalkerNum /\ (phase # "idle" => active = Least(MaxEpoch, rest))
        /\ rest \in Nat /\ MaxEpoch \in Nat
    BY MaxEpochType, EpochsAssumption DEF SolverIInv, WalkersCounted, SolverTypeOK
  <2>2. phase # "idle" => active <= rest
    BY <2>1 DEF Least
  <2>3. ASSUME InStep PROVE \A w \in Walkers : w < active <=> \E t \in Team : w \in TaskWalkers(t)
    <3>1. active \in 0 .. MaxEpoch /\ CutAt(active)
      BY <2>3 DEF SolverIInv, SolverTypeOK, TasksCut
    <3> QED
      BY <3>1, TasksTile
  <2> QED
    BY <2>1, <2>2, <2>3 DEF WalkersCovered, InStep
<1> QED
  BY <1>1, SolverInvariant, PTL

(***************************************************************************)
(* Until a partition has been walked, its block in every task holds        *)
(* vertices of the partition and nothing else: every slot of the block is  *)
(* some walker's, so no message of an earlier step is left in it.          *)
(***************************************************************************)
THEOREM MessagesHome == SolverSpec => []MessagesAtHome
<1>1. SolverIInv => MessagesAtHome
  <2> SUFFICES ASSUME SolverIInv, phase = "walk", NEW s \in Sockets, NEW i \in Partitions(s), walked[<<s, i>>] = 0,
                      NEW p, p = SocketPartitions[s][i + 1], NEW b \in Block(p)
               PROVE  PartitionOf[msgs[b[1]][b[2]]] = p
    BY DEF MessagesAtHome
  <2>1. PICK u \in Team : \E k \in Slots(u) : b = <<u, k>> /\ blockBegin[u][p] <= k /\ k < blockEnd[u][p]
    BY DEF Block
  <2>2. PICK k \in Slots(u) : b = <<u, k>> /\ blockBegin[u][p] <= k /\ k < blockEnd[u][p]
    BY <2>1
  <2>3. p \in PartitionIds /\ ~Moved(p)
    <3>1. p \in PartitionIds
      BY PartitionPlace
    <3>2. ASSUME NEW r \in Sockets, NEW j \in Partitions(r), SocketPartitions[r][j + 1] = p PROVE walked[<<r, j>>] = 0
      BY <3>2, PartitionPlace
    <3> QED
      BY <3>1, <3>2 DEF Moved
  <2>4. InStep /\ Shuffled(u)
    BY DEF InStep, Shuffled
  <2>5. /\ TaskWalkers(u) \in SUBSET Walkers /\ \A m \in TaskWalkers(u) : pids[m] \in PartitionIds
        /\ blockBegin[u] = BlockStart(pids, TaskWalkers(u)) /\ blockEnd[u] = BlockStop(pids, TaskWalkers(u))
    BY <2>4, TasksInStep DEF SolverIInv, BlocksSorted
  <2>6. k \in Int /\ BlockStart(pids, TaskWalkers(u))[p] <= k /\ k < BlockStop(pids, TaskWalkers(u))[p]
    BY <2>2, <2>5 DEF Slots
  <2>7. PICK m \in TaskWalkers(u) : pids[m] = p /\ SlotOf(pids, TaskWalkers(u), m) = k
    BY <2>3, <2>5, <2>6, BlockFilled
  <2>8. msgs[u][k] = walks[step - 1][m] /\ pids[m] = PartitionOf[walks[step - 1][m]]
    BY <2>3, <2>4, <2>7 DEF SolverIInv, MessagesFollow, BlocksSorted, Slot
  <2> QED
    BY <2>2, <2>7, <2>8
<1> QED
  BY <1>1, SolverInvariant, PTL

(***************************************************************************)
(* node2vec: the state a walker's message was moved with is the vertex the *)
(* same walker was at one step before.                                     *)
(***************************************************************************)
THEOREM SecondOrderKept == SolverSpec => []SecondOrder
<1>1. SolverIInv => SecondOrder
  <2> SUFFICES ASSUME SolverIInv, Node2vec, phase = "update", step > 1, NEW t \in Team \ done, NEW m \in TaskWalkers(t)
               PROVE  cond[t][UpdateSlot(t, m)] = walks[step - 2][m]
    BY DEF SecondOrder
  <2>1. Shuffled(t) /\ Moved(pids[m])
    BY DEF Shuffled, Moved
  <2> QED
    BY <2>1, UpdateSlotIs DEF SolverIInv, StatesFollow
<1> QED
  BY <1>1, SolverInvariant, PTL
-----------------------------------------------------------------------------
(* The refinement: a task that updates its walkers is a step of RandomWalk. *)

\* The abstract variables, as Walk substitutes them.
Waiting == IF phase = "idle" THEN rest ELSE rest - active
Paths   == IF phase = "idle" THEN << >>
           ELSE [w \in 1 .. active |-> [i \in 1 .. PathLen(w - 1) |-> walks[i - 1][w - 1]]]

\* A path of n vertices is read off the first n rows of walks.
LEMMA PathIs ==
    ASSUME NEW n \in Nat, n <= WalkLen, NEW rows \in [0 .. WalkLen - 1 -> [Walkers -> Vertices]], NEW v \in Walkers
    PROVE  \A i \in 1 .. n : rows[i - 1][v] \in Vertices
<1>1. WalkLen \in Nat
  BY EpochsAssumption
<1> SUFFICES ASSUME NEW i \in 1 .. n PROVE rows[i - 1][v] \in Vertices
  OBVIOUS
<1>2. i - 1 \in 0 .. WalkLen - 1
  BY <1>1
<1> QED
  BY <1>2

\* A path that is longer by one vertex is the path with the vertex appended.
LEMMA PathAppended ==
    ASSUME NEW short \in Seq(Vertices), NEW long \in Seq(Vertices), NEW v \in Vertices,
           Len(long) = Len(short) + 1, \A i \in 1 .. Len(short) : long[i] = short[i], long[Len(long)] = v
    PROVE  long = Append(short, v)
  BY AppendProperties, SeqEqual

\* A path of one vertex.
LEMMA PathSingle == ASSUME NEW path \in [1 .. 1 -> Vertices] PROVE path = <<path[1]>>
<1>1. ASSUME NEW n \in Nat, NEW p \in [1 .. n -> Vertices] PROVE p \in Seq(Vertices) /\ Len(p) = n
  OBVIOUS
<1>2. path \in Seq(Vertices) /\ Len(path) = 1
  BY <1>1
<1> QED
  BY <1>2

\* The walkers of the running epoch.
LEMMA EpochFacts ==
    ASSUME SolverIInv, phase # "idle"
    PROVE  /\ active \in Nat \ {0} /\ active <= MaxEpoch /\ active <= rest /\ rest \in Nat
           /\ step \in 1 .. WalkLen
           /\ walks \in [0 .. WalkLen - 1 -> [Walkers -> Vertices]]
           /\ \A w \in 1 .. active : w - 1 \in Walkers /\ w - 1 < active
<1>1. MaxEpoch \in Nat \ {0} /\ WalkLen \in Nat \ {0} /\ WalkerNum \in Nat
  BY MaxEpochType, EpochsAssumption
<1>2. /\ phase \in Phases /\ rest \in 0 .. WalkerNum /\ active = Least(MaxEpoch, rest) /\ rest # 0
      /\ walks \in [0 .. WalkLen - 1 -> [Walkers -> Vertices]]
  BY DEF SolverIInv, SolverTypeOK, WalkersCounted
<1>3. active \in Nat \ {0} /\ active <= MaxEpoch /\ active <= rest
  BY <1>1, <1>2 DEF Least
<1>4. step \in 1 .. WalkLen
  BY <1>1, <1>2 DEF SolverIInv, StepInWalk, InStep, Phases
<1>5. \A w \in 1 .. active : w - 1 \in Walkers /\ w - 1 < active
  BY <1>1, <1>3 DEF Walkers
<1> QED
  BY <1>2, <1>3, <1>4, <1>5

\* How long the path of a walker is.
LEMMA PathLenIs ==
    ASSUME SolverIInv, phase # "idle", NEW v
    PROVE  /\ PathLen(v) \in {step, step + 1} /\ PathLen(v) \in Nat /\ PathLen(v) <= WalkLen
           /\ PathLen(v) = step + 1 <=> (phase = "update" /\ \E t \in done : v \in TaskWalkers(t))
<1>1. step \in 1 .. WalkLen /\ WalkLen \in Nat
  BY EpochFacts, EpochsAssumption
<1>2. phase = "update" => step <= WalkLen - 1
  BY EpochsAssumption DEF SolverIInv, StepInWalk, InStep
<1> QED
  BY <1>1, <1>2 DEF PathLen

\* The abstract paths, one after the other.
LEMMA PathsAre ==
    ASSUME SolverIInv, phase # "idle"
    PROVE  /\ Paths = [w \in 1 .. active |-> [i \in 1 .. PathLen(w - 1) |-> walks[i - 1][w - 1]]]
           /\ DOMAIN Paths = 1 .. active /\ Len(Paths) = active /\ Paths # << >>
           /\ \A w \in 1 .. active :
                 /\ Paths[w] \in Seq(Vertices) /\ Len(Paths[w]) = PathLen(w - 1)
                 /\ \A i \in 1 .. PathLen(w - 1) : Paths[w][i] = walks[i - 1][w - 1]
<1>1. Paths = [w \in 1 .. active |-> [i \in 1 .. PathLen(w - 1) |-> walks[i - 1][w - 1]]]
  BY DEF Paths
<1>2. active \in Nat \ {0} /\ walks \in [0 .. WalkLen - 1 -> [Walkers -> Vertices]]
  BY EpochFacts
<1>3. ASSUME NEW w \in 1 .. active
      PROVE  /\ Paths[w] \in Seq(Vertices) /\ Len(Paths[w]) = PathLen(w - 1)
             /\ \A i \in 1 .. PathLen(w - 1) : Paths[w][i] = walks[i - 1][w - 1]
  <2>1. PathLen(w - 1) \in Nat /\ PathLen(w - 1) <= WalkLen /\ w - 1 \in Walkers
    BY PathLenIs, EpochFacts
  <2>2. Paths[w] = [i \in 1 .. PathLen(w - 1) |-> walks[i - 1][w - 1]]
    BY <1>1
  <2>3. \A i \in 1 .. PathLen(w - 1) : walks[i - 1][w - 1] \in Vertices
    BY <1>2, <2>1, PathIs
  <2>4. Paths[w] \in [1 .. PathLen(w - 1) -> Vertices]
    BY <2>2, <2>3
  <2>5. Paths[w] \in Seq(Vertices) /\ Len(Paths[w]) = PathLen(w - 1)
    BY <2>1, <2>4
  <2> QED
    BY <2>2, <2>5
<1>4. DOMAIN Paths = 1 .. active
  BY <1>1
<1>5. Paths \in Seq(Seq(Vertices)) /\ Len(Paths) = active /\ Paths # << >>
  <2>1. Paths \in [1 .. active -> Seq(Vertices)]
    BY <1>1, <1>3
  <2> QED
    BY <1>2, <2>1
<1> QED
  BY <1>1, <1>3, <1>4, <1>5

\* When the three abstract variables stay, so does RandomWalk.
LEMMA StutterRefines ==
    ASSUME Waiting' = Waiting, terminated' = terminated, Paths' = Paths PROVE UNCHANGED Walk!rwVars
  BY DEF Walk!rwVars, Waiting, Paths

\* The paths stay when no position that counts is written.
LEMMA PathsKept ==
    ASSUME SolverIInv, phase # "idle", phase' # "idle", UNCHANGED <<rest, terminated, active>>,
           \A w \in 1 .. active : PathLen(w - 1)' = PathLen(w - 1),
           \A w \in 1 .. active : \A i \in 1 .. PathLen(w - 1) : walks'[i - 1][w - 1] = walks[i - 1][w - 1]
    PROVE  UNCHANGED Walk!rwVars
<1>1. Paths' = [w \in 1 .. active' |-> [i \in 1 .. PathLen(w - 1)' |-> walks'[i - 1][w - 1]]]
  BY DEF Paths
<1>2. Paths = [w \in 1 .. active |-> [i \in 1 .. PathLen(w - 1) |-> walks[i - 1][w - 1]]]
  BY DEF Paths
<1>3. ASSUME NEW w \in 1 .. active
      PROVE  [i \in 1 .. PathLen(w - 1)' |-> walks'[i - 1][w - 1]] = [i \in 1 .. PathLen(w - 1) |-> walks[i - 1][w - 1]]
  OBVIOUS
<1>4. Paths' = Paths
  BY <1>1, <1>2, <1>3
<1>5. Waiting' = Waiting
  BY DEF Waiting
<1> QED
  BY <1>4, <1>5, StutterRefines

\* Outside update the paths are as long as the steps that are done.
LEMMA QuietStep ==
    ASSUME SolverIInv, phase # "idle", phase' # "idle", UNCHANGED <<rest, terminated, active, step, walks>>,
           phase # "update" \/ done = {}, phase' # "update" \/ done' = {}
    PROVE  UNCHANGED Walk!rwVars
<1>1. ASSUME NEW v PROVE PathLen(v)' = PathLen(v)
  BY DEF PathLen
<1> QED
  BY <1>1, PathsKept

\* An epoch begins: its walkers leave those that wait.
LEMMA BeginEpochRefines == ASSUME SolverIInv, SolverIInv', BeginEpoch PROVE Walk!RWBegin
<1> DEFINE first == [w \in 1 .. active' |-> walks'[0][w - 1]]
<1>1. /\ phase = "idle" /\ phase' # "idle" /\ phase' # "update" /\ step' = 1 /\ rest' = rest
      /\ terminated' = terminated /\ active' = Least(MaxEpoch, rest) /\ rest # 0
  BY DEF BeginEpoch, Enter
<1>2. active' \in Nat \ {0} /\ active' <= MaxEpoch /\ active' <= rest /\ rest \in Nat
  <2>1. rest \in Nat /\ MaxEpoch \in Nat \ {0}
    BY MaxEpochType, EpochsAssumption DEF SolverIInv, SolverTypeOK
  <2> QED
    BY <1>1, <2>1 DEF Least
<1>3. walks' \in [0 .. WalkLen - 1 -> [Walkers -> Vertices]] /\ 0 \in 0 .. WalkLen - 1
  BY EpochsAssumption DEF SolverIInv, SolverTypeOK
<1>4. first \in [1 .. active' -> Vertices]
  <2>1. walks'[0] \in [Walkers -> Vertices]
    BY <1>3
  <2>2. ASSUME NEW n \in Nat, n <= MaxEpoch, NEW w \in 1 .. n PROVE w - 1 \in Walkers
    BY <2>2, MaxEpochType DEF Walkers
  <2> QED
    BY <1>2, <2>1, <2>2
<1>5. Waiting = rest /\ Paths = << >> /\ Waiting' = rest - active'
  BY <1>1 DEF Waiting, Paths
<1>6. Paths' = [w \in 1 .. active' |-> <<first[w]>>]
  <2>1. Paths' = [w \in 1 .. active' |-> [i \in 1 .. PathLen(w - 1)' |-> walks'[i - 1][w - 1]]]
    BY <1>1 DEF Paths
  <2>2. ASSUME NEW v PROVE PathLen(v)' = 1
    BY <1>1 DEF PathLen
  <2>3. ASSUME NEW w \in 1 .. active' PROVE [i \in 1 .. 1 |-> walks'[i - 1][w - 1]] = <<first[w]>>
    <3> DEFINE path == [i \in 1 .. 1 |-> walks'[i - 1][w - 1]]
    <3>1. path[1] = first[w] /\ first[w] \in Vertices
      BY <1>4
    <3>2. path \in [1 .. 1 -> Vertices]
      <4>1. \A i \in 1 .. 1 : walks'[i - 1][w - 1] = first[w]
        OBVIOUS
      <4> QED
        BY <3>1, <4>1
    <3> HIDE DEF path
    <3>3. path = <<path[1]>>
      BY <3>2, PathSingle
    <3> QED
      BY <3>1, <3>3 DEF path
  <2> QED
    BY <2>1, <2>2, <2>3
<1> HIDE DEF first
<1>7. \E n \in 1 .. Waiting :
         /\ Waiting' = Waiting - n
         /\ \E start \in [1 .. n -> Vertices] : Paths' = [w \in 1 .. n |-> <<start[w]>>]
  <2>1. active' \in 1 .. Waiting /\ Waiting' = Waiting - active'
    BY <1>2, <1>5
  <2>2. \E start \in [1 .. active' -> Vertices] : Paths' = [w \in 1 .. active' |-> <<start[w]>>]
    BY <1>4, <1>6, Zenon
  <2> QED
    BY <2>1, <2>2, Zenon
<1> QED
  BY <1>1, <1>5, <1>7 DEF Walk!RWBegin, Waiting, Paths

\* The epoch's paths are full, and handed over.
LEMMA DeliverRefines == ASSUME SolverIInv, Deliver PROVE Walk!RWDeliver
<1>1. /\ phase = "paths" /\ phase' = "idle" /\ terminated' = terminated + active /\ rest' = rest - active
  BY DEF Deliver, Enter
<1>2. step = WalkLen
  BY <1>1 DEF SolverIInv, StepInWalk
<1>3. \A w \in 1 .. active : PathLen(w - 1) = WalkLen
  BY <1>1, <1>2 DEF PathLen
<1>4. /\ Paths # << >> /\ \A w \in DOMAIN Paths : Len(Paths[w]) = WalkLen
      /\ terminated' = terminated + Len(Paths)
  BY <1>1, <1>3, PathsAre
<1>5. Paths' = << >> /\ Waiting' = Waiting
  BY <1>1 DEF Paths, Waiting
<1> QED
  BY <1>4, <1>5 DEF Walk!RWDeliver, Waiting, Paths

\* When all tasks are done every path has the vertex of the step.
LEMMA EndStepRefines == ASSUME SolverIInv, EndStep PROVE UNCHANGED Walk!rwVars
<1>1. /\ phase = "update" /\ phase' \in {"step", "paths"} /\ done = Team /\ step' = step + 1
      /\ UNCHANGED <<rest, terminated, active, walks>>
  BY DEF EndStep, Enter
<1>2. ASSUME NEW w \in 1 .. active PROVE PathLen(w - 1)' = PathLen(w - 1)
  <2>1. w - 1 \in Walkers /\ w - 1 < active
    BY <1>1, EpochFacts
  <2>2. active \in 0 .. MaxEpoch /\ CutAt(active)
    BY <1>1 DEF SolverIInv, SolverTypeOK, TasksCut, InStep
  <2>3. \E t \in done : w - 1 \in TaskWalkers(t)
    BY <1>1, <2>1, <2>2, TasksTile
  <2> QED
    BY <1>1, <2>3 DEF PathLen
<1> QED
  BY <1>1, <1>2, PathsKept

\* A task that updates moves its walkers, which are behind, by one edge each.
LEMMA UpdateTaskRefines ==
    ASSUME SolverIInv, NEW t \in Team, UpdateTask(t) PROVE Walk!RWAdvance \/ UNCHANGED Walk!rwVars
<1> DEFINE moving == {w \in 1 .. active : w - 1 \in TaskWalkers(t)}
           Long(w) == [i \in 1 .. PathLen(w - 1)' |-> walks'[i - 1][w - 1]]
<1>1. /\ phase = "update" /\ t \notin done /\ done' = done \cup {t} /\ SolverIInv'
      /\ UNCHANGED <<phase, rest, terminated, active, step, taskBegin, taskEnd, pids, msgs>>
      /\ walks' = [walks EXCEPT ![step] =
                      [v \in Walkers |-> IF v \in TaskWalkers(t) THEN msgs[t][UpdateSlot(t, v)] ELSE @[v]]]
  BY UpdateTaskInv DEF UpdateTask
<1>2. InStep /\ Shuffled(t) /\ step \in 1 .. WalkLen - 1 /\ WalkLen \in Nat
  BY <1>1, EpochsAssumption DEF InStep, Shuffled, SolverIInv, StepInWalk
<1>3. /\ walks \in [0 .. WalkLen - 1 -> [Walkers -> Vertices]] /\ walks' \in [0 .. WalkLen - 1 -> [Walkers -> Vertices]]
      /\ \A w \in 1 .. active : w - 1 \in Walkers
  BY <1>1, EpochFacts DEF SolverIInv, SolverTypeOK
<1>4. ASSUME NEW l \in 0 .. WalkLen - 1, NEW v \in Walkers
      PROVE  walks'[l][v] = IF l = step /\ v \in TaskWalkers(t) THEN msgs[t][UpdateSlot(t, v)] ELSE walks[l][v]
  <2>1. CASE l = step
    <3>1. walks'[step] = [x \in Walkers |-> IF x \in TaskWalkers(t) THEN msgs[t][UpdateSlot(t, x)] ELSE walks[step][x]]
      BY <1>1, <1>3, <2>1
    <3> QED
      BY <2>1, <3>1
  <2>2. CASE l # step
    BY <1>1, <1>3, <2>2
  <2> QED
    BY <2>1, <2>2
<1>5. ASSUME NEW v \in TaskWalkers(t) PROVE PathLen(v) = step /\ PathLen(v)' = step + 1
  <2>1. ~ \E u \in done : v \in TaskWalkers(u)
    BY <1>1, <1>2, TasksApart DEF SolverIInv, SolverTypeOK
  <2>2. \E u \in done' : v \in TaskWalkers(u)'
    BY <1>1 DEF TaskWalkers
  <2> QED
    BY <1>1, <2>1, <2>2 DEF PathLen
<1>6. ASSUME NEW v, v \notin TaskWalkers(t) PROVE PathLen(v)' = PathLen(v)
  <2>1. (\E u \in done' : v \in TaskWalkers(u)') <=> \E u \in done : v \in TaskWalkers(u)
    BY <1>1, <1>6 DEF TaskWalkers
  <2> QED
    BY <1>1, <2>1 DEF PathLen
<1>7. /\ DOMAIN Paths = 1 .. active
      /\ \A w \in 1 .. active :
            /\ Paths[w] \in Seq(Vertices) /\ Len(Paths[w]) = PathLen(w - 1)
            /\ \A i \in 1 .. PathLen(w - 1) : Paths[w][i] = walks[i - 1][w - 1]
      /\ Paths = [w \in 1 .. active |-> [i \in 1 .. PathLen(w - 1) |-> walks[i - 1][w - 1]]]
  BY <1>1, PathsAre
<1>8. \A v : PathLen(v) \in {step, step + 1} /\ PathLen(v) \in Nat /\ PathLen(v) <= WalkLen
  BY <1>1, PathLenIs
<1>9. DOMAIN Paths' = 1 .. active /\ \A w \in 1 .. active : Paths'[w] = Long(w)
  <2>1. Paths' = [w \in 1 .. active' |-> Long(w)]
    BY <1>1 DEF Paths
  <2> HIDE DEF Long
  <2> QED
    BY <1>1, <2>1
<1>10. ASSUME NEW w \in 1 .. active, w \notin moving PROVE Paths'[w] = Paths[w]
  <2>1. w - 1 \notin TaskWalkers(t) /\ w - 1 \in Walkers
    BY <1>3, <1>10
  <2>2. PathLen(w - 1)' = PathLen(w - 1)
    BY <1>6, <2>1
  <2>3. \A i \in 1 .. PathLen(w - 1) : walks'[i - 1][w - 1] = walks[i - 1][w - 1]
    <3>1. ASSUME NEW i \in 1 .. PathLen(w - 1) PROVE i - 1 \in 0 .. WalkLen - 1
      BY <1>2, <1>8
    <3> QED
      BY <1>4, <2>1, <3>1
  <2>4. Long(w) = [i \in 1 .. PathLen(w - 1) |-> walks[i - 1][w - 1]]
    BY <2>2, <2>3
  <2> QED
    BY <1>7, <1>9, <2>4
<1>11. ASSUME NEW w \in moving
       PROVE  \E to \in Neighbors[Paths[w][Len(Paths[w])]] : Paths'[w] = Append(Paths[w], to)
  <2> DEFINE v == w - 1
             to == walks'[step][v]
             long == Paths'[w]
             short == Paths[w]
  <2>1. w \in 1 .. active /\ v \in TaskWalkers(t) /\ v \in Walkers
    BY <1>3
  <2>2. PathLen(v) = step /\ PathLen(v)' = step + 1
    BY <1>5, <2>1
  <2>3. to \in Neighbors[walks[step - 1][v]] /\ to \in Vertices
    <3>1. to = msgs[t][UpdateSlot(t, v)]
      BY <1>2, <1>4, <2>1
    <3>2. UpdateSlot(t, v) = Slot(t, v)
      BY <1>2, <2>1, UpdateSlotIs
    <3>3. msgs[t][Slot(t, v)] \in Neighbors[walks[step - 1][v]]
      BY <1>1, <1>2, <2>1 DEF SolverIInv, MessagesFollow, Moved
    <3>4. to \in Vertices
      BY <1>2, <1>3, <2>1
    <3> QED
      BY <3>1, <3>2, <3>3, <3>4
  <2>4. short \in Seq(Vertices) /\ Len(short) = step /\ \A i \in 1 .. step : short[i] = walks[i - 1][v]
    BY <1>7, <2>1, <2>2
  <2>5. /\ long = [i \in 1 .. step + 1 |-> walks'[i - 1][v]]
        /\ \A i \in 1 .. step + 1 : walks'[i - 1][v] \in Vertices
    <3>1. long = [i \in 1 .. step + 1 |-> walks'[i - 1][v]]
      BY <1>9, <2>1, <2>2
    <3>2. step + 1 \in Nat /\ step + 1 <= WalkLen
      BY <1>2
    <3> QED
      BY <1>3, <2>1, <3>1, <3>2, PathIs
  <2>6. ASSUME NEW i \in 1 .. step PROVE walks'[i - 1][v] = walks[i - 1][v]
    <3>1. i - 1 \in 0 .. WalkLen - 1 /\ i - 1 # step
      BY <1>2
    <3> QED
      BY <1>4, <2>1, <3>1
  <2> HIDE DEF short, v
  <2>7. long \in Seq(Vertices) /\ Len(long) = step + 1 /\ long[step + 1] = to /\ \A i \in 1 .. step : long[i] = short[i]
    <3> DEFINE n == step + 1
    <3>1. n \in Nat /\ n - 1 = step /\ n \in 1 .. n /\ \A i \in 1 .. step : i \in 1 .. n
      BY <1>2
    <3>2. long \in [1 .. n -> Vertices]
      BY <2>5
    <3>3. long[n] = to
      BY <2>5, <3>1
    <3>4. \A i \in 1 .. step : long[i] = short[i]
      BY <2>4, <2>5, <2>6, <3>1
    <3> HIDE DEF n, long
    <3>5. long \in Seq(Vertices) /\ Len(long) = n
      BY <3>1, <3>2
    <3> QED
      BY <3>3, <3>4, <3>5 DEF n
  <2> HIDE DEF long, to
  <2>8. long = Append(short, to)
    BY <2>3, <2>4, <2>7, PathAppended
  <2>9. short[Len(short)] = walks[step - 1][v]
    BY <1>2, <2>4
  <2> QED
    BY <2>3, <2>8, <2>9 DEF short, long
<1>12. ASSUME NEW w \in moving
       PROVE  Len(Paths[w]) < WalkLen /\ \A x \in DOMAIN Paths : Len(Paths[w]) <= Len(Paths[x])
  <2>1. w \in 1 .. active /\ Len(Paths[w]) = step
    BY <1>5, <1>7
  <2>2. \A x \in DOMAIN Paths : Len(Paths[x]) \in {step, step + 1}
    BY <1>7, <1>8
  <2> QED
    BY <1>2, <2>1, <2>2
<1>13. moving \in SUBSET DOMAIN Paths /\ DOMAIN Paths' = DOMAIN Paths /\ Waiting' = Waiting
  BY <1>1, <1>7, <1>9 DEF Waiting
<1> HIDE DEF moving
<1>14. CASE moving = {}
  <2>1. Paths' = Paths
    <3>1. \A w \in 1 .. active : Paths'[w] = Paths[w]
      BY <1>10, <1>14
    <3>2. Paths' = [w \in 1 .. active |-> Paths'[w]]
      BY <1>1 DEF Paths
    <3> QED
      BY <1>7, <3>1, <3>2
  <2> QED
    BY <1>1, <1>13, <2>1, StutterRefines
<1>15. CASE moving # {}
  <2>1. \E m \in SUBSET DOMAIN Paths :
          /\ m # {}
          /\ \A w \in m :
                /\ Len(Paths[w]) < WalkLen
                /\ \A v \in DOMAIN Paths : Len(Paths[w]) <= Len(Paths[v])
          /\ DOMAIN Paths' = DOMAIN Paths
          /\ \A w \in DOMAIN Paths :
                IF w \in m
                THEN \E to \in Neighbors[Paths[w][Len(Paths[w])]] : Paths'[w] = Append(Paths[w], to)
                ELSE Paths'[w] = Paths[w]
    <3> moving \in SUBSET DOMAIN Paths
      BY <1>13
    <3> WITNESS moving \in SUBSET DOMAIN Paths
    <3> QED
      BY <1>7, <1>10, <1>11, <1>12, <1>13, <1>15
  <2> QED
    BY <1>1, <1>13, <2>1 DEF Walk!RWAdvance, Waiting, Paths
<1> QED
  BY <1>14, <1>15

\* Every step of the solver is one of RandomWalk or leaves it where it is.
LEMMA StepRefines ==
    SolverIInv /\ SolverIInv' /\ [SolverNext]_solverVars => [Walk!RWNext]_(Walk!rwVars)
<1> SUFFICES ASSUME SolverIInv, SolverIInv', [SolverNext]_solverVars PROVE Walk!RWNext \/ UNCHANGED Walk!rwVars
  OBVIOUS
<1>1. CASE BeginEpoch
  BY <1>1, BeginEpochRefines DEF Walk!RWNext
<1>2. CASE BeginShuffle
  BY <1>2, QuietStep DEF BeginShuffle, Enter
<1>3. CASE BeginWalk
  BY <1>3, QuietStep DEF BeginWalk, Enter
<1>4. CASE EndWalk
  <2>1. phase = "walk" /\ done = {}
    BY <1>4 DEF EndWalk, Enter, SolverIInv, StepInWalk
  <2> QED
    BY <1>4, <2>1, QuietStep DEF EndWalk, Enter
<1>5. CASE EndStep
  BY <1>5, EndStepRefines
<1>6. CASE Deliver
  BY <1>6, DeliverRefines DEF Walk!RWNext
<1>7. ASSUME NEW t \in Team, ShuffleTask(t) PROVE UNCHANGED Walk!rwVars
  BY <1>7, QuietStep DEF ShuffleTask
<1>8. ASSUME NEW t \in Team, ClaimPartition(t) PROVE UNCHANGED Walk!rwVars
  <2>1. phase = "walk"
    BY <1>8, InRegion DEF SolverIInv, ClaimPartition, Claim, DrawTicket, LeaveLoop, TakeHighEnd, TakeLowEnd, Goto
  <2> QED
    BY <1>8, <2>1, QuietStep DEF ClaimPartition, epochVars
<1>9. ASSUME NEW t \in Team, WalkPartition(t) PROVE UNCHANGED Walk!rwVars
  <2>1. phase = "walk"
    BY <1>9, InRegion DEF SolverIInv, WalkPartition, FinishPartition, Goto
  <2> QED
    BY <1>9, <2>1, QuietStep DEF WalkPartition, epochVars
<1>10. ASSUME NEW t \in Team, UpdateTask(t) PROVE Walk!RWNext \/ UNCHANGED Walk!rwVars
  BY <1>10, UpdateTaskRefines DEF Walk!RWNext
<1>11. CASE UNCHANGED solverVars
  <2>1. UNCHANGED <<phase, rest, terminated, active, step, walks, done, taskBegin, taskEnd>>
    BY <1>11 DEF solverVars, epochVars, taskVars
  <2>2. Waiting' = Waiting /\ Paths' = Paths
    BY <2>1 DEF Waiting, Paths, PathLen, TaskWalkers
  <2> QED
    BY <2>1, <2>2, StutterRefines
<1> QED
  BY <1>1, <1>2, <1>3, <1>4, <1>5, <1>6, <1>7, <1>8, <1>9, <1>10, <1>11 DEF SolverNext, Master, TeamStep, Finished

\* Nothing is delivered at the start, and nobody walks.
LEMMA InitRefines == SolverInit => Walk!RWInit
  BY DEF SolverInit, Walk!RWInit

(***************************************************************************)
(* The solver implements RandomWalk: whatever the order of the threads,    *)
(* each walker's path grows by one neighbour of its end in each lock step, *)
(* and every walker's full path is delivered once.                         *)
(***************************************************************************)
THEOREM SolverRefines == SolverSpec => ImplementsRandomWalk
  BY InitRefines, StepRefines, SolverInvariant, PTL DEF SolverSpec, ImplementsRandomWalk, Walk!RWSpec
=============================================================================
