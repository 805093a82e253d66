------------------------ MODULE WalkerManagerProofs ------------------------
(***************************************************************************)
(* Of WalkerManager::init: that the ranges of the threads tile the         *)
(* walkers, for every team, every number of walkers and every alignment.   *)
(* Of process_walkers: that the threads which draw chunks from one         *)
(* another's ranges process every active walker once, for every chunk      *)
(* size, as long as the counters do not wrap.                              *)
(***************************************************************************)
EXTENDS WalkerManager, CommonProofs, FiniteSetTheorems

(***************************************************************************)
(* init.  The invariant follows the two loops.  What is placed so far is a *)
(* prefix of the walkers, cut into ranges in the order of their owners; a  *)
(* range ends on a whole page (cache line) or where there is nothing left  *)
(* to place, so that a later range that holds anything starts on one.      *)
(***************************************************************************)
PlacedSockets == IF phase = "sockets" THEN 0 .. next - 1 ELSE Sockets
PlacedThreads == IF phase = "sockets" THEN {} ELSE
                 IF phase = "threads" THEN 0 .. next - 1 ELSE Team

\* The first walker that is not placed yet, in either loop.
SocketFrontier == IF phase # "sockets" THEN maxWalkers ELSE IF next = 0 THEN 0 ELSE socketEnd[next - 1]
ThreadFrontier == IF phase = "ready" THEN maxWalkers ELSE
                  IF phase = "sockets" \/ next = 0 THEN 0 ELSE threadEnd[next - 1]

OfSocket(s, w) == socketBegin[s] <= w /\ w < socketEnd[s]
OfThread(t, w) == threadBegin[t] <= w /\ w < threadEnd[t]

LoopVariable ==
    /\ phase = "sockets" => next <= SocketNum
    /\ phase = "threads" => next <= ThreadNum
    /\ phase = "sockets" => SocketFrontier = maxWalkers - remain
    /\ phase = "sockets" /\ next = SocketNum => remain = 0
    /\ phase = "threads" /\ next > 0 =>
         /\ remain = socketEnd[SocketId(next - 1)] - threadEnd[next - 1]
         /\ SocketOffset(next - 1) + 1 = SocketThreadNum => remain = 0

SocketRanges == \A s \in PlacedSockets :
    /\ socketBegin[s] = IF s = 0 THEN 0 ELSE socketEnd[s - 1]
    /\ socketBegin[s] <= socketEnd[s] /\ socketEnd[s] <= SocketFrontier
    /\ socketEnd[s] % PageWalkers = 0 \/ socketEnd[s] = maxWalkers
    /\ socketBegin[s] < socketEnd[s] => socketBegin[s] % PageWalkers = 0

LastSocket == phase # "sockets" => socketEnd[SocketNum - 1] = maxWalkers

ThreadRanges == \A t \in PlacedThreads :
    /\ socketBegin[SocketId(t)] <= threadBegin[t] /\ threadBegin[t] <= threadEnd[t]
    /\ threadEnd[t] <= socketEnd[SocketId(t)] /\ threadEnd[t] <= ThreadFrontier
    /\ threadEnd[t] % AlignWalkers = 0 \/ threadEnd[t] = socketEnd[SocketId(t)]
    /\ threadBegin[t] < threadEnd[t] => threadBegin[t] % AlignWalkers = 0

ThreadsOrdered == \A t, u \in PlacedThreads : t < u => threadEnd[t] <= threadBegin[u]

ThreadsCover == \A w \in 0 .. ThreadFrontier - 1 : \E t \in PlacedThreads : OfThread(t, w)

\* The loop of process_walkers: it is entered after init, and ends with the last range.
LoopBounds ==
    /\ phase # "ready" => \A t \in Team : pc[t] = "serial"
    /\ \A t \in Team : /\ pc[t] \in {"start", "barrier", "complete"} => visit[t] = 0
                       /\ pc[t] \in {"check", "claim", "process"} => visit[t] < ThreadNum

PlacementIInv ==
    /\ WalkerTypeOK
    /\ LoopVariable
    /\ SocketRanges
    /\ LastSocket
    /\ ThreadRanges
    /\ ThreadsOrdered
    /\ ThreadsCover
    /\ LoopBounds
-----------------------------------------------------------------------------
(* Multiples of a unit.                                                    *)

\* The sum of two multiples is one.
LEMMA MultipleAdd ==
    ASSUME NEW u \in Nat \ {0}, NEW a \in Nat, NEW b \in Nat, a % u = 0, b % u = 0
    PROVE  (a + b) % u = 0
<1> DEFINE q == a \div u
           r == b \div u
<1>1. q \in Nat /\ r \in Nat /\ a = u * q /\ b = u * r
  BY DivMod
<1> HIDE DEF q, r
<1>2. a + b = u * (q + r) + 0 /\ q + r \in Nat /\ 0 \in 0 .. u - 1
  BY <1>1, Z3
<1> QED
  BY <1>2, DivUnique

\* What RoundDown returns is a multiple.
LEMMA RoundDownMultiple ==
    ASSUME NEW u \in Nat \ {0}, NEW n \in Nat
    PROVE  RoundDown(n, u) \in Nat /\ RoundDown(n, u) % u = 0
<1> DEFINE q == n \div u
<1>1. q \in Nat
  BY DivMod
<1> HIDE DEF q
<1>2. q * u \in Nat /\ q * u = u * q + 0 /\ 0 \in 0 .. u - 1
  BY <1>1, Z3
<1>3. (q * u) % u = 0
  BY <1>1, <1>2, DivUnique
<1> QED
  BY <1>2, <1>3 DEF RoundDown, q

\* A multiple of a multiple of v is a multiple of v: whole pages are whole cache lines.
LEMMA MultipleTransitive ==
    ASSUME NEW v \in Nat \ {0}, NEW u \in Nat \ {0}, NEW a \in Nat, u % v = 0, a % u = 0
    PROVE  a % v = 0
<1> DEFINE q == a \div u
           r == u \div v
<1>1. q \in Nat /\ r \in Nat /\ a = u * q /\ u = v * r
  BY DivMod
<1> HIDE DEF q, r
<1>2. a = v * (r * q) + 0 /\ r * q \in Nat /\ 0 \in 0 .. v - 1
  BY <1>1, Z3
<1> QED
  BY <1>2, DivUnique

\* Nothing is a multiple of every unit.
LEMMA ZeroMultiple == ASSUME NEW u \in Nat \ {0} PROVE 0 % u = 0
  BY Z3

\* The shares that init gives out are numbers of whole pages, and of whole cache lines.
LEMMA Hints ==
    ASSUME maxWalkers \in WalkerNums
    PROVE  /\ maxWalkers \in Nat /\ maxWalkers < Word
           /\ HintSocket \in Nat /\ HintSocket % PageWalkers = 0
           /\ HintThread \in Nat /\ HintThread % AlignWalkers = 0
<1>1. maxWalkers \in Nat /\ maxWalkers < Word
  BY WalkerAssumption
<1>2. maxWalkers \div SocketNum \in Nat /\ maxWalkers \div ThreadNum \in Nat
  BY <1>1, DivMod, ThreadsAssumption
<1> QED
  BY <1>1, <1>2, RoundDownMultiple, WalkerAssumption DEF HintSocket, HintThread
-----------------------------------------------------------------------------
\* Before the first socket nothing is placed.
LEMMA WalkerInitInv == WalkerInit => PlacementIInv
<1> SUFFICES ASSUME WalkerInit PROVE PlacementIInv
  OBVIOUS
<1> USE DEF WalkerInit
<1>0. maxWalkers \in Nat /\ maxWalkers < Word /\ ThreadNum \in Nat \ {0} /\ SocketNum \in Nat \ {0} /\ Word \in Nat \ {0}
  BY Hints, ThreadsAssumption, WalkerAssumption
<1>1. WalkerTypeOK
  <2>1. /\ phase \in {"sockets", "threads", "ready"} /\ next \in Nat /\ maxWalkers \in WalkerNums
        /\ remain \in 0 .. maxWalkers /\ active \in 0 .. maxWalkers
    BY <1>0
  <2>2. /\ socketBegin \in [Sockets -> 0 .. maxWalkers] /\ socketEnd \in [Sockets -> 0 .. maxWalkers]
        /\ threadBegin \in [Team -> 0 .. maxWalkers]    /\ threadEnd \in [Team -> 0 .. maxWalkers]
        /\ curr \in [Team -> 0 .. Word - 1] /\ end \in [Team -> 0 .. maxWalkers]
        /\ visit \in [Team -> 0 .. ThreadNum] /\ work \in [Team -> 0 .. Word - 1]
    BY <1>0
  <2>3. /\ pc \in [Team -> LoopLocations] /\ status \in [Team -> {"TWORKING", "TCOMPLETE"}]
        /\ calls \in [0 .. maxWalkers - 1 -> Nat]
    BY DEF LoopLocations
  <2> QED
    BY <2>1, <2>2, <2>3 DEF WalkerTypeOK
<1>2. LoopVariable
  BY <1>0 DEF LoopVariable, SocketFrontier
<1>3. PlacedSockets = {} /\ PlacedThreads = {} /\ ThreadFrontier = 0
  BY DEF PlacedSockets, PlacedThreads, ThreadFrontier
<1>4. SocketRanges /\ LastSocket /\ ThreadRanges /\ ThreadsOrdered /\ ThreadsCover
  BY <1>3 DEF SocketRanges, LastSocket, ThreadRanges, ThreadsOrdered, ThreadsCover
<1>5. LoopBounds
  BY DEF LoopBounds
<1> QED
  BY <1>1, <1>2, <1>4, <1>5 DEF PlacementIInv

\* A socket gets whole pages after those before it, or all that is left.
LEMMA PlaceSocketInv == PlacementIInv /\ PlaceSocket => PlacementIInv'
<1> SUFFICES ASSUME PlacementIInv, PlaceSocket PROVE PlacementIInv'
  OBVIOUS
<1> DEFINE begin == IF next = 0 THEN 0 ELSE socketEnd[next - 1]
           size  == IF next + 1 = SocketNum THEN remain ELSE Least(HintSocket, remain)
<1>0. /\ phase = "sockets" /\ phase' = "sockets"
      /\ next \in Sockets /\ next \in Nat /\ next < SocketNum /\ next' = next + 1 /\ SocketNum \in Nat
  BY ThreadsAssumption DEF PlaceSocket, PlacementIInv, WalkerTypeOK, Sockets
<1>1. /\ maxWalkers' = maxWalkers /\ maxWalkers \in Nat /\ remain \in Nat /\ remain <= maxWalkers
      /\ PageWalkers \in Nat \ {0}
  BY Hints, WalkerAssumption DEF PlaceSocket, PlacementIInv, WalkerTypeOK
<1>2. begin = maxWalkers - remain /\ begin = SocketFrontier
  BY <1>0 DEF PlacementIInv, LoopVariable, SocketFrontier
<1>3. size \in Nat /\ size <= remain /\ (size % PageWalkers = 0 \/ size = remain)
  <2>1. HintSocket \in Nat /\ HintSocket % PageWalkers = 0
    BY Hints DEF PlacementIInv, WalkerTypeOK
  <2> HIDE DEF HintSocket
  <2> QED
    BY <1>1, <2>1 DEF Least
<1>4. next + 1 = SocketNum => size = remain
  OBVIOUS
<1>5. begin % PageWalkers = 0 \/ begin = maxWalkers
  <2>1. CASE next = 0
    BY <2>1, <1>1, ZeroMultiple
  <2>2. CASE next # 0
    <3>1. next - 1 \in PlacedSockets
      BY <2>2, <1>0 DEF PlacedSockets
    <3> QED
      BY <3>1, <2>2, <1>0 DEF PlacementIInv, SocketRanges
  <2> QED
    BY <2>1, <2>2
<1>6. /\ socketBegin' = [socketBegin EXCEPT ![next] = begin]
      /\ socketEnd' = [socketEnd EXCEPT ![next] = begin + size]
      /\ remain' = remain - size
      /\ UNCHANGED <<threadBegin, threadEnd, pc, active, curr, end, status, visit, work, calls>>
  BY DEF PlaceSocket, loopVars
<1> HIDE DEF begin, size
<1>7. begin \in 0 .. maxWalkers /\ begin + size \in 0 .. maxWalkers /\ remain - size \in 0 .. maxWalkers
  BY <1>1, <1>2, <1>3
<1>8. WalkerTypeOK'
  <2>1. socketBegin' \in [Sockets -> 0 .. maxWalkers] /\ socketEnd' \in [Sockets -> 0 .. maxWalkers]
    BY <1>0, <1>6, <1>7 DEF PlacementIInv, WalkerTypeOK
  <2>2. /\ phase' \in {"sockets", "threads", "ready"} /\ next' \in Nat /\ maxWalkers' = maxWalkers
        /\ remain' \in 0 .. maxWalkers
    BY <1>0, <1>1, <1>6, <1>7
  <2> QED
    BY <2>1, <2>2, <1>6 DEF PlacementIInv, WalkerTypeOK
<1>9. /\ socketBegin'[next] = begin /\ socketEnd'[next] = begin + size
      /\ \A s \in Sockets : s # next => socketBegin'[s] = socketBegin[s] /\ socketEnd'[s] = socketEnd[s]
  BY <1>0, <1>6 DEF PlacementIInv, WalkerTypeOK
<1>10. SocketFrontier' = begin + size
  BY <1>0, <1>9 DEF SocketFrontier
<1>11. LoopVariable'
  BY <1>0, <1>1, <1>2, <1>3, <1>4, <1>6, <1>10 DEF LoopVariable
<1>12. PlacedSockets = 0 .. next - 1 /\ PlacedSockets' = 0 .. next /\ PlacedThreads = {} /\ PlacedThreads' = {}
  BY <1>0 DEF PlacedSockets, PlacedThreads
<1>13. (begin + size) % PageWalkers = 0 \/ begin + size = maxWalkers
  <2>1. CASE begin = maxWalkers \/ size = remain
    BY <2>1, <1>1, <1>2, <1>3
  <2>2. CASE begin % PageWalkers = 0 /\ size % PageWalkers = 0
    <3>1. begin \in Nat /\ begin % PageWalkers = 0 /\ size % PageWalkers = 0
      BY <2>2, <1>1, <1>7
    <3> QED
      BY <3>1, <1>1, <1>3, MultipleAdd
  <2> QED
    BY <2>1, <2>2, <1>3, <1>5
<1>14. SocketRanges'
  <2> SUFFICES ASSUME NEW s \in 0 .. next
               PROVE  /\ socketBegin'[s] = IF s = 0 THEN 0 ELSE socketEnd'[s - 1]
                      /\ socketBegin'[s] <= socketEnd'[s] /\ socketEnd'[s] <= begin + size
                      /\ socketEnd'[s] % PageWalkers = 0 \/ socketEnd'[s] = maxWalkers
                      /\ socketBegin'[s] < socketEnd'[s] => socketBegin'[s] % PageWalkers = 0
    BY <1>1, <1>10, <1>12 DEF SocketRanges
  <2>0. s \in Nat /\ s \in Sockets /\ (s # 0 => s - 1 \in Sockets /\ s - 1 # next)
    BY <1>0 DEF Sockets
  <2>1. CASE s = next
    <3>1. socketBegin'[s] = IF s = 0 THEN 0 ELSE socketEnd'[s - 1]
      BY <2>0, <2>1, <1>9 DEF begin
    <3> QED
      BY <3>1, <2>1, <1>1, <1>2, <1>3, <1>5, <1>7, <1>9, <1>13
  <2>2. CASE s # next
    <3>1. s \in PlacedSockets
      BY <2>0, <2>2, <1>0, <1>12
    <3>2. /\ socketBegin[s] = IF s = 0 THEN 0 ELSE socketEnd[s - 1]
          /\ socketBegin[s] <= socketEnd[s] /\ socketEnd[s] <= begin
          /\ socketEnd[s] % PageWalkers = 0 \/ socketEnd[s] = maxWalkers
          /\ socketBegin[s] < socketEnd[s] => socketBegin[s] % PageWalkers = 0
      BY <3>1, <1>2 DEF PlacementIInv, SocketRanges
    <3>3. socketEnd[s] \in Nat
      BY <2>0, <1>1 DEF PlacementIInv, WalkerTypeOK
    <3> QED
      BY <3>2, <3>3, <2>0, <2>2, <1>3, <1>7, <1>9
  <2> QED
    BY <2>1, <2>2
<1>15. LastSocket' /\ ThreadRanges' /\ ThreadsOrdered'
  BY <1>0, <1>12 DEF LastSocket, ThreadRanges, ThreadsOrdered
<1>16. ThreadsCover'
  BY <1>0 DEF ThreadsCover, ThreadFrontier
<1>17. LoopBounds'
  BY <1>0, <1>6 DEF PlacementIInv, LoopBounds
<1> QED
  BY <1>8, <1>11, <1>14, <1>15, <1>16, <1>17 DEF PlacementIInv

\* The last socket ends where the walkers do.
LEMMA SocketsPlacedInv == PlacementIInv /\ SocketsPlaced => PlacementIInv'
<1> SUFFICES ASSUME PlacementIInv, SocketsPlaced PROVE PlacementIInv'
  OBVIOUS
<1>1. /\ phase = "sockets" /\ phase' = "threads" /\ next = SocketNum /\ next' = 0
      /\ UNCHANGED <<remain, maxWalkers, socketBegin, socketEnd, threadBegin, threadEnd>>
      /\ UNCHANGED <<pc, active, curr, end, status, visit, work, calls>>
  BY DEF SocketsPlaced, loopVars
<1>2. SocketNum \in Nat \ {0} /\ ThreadNum \in Nat /\ maxWalkers \in Nat
  BY Hints, ThreadsAssumption DEF PlacementIInv, WalkerTypeOK
<1>3. WalkerTypeOK'
  BY <1>1, <1>2 DEF PlacementIInv, WalkerTypeOK
<1>4. LoopVariable'
  BY <1>1, <1>2 DEF LoopVariable
<1>5. SocketFrontier = maxWalkers /\ SocketFrontier' = maxWalkers /\ socketEnd[SocketNum - 1] = maxWalkers
  BY <1>1, <1>2 DEF PlacementIInv, LoopVariable, SocketFrontier
<1>6. PlacedSockets = Sockets /\ PlacedSockets' = Sockets
  BY <1>1 DEF PlacedSockets, Sockets
<1>7. SocketRanges' /\ LastSocket'
  BY <1>1, <1>5, <1>6 DEF PlacementIInv, SocketRanges, LastSocket
<1>8. PlacedThreads' = {} /\ ThreadFrontier' = 0
  BY <1>1 DEF PlacedThreads, ThreadFrontier
<1>9. ThreadRanges' /\ ThreadsOrdered' /\ ThreadsCover'
  BY <1>8 DEF ThreadRanges, ThreadsOrdered, ThreadsCover
<1>10. LoopBounds'
  BY <1>1 DEF PlacementIInv, LoopBounds
<1> QED
  BY <1>3, <1>4, <1>7, <1>9, <1>10 DEF PlacementIInv

\* A thread starts where the one before it ended, also across the border of two sockets.
LEMMA ThreadBeginIsFrontier ==
    ASSUME PlacementIInv, phase = "threads", next < ThreadNum
    PROVE  LET s == SocketId(next)
               first == SocketOffset(next) = 0
           IN  /\ (IF first THEN socketBegin[s] ELSE threadEnd[next - 1]) = ThreadFrontier
               /\ (IF first THEN socketEnd[s] - socketBegin[s] ELSE remain) = socketEnd[s] - ThreadFrontier
               /\ socketBegin[s] <= ThreadFrontier /\ ThreadFrontier <= socketEnd[s]
               /\ ThreadFrontier % AlignWalkers = 0 \/ ThreadFrontier = socketEnd[s]
<1> DEFINE s == SocketId(next)
<1>1. /\ maxWalkers \in Nat /\ AlignWalkers \in Nat \ {0} /\ PageWalkers \in Nat \ {0}
      /\ PageWalkers % AlignWalkers = 0 /\ SocketThreadNum \in Nat \ {0} /\ SocketNum \in Nat
  BY Hints, WalkerAssumption, TeamSize, ThreadsAssumption DEF PlacementIInv, WalkerTypeOK
<1>2. next \in Nat /\ next \in Team /\ s \in Sockets
  <2>1. next \in Nat /\ next \in Team
    BY ThreadsAssumption DEF PlacementIInv, WalkerTypeOK, Team
  <2> QED
    BY <2>1, SocketIdType
<1>3. /\ socketBegin[s] = IF s = 0 THEN 0 ELSE socketEnd[s - 1]
      /\ socketBegin[s] <= socketEnd[s]
      /\ socketBegin[s] < socketEnd[s] => socketBegin[s] % PageWalkers = 0
  BY <1>2 DEF PlacementIInv, SocketRanges, PlacedSockets
<1>4. socketBegin[s] \in Nat /\ socketEnd[s] \in Nat
  BY <1>1, <1>2 DEF PlacementIInv, WalkerTypeOK
<1>5. socketBegin[s] % AlignWalkers = 0 \/ socketBegin[s] = socketEnd[s]
  BY <1>1, <1>3, <1>4, MultipleTransitive
<1>6. CASE next = 0
  <2>1. s = 0 /\ SocketOffset(next) = 0
    BY <1>6, FirstThread
  <2>2. ThreadFrontier = 0
    BY <1>6 DEF ThreadFrontier
  <2> QED
    BY <2>1, <2>2, <1>3, <1>4, <1>5
<1>7. CASE next # 0
  <2> DEFINE p == next - 1
  <2>1. p \in Nat /\ p + 1 = next /\ p \in PlacedThreads /\ p \in Team
    BY <1>2, <1>7, ThreadsAssumption DEF PlacedThreads, Team
  <2>2. ThreadFrontier = threadEnd[p]
    BY <1>7 DEF ThreadFrontier
  <2>3. /\ remain = socketEnd[SocketId(p)] - threadEnd[p]
        /\ SocketOffset(p) + 1 = SocketThreadNum => remain = 0
    BY <1>2, <1>7 DEF PlacementIInv, LoopVariable
  <2>4. /\ socketBegin[SocketId(p)] <= threadBegin[p] /\ threadBegin[p] <= threadEnd[p]
        /\ threadEnd[p] <= socketEnd[SocketId(p)]
        /\ threadEnd[p] % AlignWalkers = 0 \/ threadEnd[p] = socketEnd[SocketId(p)]
    BY <2>1 DEF PlacementIInv, ThreadRanges
  <2>5. SocketId(p) \in Sockets /\ SocketOffset(p) \in 0 .. SocketThreadNum - 1
    BY <2>1, SocketIdType, SocketOffsetType
  <2>6. threadEnd[p] \in Nat /\ threadBegin[p] \in Nat /\ socketEnd[SocketId(p)] \in Nat /\ socketBegin[SocketId(p)] \in Nat
    BY <1>1, <2>1, <2>5 DEF PlacementIInv, WalkerTypeOK
  <2>7. CASE SocketOffset(p) + 1 = SocketThreadNum
    <3>1. s = SocketId(p) + 1 /\ SocketOffset(next) = 0
      BY <2>1, <2>7, NextThread
    <3>2. s # 0 /\ s - 1 = SocketId(p) /\ remain = 0
      BY <3>1, <2>3, <2>5, <2>7 DEF Sockets
    <3>3. socketBegin[s] = threadEnd[p]
      BY <3>2, <2>3, <2>6, <1>3
    <3> QED
      BY <3>1, <3>3, <2>2, <1>3, <1>4, <1>5
  <2>8. CASE SocketOffset(p) + 1 # SocketThreadNum
    <3>1. s = SocketId(p) /\ SocketOffset(next) = SocketOffset(p) + 1
      BY <2>1, <2>8, NextThread
    <3>2. SocketOffset(next) # 0
      BY <3>1, <2>5, <1>1
    <3> QED
      BY <3>1, <3>2, <2>2, <2>3, <2>4, <2>6
  <2> QED
    BY <2>7, <2>8
<1> QED
  BY <1>6, <1>7

\* A thread gets whole cache lines after those before it, or all that its socket has left.
LEMMA PlaceThreadInv == PlacementIInv /\ PlaceThread => PlacementIInv'
<1> SUFFICES ASSUME PlacementIInv, PlaceThread PROVE PlacementIInv'
  OBVIOUS
<1> DEFINE s     == SocketId(next)
           first == SocketOffset(next) = 0
           left  == IF first THEN socketEnd[s] - socketBegin[s] ELSE remain
           begin == IF first THEN socketBegin[s] ELSE threadEnd[next - 1]
           size  == IF SocketOffset(next) + 1 = SocketThreadNum THEN left ELSE Least(HintThread, left)
<1>0. /\ phase = "threads" /\ phase' = "threads"
      /\ next \in Team /\ next \in Nat /\ next < ThreadNum /\ next' = next + 1 /\ ThreadNum \in Nat
  BY ThreadsAssumption DEF PlaceThread, PlacementIInv, WalkerTypeOK, Team
<1>1. /\ maxWalkers' = maxWalkers /\ maxWalkers \in Nat
      /\ AlignWalkers \in Nat \ {0} /\ s \in Sockets
  BY <1>0, SocketIdType, Hints, WalkerAssumption DEF PlaceThread, PlacementIInv, WalkerTypeOK
<1>2. /\ begin = ThreadFrontier /\ left = socketEnd[s] - ThreadFrontier
      /\ socketBegin[s] <= ThreadFrontier /\ ThreadFrontier <= socketEnd[s]
      /\ ThreadFrontier % AlignWalkers = 0 \/ ThreadFrontier = socketEnd[s]
  BY <1>0, ThreadBeginIsFrontier
<1>3. socketBegin[s] \in 0 .. maxWalkers /\ socketEnd[s] \in 0 .. maxWalkers
  BY <1>1 DEF PlacementIInv, WalkerTypeOK
<1>4. next # 0 => next - 1 \in Team
  BY <1>0 DEF Team
<1>5. begin \in Nat
  BY <1>1, <1>3, <1>4, FirstThread DEF PlacementIInv, WalkerTypeOK
<1>6. /\ threadBegin' = [threadBegin EXCEPT ![next] = begin]
      /\ threadEnd' = [threadEnd EXCEPT ![next] = begin + size]
      /\ remain' = left - size
      /\ UNCHANGED <<socketBegin, socketEnd, pc, active, curr, end, status, visit, work, calls>>
  BY DEF PlaceThread, loopVars
<1>7. HintThread \in Nat /\ HintThread % AlignWalkers = 0
  BY Hints DEF PlacementIInv, WalkerTypeOK
<1>8. left \in Nat /\ left = socketEnd[s] - begin
  <2> HIDE DEF left, begin
  <2> QED
    BY <1>2, <1>3, <1>5
<1> HIDE DEF begin, left, HintThread
<1>9. /\ size \in Nat /\ size <= left /\ (size % AlignWalkers = 0 \/ size = left)
      /\ SocketOffset(next) + 1 = SocketThreadNum => size = left
  BY <1>7, <1>8 DEF Least
<1> HIDE DEF size, s, first
<1>10. /\ begin \in 0 .. maxWalkers /\ begin + size \in 0 .. maxWalkers /\ left - size \in 0 .. maxWalkers
       /\ begin + size <= socketEnd[s]
  BY <1>1, <1>3, <1>5, <1>8, <1>9
<1>11. WalkerTypeOK'
  <2>1. threadBegin' \in [Team -> 0 .. maxWalkers] /\ threadEnd' \in [Team -> 0 .. maxWalkers]
    BY <1>0, <1>6, <1>10 DEF PlacementIInv, WalkerTypeOK
  <2>2. /\ phase' \in {"sockets", "threads", "ready"} /\ next' \in Nat /\ maxWalkers' \in WalkerNums
        /\ remain' \in 0 .. maxWalkers
    BY <1>0, <1>1, <1>6, <1>10 DEF PlacementIInv, WalkerTypeOK
  <2> QED
    BY <2>1, <2>2, <1>1, <1>6 DEF PlacementIInv, WalkerTypeOK
<1>12. /\ threadBegin'[next] = begin /\ threadEnd'[next] = begin + size
       /\ \A t \in Team : t # next => threadBegin'[t] = threadBegin[t] /\ threadEnd'[t] = threadEnd[t]
  BY <1>0, <1>6 DEF PlacementIInv, WalkerTypeOK
<1>13. ThreadFrontier' = begin + size
  BY <1>0, <1>12 DEF ThreadFrontier
<1>14. PlacedThreads = 0 .. next - 1 /\ PlacedThreads' = 0 .. next /\ PlacedThreads' \subseteq Team
  BY <1>0 DEF PlacedThreads, Team
<1>15. LoopVariable'
  <2>1. remain' = socketEnd[s] - (begin + size)
    BY <1>3, <1>5, <1>6, <1>8, <1>9
  <2>2. SocketOffset(next) + 1 = SocketThreadNum => remain' = 0
    BY <1>6, <1>8, <1>9
  <2>3. next' - 1 = next
    BY <1>0
  <2> QED
    BY <2>1, <2>2, <2>3, <1>0, <1>6, <1>12 DEF LoopVariable, s
<1>16. (begin + size) % AlignWalkers = 0 \/ begin + size = socketEnd[s]
  <2>1. CASE begin = socketEnd[s] \/ size = left
    BY <2>1, <1>3, <1>5, <1>8, <1>9
  <2>2. CASE begin % AlignWalkers = 0 /\ size % AlignWalkers = 0
    BY <2>2, <1>1, <1>5, <1>9, MultipleAdd
  <2> QED
    BY <2>1, <2>2, <1>2, <1>9
<1>17. \A t \in 0 .. next - 1 :
          /\ threadEnd[t] <= begin /\ threadEnd[t] \in Nat /\ t # next /\ t \in Team
  <2> SUFFICES ASSUME NEW t \in 0 .. next - 1
               PROVE  threadEnd[t] <= begin /\ threadEnd[t] \in Nat /\ t # next /\ t \in Team
    OBVIOUS
  <2>1. t \in PlacedThreads /\ t \in Team /\ t # next
    BY <1>0, <1>14 DEF Team
  <2>2. threadEnd[t] <= begin
    BY <2>1, <1>2 DEF PlacementIInv, ThreadRanges
  <2>3. threadEnd[t] \in Nat
    BY <2>1, <1>1 DEF PlacementIInv, WalkerTypeOK
  <2> QED
    BY <2>1, <2>2, <2>3
<1>18. ThreadRanges'
  <2> SUFFICES ASSUME NEW t \in 0 .. next
               PROVE  /\ socketBegin[SocketId(t)] <= threadBegin'[t] /\ threadBegin'[t] <= threadEnd'[t]
                      /\ threadEnd'[t] <= socketEnd[SocketId(t)] /\ threadEnd'[t] <= begin + size
                      /\ threadEnd'[t] % AlignWalkers = 0 \/ threadEnd'[t] = socketEnd[SocketId(t)]
                      /\ threadBegin'[t] < threadEnd'[t] => threadBegin'[t] % AlignWalkers = 0
    BY <1>6, <1>13, <1>14 DEF ThreadRanges
  <2>1. CASE t = next
    BY <2>1, <1>2, <1>3, <1>5, <1>9, <1>10, <1>12, <1>16 DEF s
  <2>2. CASE t # next
    <3>1. t \in 0 .. next - 1
      BY <2>2, <1>0
    <3>2. /\ socketBegin[SocketId(t)] <= threadBegin[t] /\ threadBegin[t] <= threadEnd[t]
          /\ threadEnd[t] <= socketEnd[SocketId(t)]
          /\ threadEnd[t] % AlignWalkers = 0 \/ threadEnd[t] = socketEnd[SocketId(t)]
          /\ threadBegin[t] < threadEnd[t] => threadBegin[t] % AlignWalkers = 0
      BY <3>1, <1>14 DEF PlacementIInv, ThreadRanges
    <3> QED
      BY <3>1, <3>2, <1>5, <1>9, <1>12, <1>17
  <2> QED
    BY <2>1, <2>2
<1>19. ThreadsOrdered'
  <2> SUFFICES ASSUME NEW t \in 0 .. next, NEW u \in 0 .. next, t < u
               PROVE  threadEnd'[t] <= threadBegin'[u]
    BY <1>14 DEF ThreadsOrdered
  <2>1. t \in 0 .. next - 1
    BY <1>0
  <2>2. CASE u = next
    BY <2>1, <2>2, <1>12, <1>17
  <2>3. CASE u # next
    <3>1. u \in 0 .. next - 1
      BY <2>3, <1>0
    <3> QED
      BY <2>1, <3>1, <1>12, <1>14, <1>17 DEF PlacementIInv, ThreadsOrdered
  <2> QED
    BY <2>2, <2>3
<1>20. ThreadsCover'
  <2>0. ASSUME NEW w \in 0 .. begin + size - 1
        PROVE  \E t \in 0 .. next : threadBegin'[t] <= w /\ w < threadEnd'[t]
    <3>1. CASE w < begin
      <4>1. w \in 0 .. ThreadFrontier - 1
        BY <3>1, <1>2, <1>5, <1>9
      <4>2. PICK t \in 0 .. next - 1 : threadBegin[t] <= w /\ w < threadEnd[t]
        BY <4>1, <1>14 DEF PlacementIInv, ThreadsCover, OfThread
      <4> QED
        BY <4>2, <1>0, <1>12, <1>17
    <3>2. CASE w >= begin
      BY <3>2, <1>0, <1>5, <1>9, <1>12
    <3> QED
      BY <3>1, <3>2, <1>5, <1>9
  <2> QED
    BY <2>0, <1>5, <1>9, <1>13, <1>14 DEF ThreadsCover, OfThread
<1>21. SocketRanges' /\ LastSocket'
  BY <1>0, <1>1, <1>6 DEF PlacementIInv, SocketRanges, LastSocket, PlacedSockets, SocketFrontier
<1>22. LoopBounds'
  BY <1>0, <1>6 DEF PlacementIInv, LoopBounds
<1> QED
  BY <1>11, <1>15, <1>18, <1>19, <1>20, <1>21, <1>22 DEF PlacementIInv

\* The last thread ends where the walkers do.
LEMMA ThreadsPlacedInv == PlacementIInv /\ ThreadsPlaced => PlacementIInv'
<1> SUFFICES ASSUME PlacementIInv, ThreadsPlaced PROVE PlacementIInv'
  OBVIOUS
<1>1. /\ phase = "threads" /\ phase' = "ready" /\ next = ThreadNum /\ next' = next
      /\ UNCHANGED <<remain, maxWalkers, socketBegin, socketEnd, threadBegin, threadEnd>>
      /\ UNCHANGED <<pc, active, curr, end, status, visit, work, calls>>
  BY DEF ThreadsPlaced, loopVars
<1>2. ThreadNum \in Nat \ {0} /\ maxWalkers \in Nat /\ SocketNum \in Nat \ {0}
  BY Hints, ThreadsAssumption DEF PlacementIInv, WalkerTypeOK
<1>3. ThreadFrontier = maxWalkers
  <2>1. /\ remain = socketEnd[SocketId(ThreadNum - 1)] - threadEnd[ThreadNum - 1]
        /\ SocketOffset(ThreadNum - 1) + 1 = SocketThreadNum => remain = 0
    BY <1>1, <1>2 DEF PlacementIInv, LoopVariable
  <2>2. socketEnd[SocketNum - 1] = maxWalkers
    BY <1>1 DEF PlacementIInv, LastSocket
  <2>3. threadEnd[ThreadNum - 1] \in Nat
    BY <1>2, LastThread DEF PlacementIInv, WalkerTypeOK
  <2> QED
    BY <2>1, <2>2, <2>3, <1>1, <1>2, LastThread DEF ThreadFrontier
<1>4. ThreadFrontier' = maxWalkers /\ PlacedThreads = Team /\ PlacedThreads' = Team
  BY <1>1 DEF ThreadFrontier, PlacedThreads, Team
<1>5. WalkerTypeOK'
  BY <1>1 DEF PlacementIInv, WalkerTypeOK
<1>6. LoopVariable'
  BY <1>1 DEF LoopVariable
<1>7. SocketRanges' /\ LastSocket'
  BY <1>1 DEF PlacementIInv, SocketRanges, LastSocket, PlacedSockets, SocketFrontier
<1>8. ThreadRanges' /\ ThreadsOrdered' /\ ThreadsCover'
  BY <1>1, <1>3, <1>4 DEF PlacementIInv, ThreadRanges, ThreadsOrdered, ThreadsCover, OfThread
<1>9. LoopBounds'
  BY <1>1 DEF PlacementIInv, LoopBounds
<1> QED
  BY <1>5, <1>6, <1>7, <1>8, <1>9 DEF PlacementIInv
-----------------------------------------------------------------------------
\* What init has placed stays as it is in the loop.
LEMMA PlacementKept ==
    ASSUME PlacementIInv, UNCHANGED initVars
    PROVE  LoopVariable' /\ SocketRanges' /\ LastSocket' /\ ThreadRanges' /\ ThreadsOrdered' /\ ThreadsCover'
  BY DEF initVars, PlacementIInv, LoopVariable, SocketRanges, LastSocket, ThreadRanges, ThreadsOrdered,
         ThreadsCover, PlacedSockets, PlacedThreads, SocketFrontier, ThreadFrontier, OfThread

\* Every visit is to a range of the team: the socket and the offset wrap around.
LEMMA VictimAtType ==
    ASSUME NEW t \in Team, NEW i \in Nat
    PROVE  VictimAt(t, i) \in Team
<1> DEFINE k == SocketThreadNum
           n == SocketNum
           s == (SocketId(t) + (i \div k)) % n
           o == (SocketOffset(t) + (i % k)) % k
<1>1. k \in Nat \ {0} /\ n \in Nat \ {0} /\ ThreadNum = n * k
  BY TeamSize, ThreadsAssumption
<1>2. SocketId(t) \in Nat /\ SocketOffset(t) \in Nat
  BY SocketIdType, SocketOffsetType, <1>1 DEF Sockets
<1>3. i \div k \in Nat /\ i % k \in Nat
  BY <1>1, DivMod
<1>4. s \in 0 .. n - 1 /\ o \in 0 .. k - 1
  <2>1. SocketId(t) + (i \div k) \in Nat /\ SocketOffset(t) + (i % k) \in Nat
    BY <1>2, <1>3
  <2> QED
    BY <2>1, <1>1, DivMod
<1> HIDE DEF k, n, s, o
<1>5. PICK d \in Nat : n = s + 1 + d
  BY <1>1, <1>4
<1>6. n * k = s * k + k + d * k /\ s * k \in Nat /\ d * k \in Nat
  BY <1>1, <1>4, <1>5, Z3
<1>7. s * k + o \in 0 .. ThreadNum - 1
  BY <1>1, <1>4, <1>6
<1> QED
  BY <1>7 DEF VictimAt, Team, k, n, s, o

\* The thread that is in the loop is visiting a range of the team.
LEMMA VictimType == ASSUME WalkerTypeOK, NEW t \in Team PROVE Victim(t) \in Team
<1>1. visit[t] \in Nat
  BY ThreadsAssumption DEF WalkerTypeOK
<1> QED
  BY <1>1, VictimAtType DEF Victim

\* What a thread draws from keeps its width.
LEMMA DrawType ==
    ASSUME WalkerTypeOK, NEW v \in Team, Draw(v)
    PROVE  curr' \in [Team -> 0 .. Word - 1]
<1>1. curr[v] + Chunk \in Nat /\ Word \in Nat \ {0}
  BY WalkerAssumption DEF WalkerTypeOK
<1>2. (curr[v] + Chunk) % Word \in 0 .. Word - 1
  BY <1>1, DivMod
<1> QED
  BY <1>2 DEF Draw, WalkerTypeOK

\* A thread that is past its last range is at the end of the region.
LEMMA NextRangeInv ==
    ASSUME PlacementIInv, NEW t \in Team, NEW from \in {"check", "claim", "complete"}, NextRange(t, from)
    PROVE  /\ visit' \in [Team -> 0 .. ThreadNum] /\ pc' \in [Team -> LoopLocations]
           /\ \A u \in Team : /\ pc'[u] \in {"start", "barrier", "complete"} => visit'[u] = 0
                              /\ pc'[u] \in {"check", "claim", "process"} => visit'[u] < ThreadNum
<1>1. pc[t] = from /\ pc' = [pc EXCEPT ![t] = IF visit[t] + 1 = ThreadNum THEN "join" ELSE "check"]
      /\ visit' = [visit EXCEPT ![t] = @ + 1]
  BY DEF NextRange, Goto
<1>2. ThreadNum \in Nat \ {0} /\ visit[t] \in 0 .. ThreadNum /\ visit[t] < ThreadNum
  BY <1>1, ThreadsAssumption DEF PlacementIInv, WalkerTypeOK, LoopBounds
<1>3. visit' \in [Team -> 0 .. ThreadNum] /\ pc' \in [Team -> LoopLocations]
  BY <1>1, <1>2 DEF PlacementIInv, WalkerTypeOK, LoopLocations
<1>4. ASSUME NEW u \in Team
      PROVE  /\ pc'[u] \in {"start", "barrier", "complete"} => visit'[u] = 0
             /\ pc'[u] \in {"check", "claim", "process"} => visit'[u] < ThreadNum
  <2>1. CASE u = t
    <3>1. visit'[u] = visit[t] + 1 /\ pc'[u] = IF visit[t] + 1 = ThreadNum THEN "join" ELSE "check"
      BY <2>1, <1>1 DEF PlacementIInv, WalkerTypeOK
    <3> QED
      BY <3>1, <1>2
  <2>2. CASE u # t
    BY <2>2, <1>1 DEF PlacementIInv, WalkerTypeOK, LoopBounds
  <2> QED
    BY <2>1, <2>2
<1> QED
  BY <1>3, <1>4

\* No step of one thread in the loop leaves the types, or the bounds of the loop.
LEMMA RunInv == ASSUME PlacementIInv, NEW t \in Team, Run(t) PROVE PlacementIInv'
<1>1. SUFFICES UNCHANGED initVars /\ WalkerTypeOK' /\ LoopBounds'
  BY PlacementKept DEF PlacementIInv
<1>2. Victim(t) \in Team
  BY VictimType DEF PlacementIInv
<1>3. ThreadNum \in Nat \ {0} /\ maxWalkers \in Nat /\ maxWalkers < Word /\ Word \in Nat
  BY Hints, ThreadsAssumption, WalkerAssumption DEF PlacementIInv, WalkerTypeOK
<1>4. pc[t] # "serial" => phase = "ready"
  BY DEF PlacementIInv, LoopBounds
<1>5. CASE Start(t)
  <2>1. Least(threadEnd[t], active) \in 0 .. maxWalkers /\ threadBegin[t] \in 0 .. Word - 1
    BY <1>3 DEF Least, PlacementIInv, WalkerTypeOK
  <2>2. WalkerTypeOK'
    BY <2>1, <1>5 DEF Start, Goto, initVars, PlacementIInv, WalkerTypeOK, LoopLocations
  <2>3. LoopBounds'
    BY <1>4, <1>5 DEF Start, Goto, initVars, PlacementIInv, WalkerTypeOK, LoopBounds
  <2> QED
    BY <2>2, <2>3, <1>5 DEF Start
<1>6. CASE SeeWorking(t)
  <2>1. WalkerTypeOK'
    BY <1>6 DEF SeeWorking, Goto, initVars, PlacementIInv, WalkerTypeOK, LoopLocations
  <2>2. LoopBounds'
    BY <1>4, <1>6 DEF SeeWorking, Goto, initVars, PlacementIInv, WalkerTypeOK, LoopBounds
  <2> QED
    BY <2>1, <2>2, <1>6 DEF SeeWorking
<1>7. CASE SeeComplete(t)
  <2>1. NextRange(t, "check") /\ pc[t] = "check"
    BY <1>7 DEF SeeComplete, NextRange, Goto
  <2>2. WalkerTypeOK'
    BY <2>1, <1>7, NextRangeInv DEF SeeComplete, initVars, PlacementIInv, WalkerTypeOK
  <2>3. LoopBounds'
    BY <2>1, <1>4, <1>7, NextRangeInv DEF SeeComplete, initVars, LoopBounds
  <2> QED
    BY <2>2, <2>3, <1>7 DEF SeeComplete
<1>8. CASE ClaimChunk(t)
  <2>1. curr' \in [Team -> 0 .. Word - 1]
    BY <1>2, <1>8, DrawType DEF ClaimChunk, PlacementIInv
  <2>2. WalkerTypeOK'
    BY <2>1, <1>2, <1>8 DEF ClaimChunk, Goto, initVars, PlacementIInv, WalkerTypeOK, LoopLocations
  <2>3. LoopBounds'
    BY <1>4, <1>8 DEF ClaimChunk, Goto, initVars, PlacementIInv, WalkerTypeOK, LoopBounds
  <2> QED
    BY <2>2, <2>3, <1>8 DEF ClaimChunk
<1>9. CASE FindExhausted(t)
  <2>1. curr' \in [Team -> 0 .. Word - 1] /\ pc[t] = "claim"
    BY <1>2, <1>9, DrawType DEF FindExhausted, PlacementIInv
  <2>2. CASE visit[t] = 0 /\ Goto(t, "claim", "complete") /\ UNCHANGED visit
    <3>1. WalkerTypeOK'
      BY <2>1, <2>2, <1>9 DEF FindExhausted, Goto, initVars, PlacementIInv, WalkerTypeOK, LoopLocations
    <3>2. LoopBounds'
      BY <2>1, <2>2, <1>4, <1>9 DEF FindExhausted, Goto, initVars, PlacementIInv, WalkerTypeOK, LoopBounds
    <3> QED
      BY <3>1, <3>2, <1>9 DEF FindExhausted
  <2>3. CASE NextRange(t, "claim")
    <3>1. WalkerTypeOK'
      BY <2>1, <2>3, <1>9, NextRangeInv DEF FindExhausted, initVars, PlacementIInv, WalkerTypeOK
    <3>2. LoopBounds'
      BY <2>1, <2>3, <1>4, <1>9, NextRangeInv DEF FindExhausted, initVars, LoopBounds
    <3> QED
      BY <3>1, <3>2, <1>9 DEF FindExhausted
  <2> QED
    BY <2>2, <2>3, <1>9 DEF FindExhausted
<1>10. CASE MarkComplete(t)
  <2>1. NextRange(t, "complete") /\ pc[t] = "complete"
    BY <1>10 DEF MarkComplete, NextRange, Goto
  <2>2. WalkerTypeOK'
    BY <2>1, <1>10, NextRangeInv DEF MarkComplete, initVars, PlacementIInv, WalkerTypeOK
  <2>3. LoopBounds'
    BY <2>1, <1>4, <1>10, NextRangeInv DEF MarkComplete, initVars, LoopBounds
  <2> QED
    BY <2>2, <2>3, <1>10 DEF MarkComplete
<1>11. CASE ProcessChunk(t)
  <2>1. calls' \in [0 .. maxWalkers - 1 -> Nat]
    BY <1>11 DEF ProcessChunk, PlacementIInv, WalkerTypeOK
  <2>3. work' \in [Team -> 0 .. Word - 1]
    BY <1>3, <1>11 DEF ProcessChunk, PlacementIInv, WalkerTypeOK
  <2>2. WalkerTypeOK'
    BY <2>1, <2>3, <1>11 DEF ProcessChunk, Goto, initVars, PlacementIInv, WalkerTypeOK, LoopLocations
  <2>4. LoopBounds'
    BY <1>4, <1>11 DEF ProcessChunk, Goto, initVars, PlacementIInv, WalkerTypeOK, LoopBounds
  <2> QED
    BY <2>2, <2>4, <1>11 DEF ProcessChunk
<1> QED
  BY <1>5, <1>6, <1>7, <1>8, <1>9, <1>10, <1>11 DEF Run

\* The fork, the barrier and the join move the whole team.
LEMMA TeamInv ==
    ASSUME PlacementIInv, (\E a \in ActiveNums \cap (0 .. maxWalkers) : Fork(a)) \/ Barrier \/ Join
    PROVE  PlacementIInv'
<1>1. SUFFICES UNCHANGED initVars /\ WalkerTypeOK' /\ LoopBounds'
  BY PlacementKept DEF PlacementIInv
<1>2. ThreadNum \in Nat \ {0}
  BY ThreadsAssumption
<1>3. 0 \in Team
  BY FirstThread
<1>4. CASE \E a \in ActiveNums \cap (0 .. maxWalkers) : Fork(a)
  <2>1. PICK a \in 0 .. maxWalkers : Fork(a)
    BY <1>4
  <2>2. WalkerTypeOK'
    BY <2>1, <1>2 DEF Fork, initVars, PlacementIInv, WalkerTypeOK, LoopLocations
  <2>3. LoopBounds'
    BY <2>1 DEF Fork, initVars, LoopBounds
  <2> QED
    BY <2>1, <2>2, <2>3 DEF Fork
<1>5. CASE Barrier
  <2>1. WalkerTypeOK'
    BY <1>5 DEF Barrier, initVars, PlacementIInv, WalkerTypeOK, LoopLocations
  <2>2. LoopBounds'
    BY <1>2, <1>3, <1>5 DEF Barrier, initVars, PlacementIInv, WalkerTypeOK, LoopBounds
  <2> QED
    BY <2>1, <2>2, <1>5 DEF Barrier
<1>6. CASE Join
  <2>1. WalkerTypeOK'
    BY <1>6 DEF Join, initVars, PlacementIInv, WalkerTypeOK, LoopLocations
  <2>2. LoopBounds'
    BY <1>3, <1>6 DEF Join, initVars, PlacementIInv, LoopBounds
  <2> QED
    BY <2>1, <2>2, <1>6 DEF Join
<1> QED
  BY <1>4, <1>5, <1>6
-----------------------------------------------------------------------------
(***************************************************************************)
(* The invariant of init and of the loop's bounds, for every team, number  *)
(* of walkers and alignment.                                               *)
(***************************************************************************)
THEOREM PlacementInvariant == WalkerSpec => []PlacementIInv
<1>1. WalkerInit => PlacementIInv
  BY WalkerInitInv
<1>2. PlacementIInv /\ [WalkerNext]_walkerVars => PlacementIInv'
  <2> SUFFICES ASSUME PlacementIInv, [WalkerNext]_walkerVars PROVE PlacementIInv'
    OBVIOUS
  <2>1. CASE Place
    BY <2>1, PlaceSocketInv, SocketsPlacedInv, PlaceThreadInv, ThreadsPlacedInv DEF Place
  <2>2. CASE (\E a \in ActiveNums \cap (0 .. maxWalkers) : Fork(a)) \/ Barrier \/ Join
    BY <2>2, TeamInv
  <2>3. CASE \E t \in Team : Run(t)
    BY <2>3, RunInv
  <2>4. CASE UNCHANGED walkerVars
    <3>1. UNCHANGED initVars /\ UNCHANGED <<pc, active, curr, end, status, visit, work, calls>>
      BY <2>4 DEF walkerVars, loopVars
    <3>2. WalkerTypeOK' /\ LoopBounds'
      BY <3>1 DEF initVars, PlacementIInv, WalkerTypeOK, LoopBounds
    <3> QED
      BY <3>1, <3>2, PlacementKept DEF PlacementIInv
  <2> QED
    BY <2>1, <2>2, <2>3, <2>4 DEF WalkerNext
<1> QED
  BY <1>1, <1>2, PTL DEF WalkerSpec

(***************************************************************************)
(* Walker numbers and counters keep their ranges, also when a counter      *)
(* wraps around.                                                           *)
(***************************************************************************)
THEOREM WalkerTypeCorrect == WalkerSpec => []WalkerTypeOK
<1>1. PlacementIInv => WalkerTypeOK
  BY DEF PlacementIInv
<1> QED
  BY <1>1, PlacementInvariant, PTL

\* No two ranges of threads hold the same walker.
LEMMA RangesDisjoint ==
    ASSUME PlacementIInv, NEW t \in PlacedThreads, NEW u \in PlacedThreads, NEW w \in Nat,
           OfThread(t, w), OfThread(u, w)
    PROVE  t = u
<1>1. t \in Nat /\ u \in Nat /\ t \in Team /\ u \in Team
  <2>1. next \in Nat /\ ThreadNum \in Nat /\ (phase = "threads" => next <= ThreadNum)
    BY ThreadsAssumption DEF PlacementIInv, LoopVariable, WalkerTypeOK
  <2> QED
    BY <2>1 DEF PlacedThreads, Team
<1>2. maxWalkers \in Nat
  BY Hints DEF PlacementIInv, WalkerTypeOK
<1>3. /\ threadBegin[t] \in Nat /\ threadEnd[t] \in Nat
      /\ threadBegin[u] \in Nat /\ threadEnd[u] \in Nat
  BY <1>1, <1>2 DEF PlacementIInv, WalkerTypeOK
<1>4. ~ (t < u)
  BY <1>3 DEF PlacementIInv, ThreadsOrdered, OfThread
<1>5. ~ (u < t)
  BY <1>3 DEF PlacementIInv, ThreadsOrdered, OfThread
<1> QED
  BY <1>1, <1>4, <1>5

(***************************************************************************)
(* After init every walker is in the range of exactly one thread, inside   *)
(* its socket's range; ranges that hold walkers are aligned.               *)
(***************************************************************************)
THEOREM WalkersPlaced == WalkerSpec => []RangesTile
<1>1. PlacementIInv => RangesTile
  <2> SUFFICES ASSUME PlacementIInv, phase = "ready" PROVE RangesTile
    BY DEF RangesTile
  <2>1. PlacedThreads = Team /\ PlacedSockets = Sockets /\ ThreadFrontier = maxWalkers
    BY DEF PlacedThreads, PlacedSockets, ThreadFrontier
  <2>2. maxWalkers \in Nat
    BY Hints DEF PlacementIInv, WalkerTypeOK
  <2>3. ASSUME NEW w \in 0 .. maxWalkers - 1
        PROVE  \E t \in Team : /\ threadBegin[t] <= w /\ w < threadEnd[t]
                               /\ socketBegin[SocketId(t)] <= w /\ w < socketEnd[SocketId(t)]
                               /\ \A u \in Team : threadBegin[u] <= w /\ w < threadEnd[u] => u = t
    <3>1. PICK t \in Team : OfThread(t, w)
      BY <2>1 DEF PlacementIInv, ThreadsCover
    <3>2. socketBegin[SocketId(t)] <= threadBegin[t] /\ threadEnd[t] <= socketEnd[SocketId(t)]
      BY <2>1 DEF PlacementIInv, ThreadRanges
    <3>3. /\ threadBegin[t] \in Nat /\ threadEnd[t] \in Nat /\ w \in Nat
          /\ socketBegin[SocketId(t)] \in Nat /\ socketEnd[SocketId(t)] \in Nat
      BY <2>2, SocketIdType DEF PlacementIInv, WalkerTypeOK
    <3>4. \A u \in Team : OfThread(u, w) => u = t
      BY <3>1, <3>3, <2>1, RangesDisjoint
    <3> QED
      BY <3>1, <3>2, <3>3, <3>4 DEF OfThread
  <2>4. \A t \in Team : threadBegin[t] < threadEnd[t] => threadBegin[t] % AlignWalkers = 0
    BY <2>1 DEF PlacementIInv, ThreadRanges
  <2>5. \A s \in Sockets : socketBegin[s] < socketEnd[s] => socketBegin[s] % PageWalkers = 0
    BY <2>1 DEF PlacementIInv, SocketRanges
  <2> QED
    BY <2>3, <2>4, <2>5 DEF RangesTile
<1> QED
  BY <1>1, PlacementInvariant, PTL
-----------------------------------------------------------------------------
(***************************************************************************)
(* process_walkers.  Two things carry the proof.  A walker is in one of    *)
(* three states: its range's counter has not reached it, it lies in a      *)
(* chunk some thread has drawn and not processed, or it has been           *)
(* processed.  And a thread that finds a range exhausted never comes back  *)
(* to it, since it visits each range once; so the counter of a range is    *)
(* past its end by no more than one chunk per thread that has been there,  *)
(* and stays below Word.                                                   *)
(***************************************************************************)
Looping == {"check", "claim", "process", "complete", "join"}

\* Where the counter of range v stands at most before anyone finds the range exhausted.
LastDrawn(v) == IF threadBegin[v] < end[v] THEN end[v] - 1 + Chunk ELSE threadBegin[v]

\* The threads that have been through range v.
Passed(v) == {t \in Team : \/ pc[t] = "complete" /\ v = t
                           \/ \E i \in 0 .. visit[t] - 1 : VictimAt(t, i) = v}

\* The counter of range v is past walker w; thread t has w in the chunk it is about to process.
Drawn(v, w)   == threadBegin[v] <= w /\ w < end[v] /\ w < curr[v]
InChunk(t, w) == pc[t] = "process" /\ work[t] <= w /\ w < work[t] + Chunk /\ w < end[Victim(t)]

TeamTogether ==
    \/ \A t \in Team : pc[t] = "serial"
    \/ \A t \in Team : pc[t] \in {"start", "barrier"}
    \/ \A t \in Team : pc[t] \in Looping

RangeReset == \A t \in Team : pc[t] = "barrier" =>
    curr[t] = threadBegin[t] /\ end[t] = Least(threadEnd[t], active) /\ status[t] = "TWORKING"

RangeCut == \A v \in Team : pc[v] \in Looping =>
    threadBegin[v] <= curr[v] /\ end[v] = Least(threadEnd[v], active)

CounterBounded == \A v \in Team : pc[v] \in Looping =>
    curr[v] <= LastDrawn(v) + Chunk * Cardinality(Passed(v))

ChunkBehindCounter == \A t \in Team : pc[t] = "process" =>
    LET v == Victim(t)
    IN  threadBegin[v] <= work[t] /\ work[t] < end[v] /\ work[t] + Chunk <= curr[v]

ChunksApart == \A t, u \in Team :
    pc[t] = "process" /\ pc[u] = "process" /\ t # u /\ Victim(t) = Victim(u) =>
        work[t] + Chunk <= work[u] \/ work[u] + Chunk <= work[t]

OwnRangeExhausted == \A t \in Team :
    /\ pc[t] \in Looping /\ (visit[t] > 0 \/ pc[t] = "complete" \/ status[t] = "TCOMPLETE")
         => end[t] <= curr[t]
    /\ pc[t] = "join" => visit[t] > 0

CallsCounted == \A w \in 0 .. maxWalkers - 1 :
    /\ calls[w] <= 1
    /\ \A t \in Team : pc[t] \in {"start", "barrier"} => calls[w] = 0
    /\ \A t \in Team : pc[t] \in Looping =>
         calls[w] = IF (\E v \in Team : Drawn(v, w)) /\ (\A u \in Team : ~ InChunk(u, w)) THEN 1 ELSE 0

LoopIInv ==
    /\ PlacementIInv
    /\ TeamTogether
    /\ RangeReset
    /\ RangeCut
    /\ CounterBounded
    /\ ChunkBehindCounter
    /\ ChunksApart
    /\ OwnRangeExhausted
    /\ CallsCounted
-----------------------------------------------------------------------------
(* The order of the visits.                                                *)

\* Stepping around a circle of n places, fewer than n steps lead to a place each of their own.
LEMMA CircleInjective ==
    ASSUME NEW n \in Nat \ {0}, NEW a \in 0 .. n - 1, NEW i \in 0 .. n - 1, NEW j \in 0 .. n - 1,
           (a + i) % n = (a + j) % n
    PROVE  i = j
<1>1. ASSUME NEW m \in 0 .. n - 1 PROVE (a + m) % n = IF a + m < n THEN a + m ELSE a + m - n
  <2>1. CASE a + m < n
    <3>1. a + m = n * 0 + (a + m) /\ a + m \in 0 .. n - 1 /\ a + m \in Nat
      BY <2>1
    <3> QED
      BY <3>1, <2>1, DivUnique
  <2>2. CASE a + m >= n
    <3>1. a + m = n * 1 + (a + m - n) /\ a + m - n \in 0 .. n - 1 /\ a + m \in Nat
      BY <2>2
    <3> QED
      BY <3>1, <2>2, DivUnique
  <2> QED
    BY <2>1, <2>2
<1> QED
  BY <1>1

\* A thread visits its own range first.
LEMMA VictimAtOwn == ASSUME NEW t \in Team PROVE VictimAt(t, 0) = t
<1> DEFINE k == SocketThreadNum
           n == SocketNum
           s == SocketId(t)
           o == SocketOffset(t)
<1>1. k \in Nat \ {0} /\ n \in Nat \ {0}
  BY TeamSize, ThreadsAssumption
<1>2. s \in 0 .. n - 1 /\ o \in 0 .. k - 1
  BY SocketIdType, SocketOffsetType DEF Sockets
<1>3. t = k * s + o
  BY <1>1, DivMod, ThreadsAssumption DEF Team, SocketId, SocketOffset
<1> HIDE DEF k, n, s, o
<1>4. 0 \div k = 0 /\ 0 % k = 0
  <2>1. 0 = k * 0 + 0 /\ 0 \in 0 .. k - 1
    BY <1>1
  <2> QED
    BY <2>1, <1>1, DivUnique
<1>5. s % n = s /\ o % k = o
  <2>1. s = n * 0 + s /\ o = k * 0 + o /\ s \in Nat /\ o \in Nat
    BY <1>1, <1>2
  <2> QED
    BY <2>1, <1>1, <1>2, DivUnique
<1>6. s + 0 = s /\ o + 0 = o /\ s * k = k * s
  BY <1>1, <1>2, Z3
<1> QED
  BY <1>3, <1>4, <1>5, <1>6 DEF VictimAt, k, n, s, o

\* No thread visits a range twice.
LEMMA VictimAtInjective ==
    ASSUME NEW t \in Team, NEW i \in 0 .. ThreadNum - 1, NEW j \in 0 .. ThreadNum - 1,
           VictimAt(t, i) = VictimAt(t, j)
    PROVE  i = j
<1> DEFINE k == SocketThreadNum
           n == SocketNum
           s(m) == (SocketId(t) + (m \div k)) % n
           o(m) == (SocketOffset(t) + (m % k)) % k
<1>1. k \in Nat \ {0} /\ n \in Nat \ {0} /\ ThreadNum = n * k /\ ThreadNum \in Nat
  BY TeamSize, ThreadsAssumption
<1>2. SocketId(t) \in 0 .. n - 1 /\ SocketOffset(t) \in 0 .. k - 1
  BY SocketIdType, SocketOffsetType DEF Sockets
<1>3. ASSUME NEW m \in 0 .. ThreadNum - 1
      PROVE  /\ m \div k \in 0 .. n - 1 /\ m % k \in 0 .. k - 1 /\ m = k * (m \div k) + (m % k)
             /\ s(m) \in 0 .. n - 1 /\ o(m) \in 0 .. k - 1
             /\ VictimAt(t, m) = k * s(m) + o(m)
  <2>1. m \in Nat /\ m < n * k /\ n * k = k * n
    BY <1>1, Z3
  <2>2. m \div k < n /\ m \div k \in Nat /\ m % k \in 0 .. k - 1 /\ m = k * (m \div k) + (m % k)
    BY <2>1, <1>1, DivLess, DivMod
  <2>3. SocketId(t) + (m \div k) \in Nat /\ SocketOffset(t) + (m % k) \in Nat
    BY <2>2, <1>1, <1>2
  <2>4. s(m) \in 0 .. n - 1 /\ o(m) \in 0 .. k - 1
    BY <2>3, <1>1, DivMod
  <2>5. VictimAt(t, m) = s(m) * k + o(m)
    BY DEF VictimAt
  <2> HIDE DEF k, n, s, o
  <2>6. s(m) * k = k * s(m)
    BY <2>4, <1>1, Z3
  <2> QED
    BY <2>2, <2>4, <2>5, <2>6, <1>1
<1> HIDE DEF k, n
<1>4. s(i) = s(j) /\ o(i) = o(j)
  <2> DEFINE x == VictimAt(t, i)
  <2>1. x = k * s(i) + o(i) /\ x = k * s(j) + o(j)
    BY <1>3
  <2>2. s(i) \in 0 .. n - 1 /\ o(i) \in 0 .. k - 1 /\ s(j) \in 0 .. n - 1 /\ o(j) \in 0 .. k - 1
    BY <1>3
  <2> HIDE DEF x, s, o
  <2>3. x \in Nat /\ s(i) \in Nat /\ s(j) \in Nat
    <3>1. k * s(i) \in Nat
      BY <2>2, <1>1, Z3
    <3> QED
      BY <3>1, <2>1, <2>2, <1>1
  <2>4. x \div k = s(i) /\ x % k = o(i)
    BY <2>1, <2>2, <2>3, <1>1, DivUnique
  <2>5. x \div k = s(j) /\ x % k = o(j)
    BY <2>1, <2>2, <2>3, <1>1, DivUnique
  <2> QED
    BY <2>4, <2>5
<1>5. i \div k = j \div k
  <2> DEFINE a == SocketId(t)
             x == i \div k
             y == j \div k
  <2>1. x \in 0 .. n - 1 /\ y \in 0 .. n - 1 /\ (a + x) % n = (a + y) % n /\ a \in 0 .. n - 1
    BY <1>2, <1>3, <1>4
  <2> HIDE DEF a, x, y
  <2>2. x = y
    BY <2>1, <1>1, CircleInjective
  <2> QED
    BY <2>2 DEF x, y
<1>6. i % k = j % k
  <2> DEFINE a == SocketOffset(t)
             x == i % k
             y == j % k
  <2>1. x \in 0 .. k - 1 /\ y \in 0 .. k - 1 /\ (a + x) % k = (a + y) % k /\ a \in 0 .. k - 1
    BY <1>2, <1>3, <1>4
  <2> HIDE DEF a, x, y
  <2>2. x = y
    BY <2>1, <1>1, CircleInjective
  <2> QED
    BY <2>2 DEF x, y
<1> QED
  BY <1>3, <1>5, <1>6
-----------------------------------------------------------------------------
(* The threads that have been through a range.                             *)

\* They are at most the team; at most the others when one thread is not among them.
LEMMA PassedFinite ==
    ASSUME NEW v
    PROVE  /\ IsFiniteSet(Passed(v)) /\ Cardinality(Passed(v)) \in Nat
           /\ Cardinality(Passed(v)) <= ThreadNum
           /\ \A t \in Team : t \notin Passed(v) => Cardinality(Passed(v)) + 1 <= ThreadNum
<1>1. ThreadNum \in Nat \ {0}
  BY ThreadsAssumption
<1>2. IsFiniteSet(Team) /\ Cardinality(Team) = ThreadNum
  <2>1. 0 \in Int /\ ThreadNum - 1 \in Int /\ (ThreadNum - 1) - 0 + 1 = ThreadNum /\ ~(0 > ThreadNum - 1)
    BY <1>1
  <2> QED
    BY <2>1, FS_Interval DEF Team
<1>3. Passed(v) \subseteq Team
  BY DEF Passed
<1>4. IsFiniteSet(Passed(v)) /\ Cardinality(Passed(v)) \in Nat /\ Cardinality(Passed(v)) <= ThreadNum
  BY <1>2, <1>3, FS_Subset, FS_CardinalityType
<1>5. ASSUME NEW t \in Team, t \notin Passed(v) PROVE Cardinality(Passed(v)) + 1 <= ThreadNum
  <2>1. Passed(v) \subseteq Team \ {t}
    BY <1>3, <1>5
  <2>2. IsFiniteSet(Team \ {t}) /\ Cardinality(Team \ {t}) = ThreadNum - 1
    BY <1>2, FS_RemoveElement
  <2>3. Cardinality(Passed(v)) <= Cardinality(Team \ {t})
    BY <2>1, <2>2, FS_Subset
  <2> QED
    BY <2>2, <2>3, <1>1, <1>4
<1> QED
  BY <1>4, <1>5

\* A thread that still tries the range it visits has not been through it.
LEMMA VisitorNotPassed ==
    ASSUME PlacementIInv, NEW t \in Team, pc[t] \in {"check", "claim", "process"}
    PROVE  t \notin Passed(Victim(t))
<1>1. visit[t] \in Nat /\ visit[t] < ThreadNum /\ ThreadNum \in Nat
  BY ThreadsAssumption DEF PlacementIInv, WalkerTypeOK, LoopBounds
<1>2. ASSUME NEW i \in 0 .. visit[t] - 1 PROVE VictimAt(t, i) # VictimAt(t, visit[t])
  BY <1>1, VictimAtInjective
<1> QED
  BY <1>2 DEF Passed, Victim

\* A product grows with its factor.
LEMMA TimesMonotone ==
    ASSUME NEW c \in Nat, NEW a \in Nat, NEW b \in Nat, a <= b
    PROVE  c * a \in Nat /\ c * b \in Nat /\ c * a <= c * b /\ c * (a + 1) = c * a + c
<1>1. PICK d \in Nat : b = a + d
  <2>1. b - a \in Nat /\ b = a + (b - a)
    OBVIOUS
  <2> QED
    BY <2>1
<1>2. c * b = c * a + c * d /\ c * d \in Nat /\ c * a \in Nat /\ c * b \in Nat
  BY <1>1, Z3
<1>3. c * (a + 1) = c * a + c
  BY Z3
<1> QED
  BY <1>2, <1>3

\* The numbers of the loop are numbers.
LEMMA Numbers ==
    ASSUME WalkerTypeOK
    PROVE  /\ maxWalkers \in Nat /\ Chunk \in Nat \ {0} /\ Word \in Nat /\ ThreadNum \in Nat \ {0}
           /\ active \in Nat /\ active <= maxWalkers
           /\ \A t \in Team : /\ curr[t] \in Nat /\ curr[t] < Word /\ work[t] \in Nat
                              /\ end[t] \in Nat /\ end[t] <= maxWalkers
                              /\ threadBegin[t] \in Nat /\ threadBegin[t] <= maxWalkers
                              /\ threadEnd[t] \in Nat /\ visit[t] \in Nat
  BY WalkerAssumption, ThreadsAssumption DEF WalkerTypeOK

\* A counter does not wrap when a thread draws from the range it visits.
LEMMA CounterHasRoom ==
    ASSUME NoWrap, LoopIInv, NEW t \in Team, pc[t] = "claim", Draw(Victim(t))
    PROVE  curr' = [curr EXCEPT ![Victim(t)] = curr[Victim(t)] + Chunk]
<1> DEFINE v == Victim(t)
           c == Cardinality(Passed(v))
<1>1. v \in Team /\ pc[v] \in Looping
  BY VictimType DEF LoopIInv, PlacementIInv, TeamTogether, Looping
<1>2. /\ maxWalkers \in Nat /\ Chunk \in Nat \ {0} /\ Word \in Nat /\ ThreadNum \in Nat \ {0}
      /\ curr[v] \in Nat /\ end[v] \in Nat /\ end[v] <= maxWalkers
      /\ threadBegin[v] \in Nat /\ threadBegin[v] <= maxWalkers
  BY <1>1, Numbers DEF LoopIInv, PlacementIInv
<1>3. maxWalkers + Chunk * (ThreadNum + 1) < Word
  BY DEF NoWrap, LoopIInv, PlacementIInv, WalkerTypeOK
<1>4. c \in Nat /\ c + 1 <= ThreadNum
  BY <1>1, PassedFinite, VisitorNotPassed DEF LoopIInv
<1>5. curr[v] <= LastDrawn(v) + Chunk * c
  BY <1>1 DEF LoopIInv, CounterBounded
<1> HIDE DEF v, c
<1>6. Chunk * (c + 1) <= Chunk * ThreadNum /\ Chunk * (c + 1) = Chunk * c + Chunk /\ Chunk * c \in Nat
      /\ Chunk * (ThreadNum + 1) = Chunk * ThreadNum + Chunk /\ Chunk * ThreadNum \in Nat
  <2>1. Chunk * (c + 1) <= Chunk * ThreadNum /\ Chunk * ThreadNum \in Nat
    BY <1>2, <1>4, TimesMonotone
  <2>2. Chunk * (c + 1) = Chunk * c + Chunk /\ Chunk * c \in Nat
    BY <1>2, <1>4, TimesMonotone
  <2>3. Chunk * (ThreadNum + 1) = Chunk * ThreadNum + Chunk
    BY <1>2, TimesMonotone
  <2> QED
    BY <2>1, <2>2, <2>3
<1>7. LastDrawn(v) <= maxWalkers + Chunk /\ LastDrawn(v) \in Nat
  BY <1>2 DEF LastDrawn
<1>8. curr[v] + Chunk < Word
  <2> DEFINE x == Chunk * c
             y == Chunk * ThreadNum
  <2>1. x + Chunk <= y /\ maxWalkers + y + Chunk < Word /\ x \in Nat /\ y \in Nat /\ curr[v] <= LastDrawn(v) + x
    BY <1>2, <1>3, <1>5, <1>6
  <2> HIDE DEF x, y
  <2> QED
    BY <2>1, <1>2, <1>7
<1>9. (curr[v] + Chunk) % Word = curr[v] + Chunk
  <2>1. Word \in Nat \ {0} /\ curr[v] + Chunk \in Nat /\ curr[v] + Chunk \in 0 .. Word - 1
        /\ curr[v] + Chunk = Word * 0 + (curr[v] + Chunk)
    BY <1>2, <1>8
  <2> QED
    BY <2>1, DivUnique
<1> QED
  BY <1>9 DEF Draw, v
-----------------------------------------------------------------------------
(* The steps outside the loop.                                             *)

\* Between two parallel regions all there is to keep is that no walker was processed twice.
LEMMA SerialInv ==
    ASSUME PlacementIInv', \A t \in Team : pc'[t] = "serial",
           \A w \in 0 .. maxWalkers' - 1 : calls'[w] <= 1
    PROVE  LoopIInv'
  BY DEF LoopIInv, TeamTogether, RangeReset, RangeCut, CounterBounded, ChunkBehindCounter, ChunksApart,
         OwnRangeExhausted, CallsCounted, Looping

\* Before the first call nothing was processed.
LEMMA LoopInitInv == WalkerInit => LoopIInv
<1> SUFFICES ASSUME WalkerInit PROVE LoopIInv
  OBVIOUS
<1>1. PlacementIInv
  BY WalkerInitInv
<1>2. (\A t \in Team : pc[t] = "serial") /\ (\A w \in 0 .. maxWalkers - 1 : calls[w] = 0)
  BY DEF WalkerInit
<1> QED
  BY <1>1, <1>2 DEF LoopIInv, TeamTogether, RangeReset, RangeCut, CounterBounded, ChunkBehindCounter,
         ChunksApart, OwnRangeExhausted, CallsCounted, Looping

\* init does not touch the loop.
LEMMA PlaceInv == ASSUME LoopIInv, PlacementIInv', Place PROVE LoopIInv'
<1>1. phase # "ready" /\ maxWalkers' = maxWalkers /\ UNCHANGED loopVars
  BY DEF Place, PlaceSocket, SocketsPlaced, PlaceThread, ThreadsPlaced
<1>2. \A t \in Team : pc'[t] = "serial"
  BY <1>1 DEF loopVars, LoopIInv, PlacementIInv, LoopBounds
<1>3. \A w \in 0 .. maxWalkers' - 1 : calls'[w] <= 1
  BY <1>1 DEF loopVars, LoopIInv, CallsCounted
<1> QED
  BY <1>2, <1>3, SerialInv

\* The join leaves the calls of the region as they are.
LEMMA JoinInv == ASSUME LoopIInv, PlacementIInv', Join PROVE LoopIInv'
<1>1. \A t \in Team : pc'[t] = "serial"
  BY DEF Join
<1>2. \A w \in 0 .. maxWalkers' - 1 : calls'[w] <= 1
  BY DEF Join, initVars, LoopIInv, CallsCounted
<1> QED
  BY <1>1, <1>2, SerialInv

\* The fork starts the count of the calls anew.
LEMMA ForkInv == ASSUME LoopIInv, PlacementIInv', NEW a \in 0 .. maxWalkers, Fork(a) PROVE LoopIInv'
<1>1. /\ \A t \in Team : pc'[t] = "start"
      /\ \A w \in 0 .. maxWalkers' - 1 : calls'[w] = 0
  BY DEF Fork, initVars
<1> QED
  BY <1>1 DEF LoopIInv, TeamTogether, RangeReset, RangeCut, CounterBounded, ChunkBehindCounter,
         ChunksApart, OwnRangeExhausted, CallsCounted, Looping

\* Each thread sets its own range before the barrier.
LEMMA StartInv == ASSUME LoopIInv, PlacementIInv', NEW t \in Team, Start(t) PROVE LoopIInv'
<1>1. /\ pc[t] = "start" /\ pc' = [pc EXCEPT ![t] = "barrier"]
      /\ curr' = [curr EXCEPT ![t] = threadBegin[t]]
      /\ end'  = [end EXCEPT ![t] = Least(threadEnd[t], active)]
      /\ status' = [status EXCEPT ![t] = "TWORKING"]
      /\ UNCHANGED <<initVars, active, calls>>
  BY DEF Start, Goto
<1>2. /\ pc \in [Team -> LoopLocations] /\ curr \in [Team -> 0 .. Word - 1]
      /\ end \in [Team -> 0 .. maxWalkers] /\ status \in [Team -> {"TWORKING", "TCOMPLETE"}]
  BY DEF LoopIInv, PlacementIInv, WalkerTypeOK
<1>3. \A u \in Team : pc[u] \in {"start", "barrier"}
  BY <1>1 DEF LoopIInv, TeamTogether, Looping
<1>4. \A u \in Team : pc'[u] \in {"start", "barrier"}
  BY <1>1, <1>2, <1>3
<1>5. TeamTogether'
  BY <1>4 DEF TeamTogether
<1>6. RangeReset'
  <2> SUFFICES ASSUME NEW u \in Team, pc'[u] = "barrier"
               PROVE  /\ curr'[u] = threadBegin[u] /\ end'[u] = Least(threadEnd[u], active)
                      /\ status'[u] = "TWORKING"
    BY <1>1 DEF RangeReset, initVars, Least
  <2>1. CASE u = t
    BY <2>1, <1>1, <1>2
  <2>2. CASE u # t
    BY <2>2, <1>1, <1>2 DEF LoopIInv, RangeReset
  <2> QED
    BY <2>1, <2>2
<1>7. RangeCut' /\ CounterBounded' /\ ChunkBehindCounter' /\ ChunksApart' /\ OwnRangeExhausted'
  BY <1>4 DEF RangeCut, CounterBounded, ChunkBehindCounter, ChunksApart, OwnRangeExhausted, Looping
<1>8. CallsCounted'
  BY <1>1, <1>3, <1>4 DEF LoopIInv, CallsCounted, Looping, initVars
<1> QED
  BY <1>5, <1>6, <1>7, <1>8 DEF LoopIInv

\* Behind the barrier every counter stands at the begin of its range, and nothing is drawn.
LEMMA BarrierInv == ASSUME LoopIInv, PlacementIInv', Barrier PROVE LoopIInv'
<1>1. /\ \A t \in Team : pc[t] = "barrier" /\ pc'[t] = "check"
      /\ UNCHANGED <<initVars, active, curr, end, status, visit, work, calls>>
  BY DEF Barrier
<1>2. \A t \in Team : curr[t] = threadBegin[t] /\ end[t] = Least(threadEnd[t], active) /\ status[t] = "TWORKING"
  BY <1>1 DEF LoopIInv, RangeReset
<1>3. \A t \in Team : visit[t] = 0
  BY <1>1 DEF LoopIInv, PlacementIInv, LoopBounds
<1>4. /\ Chunk \in Nat /\ ThreadNum \in Nat
      /\ \A t \in Team : threadBegin[t] \in Nat /\ end[t] \in Nat
  BY Numbers DEF LoopIInv, PlacementIInv
<1>5. TeamTogether' /\ RangeReset' /\ ChunkBehindCounter' /\ ChunksApart'
  BY <1>1 DEF TeamTogether, RangeReset, ChunkBehindCounter, ChunksApart, Looping
<1>6. RangeCut'
  BY <1>1, <1>2, <1>4 DEF RangeCut, initVars, Least
<1>7. CounterBounded'
  <2> SUFFICES ASSUME NEW v \in Team
               PROVE  curr'[v] <= LastDrawn(v)' + Chunk * Cardinality(Passed(v)')
    BY DEF CounterBounded
  <2>1. Passed(v)' = {}
    BY <1>1, <1>3 DEF Passed
  <2>2. Chunk * Cardinality(Passed(v)') = 0
    BY <2>1, <1>4, FS_EmptySet
  <2>3. curr'[v] = threadBegin[v] /\ LastDrawn(v)' = LastDrawn(v)
    BY <1>1, <1>2 DEF LastDrawn, initVars
  <2> QED
    BY <2>2, <2>3, <1>4 DEF LastDrawn
<1>8. OwnRangeExhausted'
  BY <1>1, <1>2, <1>3 DEF OwnRangeExhausted
<1>9. CallsCounted'
  <2>1. \A v \in Team : \A w \in 0 .. maxWalkers - 1 : ~ Drawn(v, w)'
    BY <1>1, <1>2, <1>4 DEF Drawn, initVars
  <2>2. \A w \in 0 .. maxWalkers - 1 : calls[w] = 0
    BY <1>1, FirstThread DEF LoopIInv, CallsCounted
  <2> QED
    BY <2>1, <2>2, <1>1 DEF CallsCounted, initVars
<1> QED
  BY <1>5, <1>6, <1>7, <1>8, <1>9 DEF LoopIInv
-----------------------------------------------------------------------------
(* The steps inside the loop.                                              *)

\* When one thread is in the loop, the whole team is.
LEMMA AllLooping ==
    ASSUME LoopIInv, NEW t \in Team, pc[t] \in Looping
    PROVE  \A u \in Team : pc[u] \in Looping
  BY DEF LoopIInv, TeamTogether, Looping

\* A step that draws, processes and passes nothing but the end of a range.
LEMMA IdleStep ==
    ASSUME LoopIInv, UNCHANGED <<initVars, active, end, work, calls>>,
           \A u \in Team : /\ pc[u] \in Looping /\ pc'[u] \in Looping
                           /\ pc'[u] = "process" <=> pc[u] = "process"
                           /\ pc[u] = "process" => Victim(u)' = Victim(u)
                           /\ curr'[u] \in Nat /\ curr[u] <= curr'[u]
                           /\ curr'[u] # curr[u] => end[u] <= curr[u]
    PROVE  TeamTogether' /\ RangeReset' /\ RangeCut' /\ ChunkBehindCounter' /\ ChunksApart' /\ CallsCounted'
<1>1. /\ UNCHANGED <<maxWalkers, threadBegin, threadEnd, active, end, work, calls>>
      /\ WalkerTypeOK
  BY DEF initVars, LoopIInv, PlacementIInv
<1>2. /\ maxWalkers \in Nat /\ Chunk \in Nat
      /\ \A u \in Team : /\ curr[u] \in Nat /\ work[u] \in Nat /\ end[u] \in Nat
                         /\ threadBegin[u] \in Nat /\ Victim(u) \in Team
  BY <1>1, Numbers, VictimType
<1>3. TeamTogether' /\ RangeReset'
  BY DEF TeamTogether, RangeReset, Looping
<1>4. RangeCut'
  BY <1>1, <1>2 DEF LoopIInv, RangeCut, Least
<1>5. ChunkBehindCounter'
  <2> SUFFICES ASSUME NEW t \in Team, pc'[t] = "process"
               PROVE  LET v == Victim(t)'
                      IN  threadBegin'[v] <= work'[t] /\ work'[t] < end'[v] /\ work'[t] + Chunk <= curr'[v]
    BY DEF ChunkBehindCounter
  <2> DEFINE v == Victim(t)
  <2>1. threadBegin[v] <= work[t] /\ work[t] < end[v] /\ work[t] + Chunk <= curr[v]
    BY DEF LoopIInv, ChunkBehindCounter
  <2>2. v \in Team /\ Victim(t)' = v /\ curr[v] <= curr'[v] /\ curr'[v] \in Nat
    BY <1>2
  <2> HIDE DEF v
  <2> QED
    BY <2>1, <2>2, <1>1, <1>2
<1>6. ChunksApart'
  BY <1>1 DEF LoopIInv, ChunksApart
<1>7. CallsCounted'
  <2>1. ASSUME NEW v \in Team, NEW w \in Nat PROVE Drawn(v, w)' <=> Drawn(v, w)
    BY <1>1, <1>2 DEF Drawn
  <2>2. ASSUME NEW u \in Team, NEW w \in Nat PROVE InChunk(u, w)' <=> InChunk(u, w)
    BY <1>1 DEF InChunk
  <2> SUFFICES ASSUME NEW w \in 0 .. maxWalkers - 1
               PROVE  /\ calls'[w] <= 1
                      /\ calls'[w] = IF (\E v \in Team : Drawn(v, w)') /\ (\A u \in Team : ~ InChunk(u, w)')
                                     THEN 1 ELSE 0
    BY <1>1 DEF CallsCounted, Looping
  <2>3. w \in Nat
    BY <1>2
  <2>4. calls[w] = IF (\E v \in Team : Drawn(v, w)) /\ (\A u \in Team : ~ InChunk(u, w)) THEN 1 ELSE 0
    BY FirstThread DEF LoopIInv, CallsCounted
  <2> QED
    BY <2>1, <2>2, <2>3, <2>4, <1>1
<1> QED
  BY <1>3, <1>4, <1>5, <1>6, <1>7

\* A thread that goes on to the next range has been through the one it leaves.
LEMMA PassOn ==
    ASSUME PlacementIInv, NEW t \in Team, NEW from \in {"check", "claim", "complete"}, NextRange(t, from)
    PROVE  /\ pc[t] = from /\ pc'[t] \in {"check", "join"} /\ visit'[t] = visit[t] + 1 /\ visit'[t] > 0
           /\ \A u \in Team : u # t => pc'[u] = pc[u] /\ visit'[u] = visit[u] /\ Victim(u)' = Victim(u)
           /\ \A v \in Team : Passed(v)' = IF v = Victim(t) THEN Passed(v) \cup {t} ELSE Passed(v)
<1>1. /\ pc[t] = from /\ pc' = [pc EXCEPT ![t] = IF visit[t] + 1 = ThreadNum THEN "join" ELSE "check"]
      /\ visit' = [visit EXCEPT ![t] = @ + 1]
  BY DEF NextRange, Goto
<1>2. /\ visit \in [Team -> 0 .. ThreadNum] /\ pc \in [Team -> LoopLocations] /\ ThreadNum \in Nat
      /\ pc[t] = "complete" => visit[t] = 0
  BY ThreadsAssumption DEF PlacementIInv, WalkerTypeOK, LoopBounds
<1>3. pc'[t] \in {"check", "join"} /\ visit'[t] = visit[t] + 1 /\ visit[t] \in Nat
  BY <1>1, <1>2
<1>4. \A u \in Team : u # t => pc'[u] = pc[u] /\ visit'[u] = visit[u]
  BY <1>1, <1>2
<1>5. ASSUME NEW v \in Team, NEW u \in Team, u # t
      PROVE  u \in Passed(v)' <=> u \in Passed(v)
  BY <1>4, <1>5 DEF Passed
<1>6. ASSUME NEW v \in Team
      PROVE  t \in Passed(v)' <=> t \in Passed(v) \/ v = Victim(t)
  <2>1. t \in Passed(v)' <=> \E i \in 0 .. visit[t] : VictimAt(t, i) = v
    BY <1>3 DEF Passed
  <2>2. (\E i \in 0 .. visit[t] : VictimAt(t, i) = v) <=>
           (\E i \in 0 .. visit[t] - 1 : VictimAt(t, i) = v) \/ v = Victim(t)
    BY <1>3 DEF Victim
  <2>3. pc[t] = "complete" => Victim(t) = t
    BY <1>2, VictimAtOwn DEF Victim
  <2> QED
    BY <2>1, <2>2, <2>3 DEF Passed
<1>7. ASSUME NEW v \in Team
      PROVE  Passed(v)' = IF v = Victim(t) THEN Passed(v) \cup {t} ELSE Passed(v)
  <2>1. Passed(v) \subseteq Team /\ Passed(v)' \subseteq Team
    BY DEF Passed
  <2>2. \A u \in Team : u \in Passed(v)' <=> u \in Passed(v) \/ (u = t /\ v = Victim(t))
    BY <1>5, <1>6
  <2> QED
    BY <2>1, <2>2
<1> QED
  BY <1>1, <1>3, <1>4, <1>7 DEF Victim

\* The same for the owner of a range that finds it exhausted and is about to mark it complete.
LEMMA PassOwn ==
    ASSUME PlacementIInv, NEW t \in Team, visit[t] = 0, Goto(t, "claim", "complete"), UNCHANGED visit
    PROVE  \A v \in Team : Passed(v)' = IF v = Victim(t) THEN Passed(v) \cup {t} ELSE Passed(v)
<1>1. pc[t] = "claim" /\ pc' = [pc EXCEPT ![t] = "complete"] /\ pc \in [Team -> LoopLocations]
  BY DEF Goto, PlacementIInv, WalkerTypeOK
<1>2. Victim(t) = t
  BY VictimAtOwn DEF Victim
<1>3. ASSUME NEW v \in Team, NEW u \in Team
      PROVE  u \in Passed(v)' <=> u \in Passed(v) \/ (u = t /\ v = t)
  BY <1>1 DEF Passed
<1>4. \A v \in Team : Passed(v) \subseteq Team /\ Passed(v)' \subseteq Team
  BY DEF Passed
<1> QED
  BY <1>2, <1>3, <1>4

\* To pass a range without touching its counter leaves the bound of the counter standing.
LEMMA BoundKept ==
    ASSUME LoopIInv, NEW v \in Team, pc[v] \in Looping,
           UNCHANGED <<initVars, end>>, curr'[v] = curr[v], Passed(v) \subseteq Passed(v)'
    PROVE  curr'[v] <= LastDrawn(v)' + Chunk * Cardinality(Passed(v)')
<1> DEFINE c == Cardinality(Passed(v))
           d == Cardinality(Passed(v)')
<1>1. IsFiniteSet(Passed(v)') /\ Passed(v)' \subseteq Team
  <2>1. IsFiniteSet(Team)
    BY FS_Interval, ThreadsAssumption DEF Team
  <2>2. Passed(v)' \subseteq Team
    BY DEF Passed
  <2> QED
    BY <2>1, <2>2, FS_Subset
<1>2. c \in Nat /\ d \in Nat /\ c <= d
  BY <1>1, FS_Subset, FS_CardinalityType
<1>3. curr[v] <= LastDrawn(v) + Chunk * c
  BY DEF LoopIInv, CounterBounded
<1>4. LastDrawn(v)' = LastDrawn(v)
  BY DEF LastDrawn, initVars
<1> HIDE DEF c, d
<1>5. Chunk * c <= Chunk * d /\ Chunk * c \in Nat /\ Chunk * d \in Nat
  BY <1>2, TimesMonotone, WalkerAssumption
<1>6. LastDrawn(v) \in Nat /\ curr[v] \in Nat
  BY Numbers DEF LastDrawn, LoopIInv, PlacementIInv
<1>7. curr[v] <= LastDrawn(v) + Chunk * d
  <2> DEFINE x == Chunk * c
             y == Chunk * d
  <2>1. x \in Nat /\ y \in Nat /\ x <= y /\ curr[v] <= LastDrawn(v) + x
    BY <1>3, <1>5
  <2> HIDE DEF x, y
  <2>2. curr[v] <= LastDrawn(v) + y
    BY <2>1, <1>6
  <2> QED
    BY <2>2 DEF y
<1> QED
  BY <1>4, <1>7 DEF d

\* To look at a range's status changes nothing that counts.
LEMMA SeeWorkingInv == ASSUME LoopIInv, PlacementIInv', NEW t \in Team, SeeWorking(t) PROVE LoopIInv'
<1>1. /\ pc[t] = "check" /\ pc' = [pc EXCEPT ![t] = "claim"] /\ pc \in [Team -> LoopLocations]
      /\ UNCHANGED <<initVars, active, curr, end, status, visit, work, calls>>
  BY DEF SeeWorking, Goto, LoopIInv, PlacementIInv, WalkerTypeOK
<1>2. \A u \in Team : pc[u] \in Looping
  BY <1>1, AllLooping DEF Looping
<1>3. \A u \in Team : curr[u] \in Nat
  BY Numbers DEF LoopIInv, PlacementIInv
<1>4. \A u \in Team : /\ pc'[u] \in Looping /\ (pc'[u] = "process" <=> pc[u] = "process")
                      /\ (pc'[u] = "complete" <=> pc[u] = "complete") /\ (pc'[u] = "join" <=> pc[u] = "join")
                      /\ Victim(u)' = Victim(u)
  BY <1>1, <1>2 DEF Looping, Victim
<1>5. TeamTogether' /\ RangeReset' /\ RangeCut' /\ ChunkBehindCounter' /\ ChunksApart' /\ CallsCounted'
  BY <1>1, <1>2, <1>3, <1>4, IdleStep
<1>6. \A v \in Team : Passed(v)' = Passed(v)
  BY <1>1, <1>4 DEF Passed
<1>7. CounterBounded'
  BY <1>1, <1>2, <1>6, BoundKept DEF CounterBounded
<1>8. OwnRangeExhausted'
  BY <1>1, <1>2, <1>4 DEF LoopIInv, OwnRangeExhausted
<1> QED
  BY <1>5, <1>7, <1>8 DEF LoopIInv

\* A range marked complete is exhausted, the thread's own one as well.
LEMMA SeeCompleteInv == ASSUME LoopIInv, PlacementIInv', NEW t \in Team, SeeComplete(t) PROVE LoopIInv'
<1>1. /\ status[Victim(t)] = "TCOMPLETE" /\ NextRange(t, "check")
      /\ UNCHANGED <<initVars, active, curr, end, status, work, calls>> /\ PlacementIInv
  BY DEF SeeComplete, LoopIInv
<1>2. /\ pc[t] = "check" /\ pc'[t] \in {"check", "join"} /\ visit'[t] > 0
      /\ \A u \in Team : u # t => pc'[u] = pc[u] /\ visit'[u] = visit[u] /\ Victim(u)' = Victim(u)
      /\ \A v \in Team : Passed(v)' = IF v = Victim(t) THEN Passed(v) \cup {t} ELSE Passed(v)
  BY <1>1, PassOn
<1>3. \A u \in Team : pc[u] \in Looping
  BY <1>2, AllLooping DEF Looping
<1>4. \A u \in Team : curr[u] \in Nat /\ visit[u] \in Nat
  BY <1>1, Numbers DEF PlacementIInv
<1>5. \A u \in Team : pc'[u] \in Looping /\ (pc'[u] = "process" <=> pc[u] = "process")
  BY <1>2, <1>3 DEF Looping
<1>6. TeamTogether' /\ RangeReset' /\ RangeCut' /\ ChunkBehindCounter' /\ ChunksApart' /\ CallsCounted'
  BY <1>1, <1>2, <1>3, <1>4, <1>5, IdleStep
<1>7. CounterBounded'
  BY <1>1, <1>2, <1>3, BoundKept DEF CounterBounded
<1>8. end[t] <= curr[t]
  <2>1. CASE visit[t] = 0
    <3>1. Victim(t) = t
      BY <2>1, VictimAtOwn DEF Victim
    <3> QED
      BY <3>1, <1>1, <1>3 DEF LoopIInv, OwnRangeExhausted
  <2>2. CASE visit[t] # 0
    BY <2>2, <1>3, <1>4 DEF LoopIInv, OwnRangeExhausted
  <2> QED
    BY <2>1, <2>2
<1>9. OwnRangeExhausted'
  BY <1>1, <1>2, <1>3, <1>8 DEF LoopIInv, OwnRangeExhausted
<1> QED
  BY <1>6, <1>7, <1>9 DEF LoopIInv

\* The owner marks its range complete after it found it exhausted.
LEMMA MarkCompleteInv == ASSUME LoopIInv, PlacementIInv', NEW t \in Team, MarkComplete(t) PROVE LoopIInv'
<1>1. /\ status' = [status EXCEPT ![t] = "TCOMPLETE"] /\ NextRange(t, "complete")
      /\ UNCHANGED <<initVars, active, curr, end, work, calls>> /\ PlacementIInv
      /\ status \in [Team -> {"TWORKING", "TCOMPLETE"}]
  BY DEF MarkComplete, LoopIInv, PlacementIInv, WalkerTypeOK
<1>2. /\ pc[t] = "complete" /\ pc'[t] \in {"check", "join"} /\ visit'[t] > 0
      /\ \A u \in Team : u # t => pc'[u] = pc[u] /\ visit'[u] = visit[u] /\ Victim(u)' = Victim(u)
      /\ \A v \in Team : Passed(v)' = IF v = Victim(t) THEN Passed(v) \cup {t} ELSE Passed(v)
  BY <1>1, PassOn
<1>3. \A u \in Team : pc[u] \in Looping
  BY <1>2, AllLooping DEF Looping
<1>4. \A u \in Team : curr[u] \in Nat
  BY <1>1, Numbers DEF PlacementIInv
<1>5. \A u \in Team : pc'[u] \in Looping /\ (pc'[u] = "process" <=> pc[u] = "process")
  BY <1>2, <1>3 DEF Looping
<1>6. TeamTogether' /\ RangeReset' /\ RangeCut' /\ ChunkBehindCounter' /\ ChunksApart' /\ CallsCounted'
  BY <1>1, <1>2, <1>3, <1>4, <1>5, IdleStep
<1>7. CounterBounded'
  BY <1>1, <1>2, <1>3, BoundKept DEF CounterBounded
<1>8. end[t] <= curr[t]
  BY <1>2, <1>3 DEF LoopIInv, OwnRangeExhausted
<1>9. OwnRangeExhausted'
  <2>1. \A u \in Team : u # t => status'[u] = status[u]
    BY <1>1
  <2> QED
    BY <2>1, <1>1, <1>2, <1>3, <1>8 DEF LoopIInv, OwnRangeExhausted
<1> QED
  BY <1>6, <1>7, <1>9 DEF LoopIInv

\* A thread that finds a range exhausted moves its counter by one chunk more, and does so once.
LEMMA FindExhaustedInv ==
    ASSUME NoWrap, LoopIInv, PlacementIInv', NEW t \in Team, FindExhausted(t)
    PROVE  LoopIInv'
<1> DEFINE x == Victim(t)
<1>1. /\ pc[t] = "claim" /\ end[x] <= curr[x] /\ Draw(x) /\ PlacementIInv
      /\ UNCHANGED <<initVars, active, end, status, work, calls>>
      /\ pc \in [Team -> LoopLocations] /\ curr \in [Team -> 0 .. Word - 1] /\ x \in Team
  <2>1. PlacementIInv /\ x \in Team
    BY VictimType DEF LoopIInv, PlacementIInv
  <2>2. end[x] <= curr[x]
    BY <2>1, Numbers DEF FindExhausted, PlacementIInv
  <2> QED
    BY <2>1, <2>2 DEF FindExhausted, PlacementIInv, WalkerTypeOK
<1>2. curr' = [curr EXCEPT ![x] = curr[x] + Chunk]
  BY <1>1, CounterHasRoom
<1>3. /\ pc'[t] \in {"check", "join", "complete"} /\ (pc'[t] = "join" => visit'[t] > 0)
      /\ (pc'[t] = "complete" \/ visit'[t] > 0) /\ (pc'[t] = "complete" => visit[t] = 0)
      /\ \A u \in Team : u # t => pc'[u] = pc[u] /\ visit'[u] = visit[u] /\ Victim(u)' = Victim(u)
      /\ \A v \in Team : Passed(v)' = IF v = x THEN Passed(v) \cup {t} ELSE Passed(v)
  <2>1. CASE visit[t] = 0 /\ Goto(t, "claim", "complete") /\ UNCHANGED visit
    <3>1. \A v \in Team : Passed(v)' = IF v = x THEN Passed(v) \cup {t} ELSE Passed(v)
      BY <2>1, <1>1, PassOwn
    <3>2. pc'[t] = "complete" /\ \A u \in Team : u # t => pc'[u] = pc[u]
      BY <2>1, <1>1 DEF Goto
    <3> QED
      BY <2>1, <3>1, <3>2 DEF Victim
  <2>2. CASE NextRange(t, "claim")
    <3>1. /\ pc'[t] \in {"check", "join"} /\ visit'[t] > 0
          /\ \A u \in Team : u # t => pc'[u] = pc[u] /\ visit'[u] = visit[u] /\ Victim(u)' = Victim(u)
          /\ \A v \in Team : Passed(v)' = IF v = x THEN Passed(v) \cup {t} ELSE Passed(v)
      BY <2>2, <1>1, PassOn
    <3> QED
      BY <3>1
  <2> QED
    BY <2>1, <2>2 DEF FindExhausted
<1>4. \A u \in Team : pc[u] \in Looping
  BY <1>1, AllLooping DEF Looping
<1>5. /\ \A u \in Team : /\ curr[u] \in Nat /\ visit[u] \in Nat /\ end[u] \in Nat /\ threadBegin[u] \in Nat
      /\ Chunk \in Nat \ {0}
  BY <1>1, Numbers DEF PlacementIInv
<1>6. \A u \in Team : curr'[u] = IF u = x THEN curr[x] + Chunk ELSE curr[u]
  BY <1>1, <1>2
<1>7. \A u \in Team : pc'[u] \in Looping /\ (pc'[u] = "process" <=> pc[u] = "process")
  BY <1>1, <1>3, <1>4 DEF Looping
<1>8. TeamTogether' /\ RangeReset' /\ RangeCut' /\ ChunkBehindCounter' /\ ChunksApart' /\ CallsCounted'
  <2>1. \A u \in Team : /\ curr'[u] \in Nat /\ curr[u] <= curr'[u] /\ (curr'[u] # curr[u] => end[u] <= curr[u])
                        /\ (pc[u] = "process" => Victim(u)' = Victim(u))
    BY <1>1, <1>3, <1>5, <1>6
  <2> QED
    BY <2>1, <1>1, <1>4, <1>7, IdleStep
<1>9. CounterBounded'
  <2> SUFFICES ASSUME NEW v \in Team
               PROVE  curr'[v] <= LastDrawn(v)' + Chunk * Cardinality(Passed(v)')
    BY DEF CounterBounded
  <2>1. CASE v = x
    <3> DEFINE c == Cardinality(Passed(v))
    <3>1. t \notin Passed(v)
      BY <2>1, <1>1, VisitorNotPassed
    <3>2. c \in Nat /\ Cardinality(Passed(v)') = c + 1
      BY <2>1, <3>1, <1>3, PassedFinite, FS_AddElement
    <3>3. curr[v] <= LastDrawn(v) + Chunk * c
      BY <1>4 DEF LoopIInv, CounterBounded
    <3>4. LastDrawn(v)' = LastDrawn(v) /\ LastDrawn(v) \in Nat
      BY <1>1, <1>5 DEF LastDrawn, initVars
    <3> HIDE DEF c
    <3>5. Chunk * (c + 1) = Chunk * c + Chunk /\ Chunk * c \in Nat
      BY <3>2, <1>5, TimesMonotone
    <3>6. curr[v] + Chunk <= LastDrawn(v) + Chunk * (c + 1)
      BY <3>3, <3>4, <3>5, <1>5
    <3> QED
      BY <3>2, <3>4, <3>6, <2>1, <1>6
  <2>2. CASE v # x
    BY <2>2, <1>1, <1>3, <1>4, <1>6, BoundKept
  <2> QED
    BY <2>1, <2>2
<1>10. OwnRangeExhausted'
  <2> SUFFICES ASSUME NEW u \in Team
               PROVE  /\ visit'[u] > 0 \/ pc'[u] = "complete" \/ status'[u] = "TCOMPLETE" => end'[u] <= curr'[u]
                      /\ pc'[u] = "join" => visit'[u] > 0
    BY DEF OwnRangeExhausted
  <2>1. end[u] <= curr[u] => end'[u] <= curr'[u]
    BY <1>1, <1>5, <1>6
  <2>2. CASE u = t
    <3>1. CASE visit[t] = 0
      <4>1. x = t
        BY <3>1, VictimAtOwn DEF Victim
      <4> QED
        BY <4>1, <2>1, <2>2, <1>1, <1>3
    <3>2. CASE visit[t] # 0
      BY <3>2, <2>1, <2>2, <1>3, <1>4, <1>5 DEF LoopIInv, OwnRangeExhausted
    <3> QED
      BY <3>1, <3>2
  <2>3. CASE u # t
    BY <2>1, <2>3, <1>1, <1>3, <1>4 DEF LoopIInv, OwnRangeExhausted
  <2> QED
    BY <2>2, <2>3
<1> QED
  BY <1>8, <1>9, <1>10 DEF LoopIInv

\* A thread that draws a chunk makes its walkers pending; no other range or chunk has them.
LEMMA ClaimChunkInv ==
    ASSUME NoWrap, LoopIInv, PlacementIInv', NEW t \in Team, ClaimChunk(t)
    PROVE  LoopIInv'
<1> DEFINE x == Victim(t)
<1>1. /\ pc[t] = "claim" /\ curr[x] < end[x] /\ Draw(x) /\ PlacementIInv
      /\ pc' = [pc EXCEPT ![t] = "process"] /\ work' = [work EXCEPT ![t] = curr[x]]
      /\ UNCHANGED <<initVars, active, end, status, visit, calls>>
      /\ pc \in [Team -> LoopLocations] /\ curr \in [Team -> 0 .. Word - 1] /\ x \in Team
      /\ work \in [Team -> 0 .. Word - 1]
  BY VictimType DEF ClaimChunk, Goto, LoopIInv, PlacementIInv, WalkerTypeOK
<1>2. curr' = [curr EXCEPT ![x] = curr[x] + Chunk]
  BY <1>1, CounterHasRoom
<1>3. \A u \in Team : pc[u] \in Looping
  BY <1>1, AllLooping DEF Looping
<1>4. /\ maxWalkers \in Nat /\ Chunk \in Nat \ {0}
      /\ \A u \in Team : /\ curr[u] \in Nat /\ end[u] \in Nat /\ threadBegin[u] \in Nat /\ threadEnd[u] \in Nat
                         /\ work[u] \in Nat /\ Victim(u) \in Team /\ active \in Nat
  BY <1>1, Numbers, VictimType DEF PlacementIInv
<1>5. \A u \in Team : /\ curr'[u] = (IF u = x THEN curr[x] + Chunk ELSE curr[u])
                      /\ work'[u] = (IF u = t THEN curr[x] ELSE work[u])
                      /\ pc'[u] = (IF u = t THEN "process" ELSE pc[u])
                      /\ Victim(u)' = Victim(u)
  BY <1>1, <1>2 DEF Victim
<1>6. UNCHANGED <<maxWalkers, threadBegin, threadEnd, active, end, status, visit, calls>>
  BY <1>1 DEF initVars
<1>7. threadBegin[x] <= curr[x]
  BY <1>1, <1>3 DEF LoopIInv, RangeCut
<1>8. TeamTogether' /\ RangeReset'
  BY <1>3, <1>5 DEF TeamTogether, RangeReset, Looping
<1>9. RangeCut'
  <2> SUFFICES ASSUME NEW v \in Team PROVE threadBegin[v] <= curr'[v] /\ end[v] = Least(threadEnd[v], active)
    BY <1>6 DEF RangeCut, Least
  <2>1. threadBegin[v] <= curr[v] /\ end[v] = Least(threadEnd[v], active)
    BY <1>3 DEF LoopIInv, RangeCut
  <2> QED
    BY <2>1, <1>1, <1>4, <1>5
<1>10. CounterBounded'
  <2> SUFFICES ASSUME NEW v \in Team
               PROVE  curr'[v] <= LastDrawn(v)' + Chunk * Cardinality(Passed(v)')
    BY DEF CounterBounded
  <2>1. Passed(v)' = Passed(v)
    BY <1>1, <1>5, <1>6 DEF Passed
  <2>2. CASE v = x
    <3>1. Chunk * Cardinality(Passed(v)') \in Nat
      BY <2>1, <1>4, PassedFinite, TimesMonotone
    <3>2. LastDrawn(v)' = end[x] - 1 + Chunk
      BY <2>2, <1>1, <1>4, <1>6, <1>7 DEF LastDrawn
    <3> QED
      BY <3>1, <3>2, <2>2, <1>1, <1>4, <1>5
  <2>3. CASE v # x
    BY <2>1, <2>3, <1>1, <1>3, <1>5, BoundKept
  <2> QED
    BY <2>2, <2>3
<1>11. ChunkBehindCounter'
  <2> SUFFICES ASSUME NEW u \in Team, pc'[u] = "process", NEW v \in Team, v = Victim(u)
               PROVE  threadBegin[v] <= work'[u] /\ work'[u] < end[v] /\ work'[u] + Chunk <= curr'[v]
    BY <1>4, <1>5, <1>6 DEF ChunkBehindCounter
  <2>1. CASE u = t
    BY <2>1, <1>1, <1>4, <1>5, <1>7
  <2>2. CASE u # t
    <3>1. threadBegin[v] <= work[u] /\ work[u] < end[v] /\ work[u] + Chunk <= curr[v]
      BY <2>2, <1>5 DEF LoopIInv, ChunkBehindCounter
    <3> QED
      BY <3>1, <2>2, <1>4, <1>5
  <2> QED
    BY <2>1, <2>2
<1>12. ChunksApart'
  <2> SUFFICES ASSUME NEW u \in Team, NEW v \in Team, pc'[u] = "process", pc'[v] = "process", u # v,
                      Victim(u) = Victim(v)
               PROVE  work'[u] + Chunk <= work'[v] \/ work'[v] + Chunk <= work'[u]
    BY <1>5 DEF ChunksApart
  <2>1. CASE u = t
    <3>1. work[v] + Chunk <= curr[x]
      BY <2>1, <1>5 DEF LoopIInv, ChunkBehindCounter
    <3> QED
      BY <3>1, <2>1, <1>5
  <2>2. CASE v = t
    <3>1. work[u] + Chunk <= curr[x]
      BY <2>2, <1>5 DEF LoopIInv, ChunkBehindCounter
    <3> QED
      BY <3>1, <2>2, <1>5
  <2>3. CASE u # t /\ v # t
    BY <2>3, <1>5 DEF LoopIInv, ChunksApart
  <2> QED
    BY <2>1, <2>2, <2>3
<1>13. OwnRangeExhausted'
  <2> SUFFICES ASSUME NEW u \in Team
               PROVE  /\ visit[u] > 0 \/ pc'[u] = "complete" \/ status[u] = "TCOMPLETE" => end[u] <= curr'[u]
                      /\ pc'[u] = "join" => visit[u] > 0
    BY <1>6 DEF OwnRangeExhausted
  <2>1. /\ visit[u] > 0 \/ pc[u] = "complete" \/ status[u] = "TCOMPLETE" => end[u] <= curr[u]
        /\ pc[u] = "join" => visit[u] > 0
    BY <1>3 DEF LoopIInv, OwnRangeExhausted
  <2>2. end[u] <= curr[u] => end[u] <= curr'[u]
    BY <1>4, <1>5
  <2> QED
    BY <2>1, <2>2, <1>5
<1>14. CallsCounted'
  <2> SUFFICES ASSUME NEW w \in 0 .. maxWalkers - 1
               PROVE  /\ calls[w] <= 1
                      /\ calls[w] = IF (\E v \in Team : Drawn(v, w)') /\ (\A u \in Team : ~ InChunk(u, w)')
                                    THEN 1 ELSE 0
    BY <1>3, <1>5, <1>6 DEF CallsCounted, Looping
  <2>0. w \in Nat
    BY <1>4
  <2>1. calls[w] = IF (\E v \in Team : Drawn(v, w)) /\ (\A u \in Team : ~ InChunk(u, w)) THEN 1 ELSE 0
    BY <1>3, FirstThread DEF LoopIInv, CallsCounted
  <2>2. ASSUME NEW u \in Team, u # t PROVE InChunk(u, w)' <=> InChunk(u, w)
    BY <2>2, <1>5, <1>6 DEF InChunk
  <2>3. ~ InChunk(t, w) /\ (InChunk(t, w)' <=> curr[x] <= w /\ w < curr[x] + Chunk /\ w < end[x])
    BY <1>1, <1>5, <1>6 DEF InChunk
  <2>4. ASSUME NEW v \in Team, v # x PROVE Drawn(v, w)' <=> Drawn(v, w)
    BY <2>4, <1>5, <1>6 DEF Drawn
  <2>5. ASSUME NEW v \in Team, v = x PROVE Drawn(v, w)' <=> Drawn(v, w) \/ InChunk(t, w)'
    BY <2>0, <2>5, <2>3, <1>1, <1>4, <1>5, <1>6, <1>7 DEF Drawn
  <2>6. InChunk(t, w)' => ~ Drawn(x, w)
    BY <2>0, <2>3, <1>4, <1>1 DEF Drawn
  <2>7. ASSUME NEW v \in Team, InChunk(t, w)', Drawn(v, w) PROVE FALSE
    <3>1. v # x
      BY <2>6, <2>7
    <3>2. \A u \in Team : end[u] <= threadEnd[u]
      BY <1>3, <1>4 DEF LoopIInv, RangeCut, Least
    <3>3. OfThread(v, w) /\ OfThread(x, w)
      BY <3>2, <2>0, <2>3, <2>7, <1>1, <1>4, <1>7 DEF OfThread, Drawn
    <3>4. PlacedThreads = Team
      <4>1. phase = "ready"
        <5>1. phase # "ready" => \A u \in Team : pc[u] = "serial"
          BY <1>1 DEF PlacementIInv, LoopBounds
        <5> QED
          BY <5>1, <1>1
      <4> QED
        BY <4>1 DEF PlacedThreads
    <3> QED
      BY <3>1, <3>3, <3>4, <2>0, <1>1, RangesDisjoint
  <2>8. CASE InChunk(t, w)'
    <3>1. calls[w] = 0
      BY <2>1, <2>7, <2>8
    <3> QED
      BY <3>1, <2>8
  <2>9. CASE ~ InChunk(t, w)'
    <3>1. \A v \in Team : Drawn(v, w)' <=> Drawn(v, w)
      BY <2>4, <2>5, <2>9
    <3>2. (\A u \in Team : ~ InChunk(u, w)') <=> (\A u \in Team : ~ InChunk(u, w))
      BY <2>2, <2>3, <2>9
    <3> QED
      BY <3>1, <3>2, <2>1
  <2> QED
    BY <2>8, <2>9
<1> QED
  BY <1>8, <1>9, <1>10, <1>11, <1>12, <1>13, <1>14 DEF LoopIInv

\* The chunk a thread processes, its end computed without a wrap.
LEMMA ChunkOfIs ==
    ASSUME LoopIInv, NEW t \in Team, pc[t] = "process", NEW w \in Nat
    PROVE  w \in ChunkOf(t) <=> InChunk(t, w)
<1> DEFINE v == Victim(t)
<1>1. /\ work[t] + Chunk <= curr[v] /\ curr[v] \in Nat /\ curr[v] < Word /\ Word \in Nat /\ Chunk \in Nat
      /\ work[t] \in Nat /\ end[v] \in Nat
  BY Numbers, VictimType DEF LoopIInv, ChunkBehindCounter, PlacementIInv
<1> HIDE DEF v
<1>2. (work[t] + Chunk) % Word = work[t] + Chunk
  <2>1. Word \in Nat \ {0} /\ work[t] + Chunk \in Nat /\ work[t] + Chunk \in 0 .. Word - 1
        /\ work[t] + Chunk = Word * 0 + (work[t] + Chunk)
    BY <1>1
  <2> QED
    BY <2>1, DivUnique
<1>3. ChunkOf(t) = work[t] .. Least(work[t] + Chunk, end[v]) - 1
  BY <1>2 DEF ChunkOf, v
<1>4. InChunk(t, w) <=> work[t] <= w /\ w < work[t] + Chunk /\ w < end[v]
  BY DEF InChunk, v
<1> QED
  BY <1>1, <1>3, <1>4 DEF Least

\* The range a chunk is drawn from contains the chunk.
LEMMA ChunkInRange ==
    ASSUME LoopIInv, NEW t \in Team, NEW w \in Nat, InChunk(t, w)
    PROVE  Victim(t) \in PlacedThreads /\ OfThread(Victim(t), w)
<1> DEFINE v == Victim(t)
<1>1. pc[t] = "process" /\ v \in Team
  BY VictimType DEF InChunk, LoopIInv, PlacementIInv
<1>2. PlacedThreads = Team
  BY <1>1 DEF LoopIInv, PlacementIInv, LoopBounds, PlacedThreads
<1>3. threadBegin[v] <= work[t] /\ end[v] = Least(threadEnd[v], active)
  BY <1>1, AllLooping DEF LoopIInv, ChunkBehindCounter, RangeCut, Looping
<1>4. /\ threadBegin[v] \in Nat /\ work[t] \in Nat /\ end[v] \in Nat /\ threadEnd[v] \in Nat /\ active \in Nat
  BY <1>1, Numbers DEF LoopIInv, PlacementIInv
<1>5. work[t] <= w /\ w < end[v]
  BY DEF InChunk
<1> HIDE DEF v
<1> QED
  BY <1>1, <1>2, <1>3, <1>4, <1>5 DEF OfThread, Least, v

\* No walker is in two chunks: two ranges do not share it, and neither do two chunks of one range.
LEMMA InOneChunk ==
    ASSUME LoopIInv, NEW t \in Team, NEW u \in Team, NEW w \in Nat, InChunk(t, w), InChunk(u, w)
    PROVE  t = u
<1>1. Victim(t) = Victim(u)
  BY ChunkInRange, RangesDisjoint DEF LoopIInv
<1>2. work[t] \in Nat /\ work[u] \in Nat /\ Chunk \in Nat
  BY Numbers DEF LoopIInv, PlacementIInv
<1> QED
  BY <1>1, <1>2 DEF LoopIInv, ChunksApart, InChunk

\* A thread that processes its chunk calls process for each of its walkers, which were pending.
LEMMA ProcessChunkInv ==
    ASSUME LoopIInv, PlacementIInv', NEW t \in Team, ProcessChunk(t)
    PROVE  LoopIInv'
<1>1. /\ pc[t] = "process" /\ pc' = [pc EXCEPT ![t] = "check"] /\ PlacementIInv
      /\ calls' = [w \in DOMAIN calls |-> calls[w] + (IF w \in ChunkOf(t) THEN 1 ELSE 0)]
      /\ work' = [work EXCEPT ![t] = 0]
      /\ UNCHANGED <<initVars, active, curr, end, status, visit>>
      /\ pc \in [Team -> LoopLocations] /\ work \in [Team -> 0 .. Word - 1]
      /\ calls \in [0 .. maxWalkers - 1 -> Nat]
  BY DEF ProcessChunk, Goto, LoopIInv, PlacementIInv, WalkerTypeOK
<1>2. \A u \in Team : pc[u] \in Looping
  BY <1>1, AllLooping DEF Looping
<1>3. /\ maxWalkers \in Nat /\ Chunk \in Nat \ {0} /\ Word \in Nat
      /\ \A u \in Team : /\ curr[u] \in Nat /\ curr[u] < Word /\ end[u] \in Nat /\ threadBegin[u] \in Nat
                         /\ threadEnd[u] \in Nat /\ work[u] \in Nat /\ Victim(u) \in Team /\ active \in Nat
  BY <1>1, Numbers, VictimType DEF PlacementIInv
<1>4. UNCHANGED <<maxWalkers, threadBegin, threadEnd, active, curr, end, status, visit>>
  BY <1>1 DEF initVars
<1>5. \A u \in Team : /\ work'[u] = (IF u = t THEN 0 ELSE work[u])
                      /\ pc'[u] = (IF u = t THEN "check" ELSE pc[u])
                      /\ Victim(u)' = Victim(u)
  BY <1>1 DEF Victim
<1>6. TeamTogether' /\ RangeReset'
  BY <1>2, <1>5 DEF TeamTogether, RangeReset, Looping
<1>7. RangeCut'
  BY <1>2, <1>4 DEF LoopIInv, RangeCut, Least
<1>8. CounterBounded'
  <2> SUFFICES ASSUME NEW v \in Team
               PROVE  curr'[v] <= LastDrawn(v)' + Chunk * Cardinality(Passed(v)')
    BY DEF CounterBounded
  <2>1. Passed(v)' = Passed(v)
    BY <1>1, <1>4, <1>5 DEF Passed
  <2> QED
    BY <2>1, <1>1, <1>2, <1>4, BoundKept
<1>9. ChunkBehindCounter'
  <2> SUFFICES ASSUME NEW u \in Team, u # t, pc[u] = "process", NEW v \in Team, v = Victim(u)
               PROVE  threadBegin[v] <= work[u] /\ work[u] < end[v] /\ work[u] + Chunk <= curr[v]
    BY <1>3, <1>4, <1>5 DEF ChunkBehindCounter
  <2> QED
    BY DEF LoopIInv, ChunkBehindCounter
<1>10. ChunksApart'
  BY <1>5 DEF LoopIInv, ChunksApart
<1>11. OwnRangeExhausted'
  BY <1>2, <1>4, <1>5 DEF LoopIInv, OwnRangeExhausted
<1>12. CallsCounted'
  <2> SUFFICES ASSUME NEW w \in 0 .. maxWalkers - 1
               PROVE  /\ calls'[w] <= 1
                      /\ calls'[w] = IF (\E v \in Team : Drawn(v, w)') /\ (\A u \in Team : ~ InChunk(u, w)')
                                     THEN 1 ELSE 0
    BY <1>2, <1>4, <1>5 DEF CallsCounted, Looping
  <2>0. w \in Nat
    BY <1>3
  <2>1. calls[w] = IF (\E v \in Team : Drawn(v, w)) /\ (\A u \in Team : ~ InChunk(u, w)) THEN 1 ELSE 0
    BY <1>2, FirstThread DEF LoopIInv, CallsCounted
  <2>2. w \in ChunkOf(t) <=> InChunk(t, w)
    BY <2>0, <1>1, ChunkOfIs
  <2>3. calls'[w] = calls[w] + (IF InChunk(t, w) THEN 1 ELSE 0)
    BY <2>2, <1>1
  <2>4. ASSUME NEW v \in Team PROVE Drawn(v, w)' <=> Drawn(v, w)
    BY <1>4 DEF Drawn
  <2>5. ASSUME NEW u \in Team PROVE InChunk(u, w)' <=> InChunk(u, w) /\ u # t
    BY <1>4, <1>5 DEF InChunk
  <2>6. CASE InChunk(t, w)
    <3>1. calls[w] = 0
      BY <2>1, <2>6
    <3>2. \A u \in Team : u # t => ~ InChunk(u, w)
      BY <2>0, <2>6, <1>1, InOneChunk
    <3>3. Drawn(Victim(t), w)
      BY <2>0, <2>6, <1>3 DEF InChunk, Drawn, LoopIInv, ChunkBehindCounter
    <3> QED
      BY <3>1, <3>2, <3>3, <2>3, <2>4, <2>5, <2>6, <1>3
  <2>7. CASE ~ InChunk(t, w)
    <3>1. (\A u \in Team : ~ InChunk(u, w)') <=> (\A u \in Team : ~ InChunk(u, w))
      BY <2>5, <2>7
    <3>2. calls'[w] = calls[w]
      BY <2>1, <2>3, <2>7
    <3> QED
      BY <3>1, <3>2, <2>1, <2>4
  <2> QED
    BY <2>6, <2>7
<1> QED
  BY <1>6, <1>7, <1>8, <1>9, <1>10, <1>11, <1>12 DEF LoopIInv
-----------------------------------------------------------------------------
(***************************************************************************)
(* The invariant of process_walkers, for every team, number of walkers and *)
(* chunk size that leave the counters room below Word.                     *)
(***************************************************************************)
THEOREM LoopInvariant == ASSUME NoWrap PROVE WalkerSpec => []LoopIInv
<1>1. WalkerInit => LoopIInv
  BY LoopInitInv
<1>2. LoopIInv /\ PlacementIInv' /\ [WalkerNext]_walkerVars => LoopIInv'
  <2> SUFFICES ASSUME LoopIInv, PlacementIInv', [WalkerNext]_walkerVars PROVE LoopIInv'
    OBVIOUS
  <2>1. CASE Place
    BY <2>1, PlaceInv
  <2>2. CASE \E a \in ActiveNums \cap (0 .. maxWalkers) : Fork(a)
    BY <2>2, ForkInv
  <2>3. CASE Barrier
    BY <2>3, BarrierInv
  <2>4. CASE Join
    BY <2>4, JoinInv
  <2>5. ASSUME NEW t \in Team, Run(t) PROVE LoopIInv'
    BY <2>5, StartInv, SeeWorkingInv, SeeCompleteInv, ClaimChunkInv, FindExhaustedInv, MarkCompleteInv,
       ProcessChunkInv DEF Run
  <2>6. CASE UNCHANGED walkerVars
    <3>1. UNCHANGED <<phase, next, remain, maxWalkers, socketBegin, socketEnd, threadBegin, threadEnd>>
          /\ UNCHANGED <<pc, active, curr, end, status, visit, work, calls>>
      BY <2>6 DEF walkerVars, initVars, loopVars
    <3>2. TeamTogether' /\ RangeReset' /\ RangeCut' /\ OwnRangeExhausted'
      BY <3>1 DEF LoopIInv, TeamTogether, RangeReset, RangeCut, OwnRangeExhausted, Least
    <3>3. \A t \in Team : Victim(t)' = Victim(t)
      BY <3>1 DEF Victim
    <3>4. ChunkBehindCounter' /\ ChunksApart'
      BY <3>1, <3>3 DEF LoopIInv, ChunkBehindCounter, ChunksApart
    <3>5. \A v \in Team : Passed(v)' = Passed(v) /\ LastDrawn(v)' = LastDrawn(v)
      BY <3>1 DEF Passed, LastDrawn
    <3>6. CounterBounded'
      BY <3>1, <3>5 DEF LoopIInv, CounterBounded
    <3>7. \A v \in Team : \A w \in 0 .. maxWalkers - 1 :
             (Drawn(v, w)' <=> Drawn(v, w)) /\ (InChunk(v, w)' <=> InChunk(v, w))
      BY <3>1, <3>3 DEF Drawn, InChunk
    <3>8. CallsCounted'
      <4> SUFFICES ASSUME NEW w \in 0 .. maxWalkers - 1
                   PROVE  /\ calls[w] <= 1
                          /\ \A t \in Team : pc[t] \in {"start", "barrier"} => calls[w] = 0
                          /\ \A t \in Team : pc[t] \in Looping =>
                               calls[w] = IF (\E v \in Team : Drawn(v, w)') /\ (\A u \in Team : ~ InChunk(u, w)')
                                          THEN 1 ELSE 0
        BY <3>1 DEF CallsCounted
      <4>1. /\ calls[w] <= 1
            /\ \A t \in Team : pc[t] \in {"start", "barrier"} => calls[w] = 0
            /\ \A t \in Team : pc[t] \in Looping =>
                 calls[w] = IF (\E v \in Team : Drawn(v, w)) /\ (\A u \in Team : ~ InChunk(u, w))
                            THEN 1 ELSE 0
        BY DEF LoopIInv, CallsCounted
      <4> QED
        BY <4>1, <3>7
    <3> QED
      BY <3>2, <3>4, <3>6, <3>8 DEF LoopIInv
  <2> QED
    BY <2>1, <2>2, <2>3, <2>4, <2>5, <2>6 DEF WalkerNext
<1> QED
  BY <1>1, <1>2, PlacementInvariant, PTL DEF WalkerSpec

(***************************************************************************)
(* No walker is processed twice, no two chunks overlap, and when the       *)
(* threads have left the loop every active walker has been processed.      *)
(***************************************************************************)
THEOREM WalkersProcessedOnce == ASSUME NoWrap PROVE WalkerSpec => []EachWalkerProcessedOnce
<1>1. LoopIInv => EachWalkerProcessedOnce
  <2> SUFFICES ASSUME LoopIInv PROVE EachWalkerProcessedOnce
    OBVIOUS
  <2>1. DOMAIN calls = 0 .. maxWalkers - 1 /\ maxWalkers \in Nat /\ active \in Nat /\ active <= maxWalkers
    BY Numbers DEF LoopIInv, PlacementIInv, WalkerTypeOK
  <2>2. \A w \in DOMAIN calls : calls[w] <= 1
    BY <2>1 DEF LoopIInv, CallsCounted
  <2>3. ASSUME NEW t \in Team, NEW u \in Team, t # u, pc[t] = "process", pc[u] = "process"
        PROVE  ChunkOf(t) \cap ChunkOf(u) = {}
    <3>1. ASSUME NEW w, w \in ChunkOf(t), w \in ChunkOf(u) PROVE FALSE
      <4>1. w \in Nat
        <5>1. work[t] \in Nat /\ end[Victim(t)] \in Nat
          BY Numbers, VictimType DEF LoopIInv, PlacementIInv
        <5>2. w \in Int /\ w >= work[t]
          <6>1. (work[t] + Chunk) % Word \in Nat
            <7>1. work[t] + Chunk \in Nat /\ Word \in Nat \ {0}
              BY <5>1, WalkerAssumption
            <7> QED
              BY <7>1, DivMod
          <6>2. Least((work[t] + Chunk) % Word, end[Victim(t)]) \in Nat
            BY <6>1, <5>1 DEF Least
          <6> QED
            BY <6>2, <5>1, <3>1 DEF ChunkOf
        <5> QED
          BY <5>1, <5>2
      <4>2. InChunk(t, w) /\ InChunk(u, w)
        BY <2>3, <3>1, <4>1, ChunkOfIs
      <4> QED
        BY <2>3, <4>1, <4>2, InOneChunk
    <3> QED
      BY <3>1
  <2>4. ASSUME \A t \in Team : pc[t] = "join", NEW w \in DOMAIN calls
        PROVE  calls[w] = (IF w < active THEN 1 ELSE 0)
    <3>1. calls[w] = IF \E v \in Team : Drawn(v, w) THEN 1 ELSE 0
      BY <2>1, <2>4, FirstThread DEF LoopIInv, CallsCounted, InChunk, Looping
    <3>2. /\ w \in Nat /\ w < maxWalkers
          /\ \A v \in Team : /\ end[v] <= curr[v] /\ end[v] = Least(threadEnd[v], active)
                             /\ curr[v] \in Nat /\ end[v] \in Nat /\ threadBegin[v] \in Nat /\ threadEnd[v] \in Nat
      BY <2>1, <2>4, Numbers DEF LoopIInv, PlacementIInv, OwnRangeExhausted, RangeCut, Looping
    <3>3. (\E v \in Team : Drawn(v, w)) => w < active
      BY <2>1, <3>2 DEF Drawn, Least
    <3>4. ASSUME w < active PROVE \E v \in Team : Drawn(v, w)
      <4>1. phase = "ready"
        <5>1. phase # "ready" => \A u \in Team : pc[u] = "serial"
          BY DEF LoopIInv, PlacementIInv, LoopBounds
        <5> QED
          BY <5>1, <2>4, FirstThread
      <4>2. PICK v \in Team : OfThread(v, w)
        <5>1. PlacedThreads = Team /\ ThreadFrontier = maxWalkers
          BY <4>1 DEF PlacedThreads, ThreadFrontier
        <5> QED
          BY <5>1, <2>1 DEF LoopIInv, PlacementIInv, ThreadsCover
      <4> QED
        BY <4>2, <3>2, <3>4, <2>1 DEF OfThread, Drawn, Least
    <3> QED
      BY <3>1, <3>3, <3>4
  <2> QED
    BY <2>2, <2>3, <2>4 DEF EachWalkerProcessedOnce
<1> QED
  BY <1>1, LoopInvariant, PTL

(***************************************************************************)
(* A counter stays within one chunk per thread of the end of its range.    *)
(***************************************************************************)
THEOREM CountersOvershootOnce == ASSUME NoWrap PROVE WalkerSpec => []OvershootBounded
<1>1. LoopIInv => OvershootBounded
  <2> SUFFICES ASSUME LoopIInv, NEW v \in Team, pc[v] \in Looping
               PROVE  curr[v] >= threadBegin[v] /\ curr[v] <= LastDrawn(v) + Chunk * ThreadNum
    BY DEF OvershootBounded, LastDrawn, Looping
  <2> DEFINE c == Cardinality(Passed(v))
             x == Chunk * c
             y == Chunk * ThreadNum
  <2>1. threadBegin[v] <= curr[v] /\ curr[v] <= LastDrawn(v) + x
    BY DEF LoopIInv, RangeCut, CounterBounded
  <2>2. c \in Nat /\ c <= ThreadNum /\ ThreadNum \in Nat /\ Chunk \in Nat
    BY PassedFinite, ThreadsAssumption, WalkerAssumption
  <2>3. x \in Nat /\ y \in Nat /\ x <= y
    <3> HIDE DEF c
    <3> QED
      BY <2>2, TimesMonotone
  <2>4. LastDrawn(v) \in Nat /\ curr[v] \in Nat /\ threadBegin[v] \in Nat
    BY Numbers DEF LastDrawn, LoopIInv, PlacementIInv
  <2>5. curr[v] >= threadBegin[v] /\ curr[v] <= LastDrawn(v) + y
    <3> HIDE DEF x, y
    <3> QED
      BY <2>1, <2>3, <2>4
  <2> QED
    BY <2>5
<1> QED
  BY <1>1, LoopInvariant, PTL
=============================================================================
