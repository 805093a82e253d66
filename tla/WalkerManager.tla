--------------------------- MODULE WalkerManager ---------------------------
(***************************************************************************)
(* WalkerManager: how the walkers of an epoch are divided over sockets and *)
(* threads (init), and the parallel loop over walkers (process_walkers),   *)
(* in which a thread works off its own range in chunks and then helps the  *)
(* others, stealing chunks from their ranges with a fetch-and-add on their *)
(* counters.  The counters are walker_id_t, unsigned and Word = 2^32 wide. *)
(*                                                                         *)
(* thread_states[socket][offset] is indexed here by the thread's number.   *)
(***************************************************************************)
EXTENDS Threads

CONSTANTS WalkerNums,     \* values of max_epoch_walker_num to consider
          ActiveNums,     \* values of active_walker_num to consider
          PageWalkers,    \* PageSize / sizeof(partition_id_t)
          AlignWalkers,   \* MemoryDataAlignment / sizeof(partition_id_t)
          Chunk,          \* chunk_size
          Word            \* one more than the largest walker_id_t

ASSUME WalkerAssumption ==
    /\ PageWalkers \in Nat \ {0} /\ AlignWalkers \in Nat \ {0}
    /\ PageWalkers % AlignWalkers = 0
    /\ Chunk \in Nat \ {0} /\ Word \in Nat
    /\ Chunk < Word
    /\ \A n \in WalkerNums : n \in Nat /\ n < Word

\* The counters have room for what the threads add past the end of a range.
NoWrap == \A n \in WalkerNums : n + Chunk * (ThreadNum + 1) < Word

VARIABLES
    phase,        \* "sockets", "threads" (the loops of init) or "ready"
    next,         \* the loop variable of init: a socket, then a thread
    remain,       \* s_remain_walker, then t_remain_walker
    maxWalkers,   \* max_epoch_walker_num
    socketBegin, socketEnd,   \* socket_walker_begin, socket_walker_end
    threadBegin, threadEnd,   \* thread_walker_begin, thread_walker_end
    pc,           \* where each thread is in process_walkers
    active,       \* active_walker_num
    curr, end, status,        \* thread_states
    visit,        \* how many ranges each thread has been through
    work,         \* work_begin of the chunk each thread processes, 0 when it has none
    calls         \* history: how often process was called for each walker

initVars == <<phase, next, remain, maxWalkers, socketBegin, socketEnd, threadBegin, threadEnd>>
loopVars == <<pc, active, curr, end, status, visit, work, calls>>
walkerVars == <<initVars, loopVars>>

Least(a, b)  == IF a < b THEN a ELSE b
RoundDown(n, unit) == (n \div unit) * unit

HintSocket == RoundDown(maxWalkers \div SocketNum, PageWalkers)
HintThread == RoundDown(maxWalkers \div ThreadNum, AlignWalkers)

-----------------------------------------------------------------------------
(* init                                                                    *)

WalkerInit ==
    /\ phase = "sockets" /\ next = 0
    /\ maxWalkers \in WalkerNums
    /\ remain = maxWalkers
    /\ socketBegin = [s \in Sockets |-> 0] /\ socketEnd = [s \in Sockets |-> 0]
    /\ threadBegin = [t \in Team |-> 0]    /\ threadEnd = [t \in Team |-> 0]
    /\ pc = [t \in Team |-> "serial"]
    /\ active = 0
    /\ curr = [t \in Team |-> 0] /\ end = [t \in Team |-> 0]
    /\ status = [t \in Team |-> "TWORKING"]
    /\ visit = [t \in Team |-> 0] /\ work = [t \in Team |-> 0]
    /\ calls = [w \in 0 .. maxWalkers - 1 |-> 0]

\* Mutant: the last socket gets the hint as well, and the rest is lost.
WrongPlaceSocket ==
    LET begin == IF next = 0 THEN 0 ELSE socketEnd[next - 1]
        size  == Least(HintSocket, remain)
    IN
    /\ phase = "sockets" /\ next < SocketNum
    /\ socketBegin' = [socketBegin EXCEPT ![next] = begin]
    /\ socketEnd'   = [socketEnd EXCEPT ![next] = begin + size]
    /\ remain' = remain - size
    /\ next' = next + 1
    /\ UNCHANGED <<phase, maxWalkers, threadBegin, threadEnd, loopVars>>

\* The loop over sockets: whole pages, and what is left to the last socket.
PlaceSocket ==
    LET begin == IF next = 0 THEN 0 ELSE socketEnd[next - 1]
        size  == IF next + 1 = SocketNum THEN remain ELSE Least(HintSocket, remain)
    IN
    /\ phase = "sockets" /\ next < SocketNum
    /\ socketBegin' = [socketBegin EXCEPT ![next] = begin]
    /\ socketEnd'   = [socketEnd EXCEPT ![next] = begin + size]
    /\ remain' = remain - size
    /\ next' = next + 1
    /\ UNCHANGED <<phase, maxWalkers, threadBegin, threadEnd, loopVars>>

SocketsPlaced ==
    /\ phase = "sockets" /\ next = SocketNum
    /\ phase' = "threads" /\ next' = 0
    /\ UNCHANGED <<remain, maxWalkers, socketBegin, socketEnd, threadBegin, threadEnd, loopVars>>

\* Mutant: the hint is not held against what the socket has left.
WrongPlaceThread ==
    LET s == SocketId(next)
        first == SocketOffset(next) = 0
        left  == IF first THEN socketEnd[s] - socketBegin[s] ELSE remain
        begin == IF first THEN socketBegin[s] ELSE threadEnd[next - 1]
        size  == IF SocketOffset(next) + 1 = SocketThreadNum THEN left ELSE HintThread
    IN
    /\ phase = "threads" /\ next < ThreadNum
    /\ threadBegin' = [threadBegin EXCEPT ![next] = begin]
    /\ threadEnd'   = [threadEnd EXCEPT ![next] = begin + size]
    /\ remain' = left - size
    /\ next' = next + 1
    /\ UNCHANGED <<phase, maxWalkers, socketBegin, socketEnd, loopVars>>

\* The loop over a socket's threads: whole cache lines, the rest to the last one.
PlaceThread ==
    LET s == SocketId(next)
        first == SocketOffset(next) = 0
        left  == IF first THEN socketEnd[s] - socketBegin[s] ELSE remain
        begin == IF first THEN socketBegin[s] ELSE threadEnd[next - 1]
        size  == IF SocketOffset(next) + 1 = SocketThreadNum THEN left ELSE Least(HintThread, left)
    IN
    /\ phase = "threads" /\ next < ThreadNum
    /\ threadBegin' = [threadBegin EXCEPT ![next] = begin]
    /\ threadEnd'   = [threadEnd EXCEPT ![next] = begin + size]
    /\ remain' = left - size
    /\ next' = next + 1
    /\ UNCHANGED <<phase, maxWalkers, socketBegin, socketEnd, loopVars>>

ThreadsPlaced ==
    /\ phase = "threads" /\ next = ThreadNum
    /\ phase' = "ready"
    /\ UNCHANGED <<next, remain, maxWalkers, socketBegin, socketEnd, threadBegin, threadEnd, loopVars>>

-----------------------------------------------------------------------------
(* process_walkers                                                         *)

\* The i-th range that thread t visits: its own first, then the rest of its socket, then the
\* other sockets.
VictimAt(t, i) ==
    LET s == (SocketId(t) + (i \div SocketThreadNum)) % SocketNum
        o == (SocketOffset(t) + (i % SocketThreadNum)) % SocketThreadNum
    IN  s * SocketThreadNum + o

Victim(t) == VictimAt(t, visit[t])

Goto(t, from, to) ==
    /\ pc[t] = from
    /\ pc' = [pc EXCEPT ![t] = to]

Fork(a) ==
    /\ phase = "ready"
    /\ \A t \in Team : pc[t] = "serial"
    /\ pc' = [t \in Team |-> "start"]
    /\ active' = a
    /\ visit' = [t \in Team |-> 0]
    /\ calls' = [w \in 0 .. maxWalkers - 1 |-> 0]
    /\ UNCHANGED <<initVars, curr, end, status, work>>

\* Mutant: the range is not cut at the number of active walkers.
WrongStart(t) ==
    /\ Goto(t, "start", "barrier")
    /\ curr' = [curr EXCEPT ![t] = threadBegin[t]]
    /\ end'  = [end EXCEPT ![t] = threadEnd[t]]
    /\ status' = [status EXCEPT ![t] = "TWORKING"]
    /\ UNCHANGED <<initVars, active, visit, work, calls>>

Start(t) ==
    /\ Goto(t, "start", "barrier")
    /\ curr' = [curr EXCEPT ![t] = threadBegin[t]]
    /\ end'  = [end EXCEPT ![t] = Least(threadEnd[t], active)]
    /\ status' = [status EXCEPT ![t] = "TWORKING"]
    /\ UNCHANGED <<initVars, active, visit, work, calls>>

Barrier ==
    /\ \A t \in Team : pc[t] = "barrier"
    /\ pc' = [t \in Team |-> "check"]
    /\ UNCHANGED <<initVars, active, curr, end, status, visit, work, calls>>

\* Mutant: the loop variable stays where it is.
WrongNextRange(t, from) ==
    /\ Goto(t, from, IF visit[t] + 1 = ThreadNum THEN "join" ELSE "check")
    /\ UNCHANGED visit

\* On to the next range in the order of Victim; after the last one, the end of the region.
NextRange(t, from) ==
    /\ Goto(t, from, IF visit[t] + 1 = ThreadNum THEN "join" ELSE "check")
    /\ visit' = [visit EXCEPT ![t] = @ + 1]

(***************************************************************************)
(* The loop condition reads status, which its owner writes without         *)
(* synchronisation, and only then draws a chunk: between the two steps the *)
(* owner may set TCOMPLETE, which is all that a stale read can amount to.  *)
(***************************************************************************)
SeeWorking(t) ==
    /\ status[Victim(t)] = "TWORKING"
    /\ Goto(t, "check", "claim")
    /\ UNCHANGED <<initVars, active, curr, end, status, visit, work, calls>>

SeeComplete(t) ==
    /\ status[Victim(t)] = "TCOMPLETE"
    /\ NextRange(t, "check")
    /\ UNCHANGED <<initVars, active, curr, end, status, work, calls>>

\* __sync_fetch_and_add(&curr, chunk_size): the counter moves whether a chunk is left or not.
Draw(v) == curr' = [curr EXCEPT ![v] = (@ + Chunk) % Word]

ClaimChunk(t) ==
    LET v == Victim(t) IN
    /\ curr[v] < end[v]
    /\ Goto(t, "claim", "process")
    /\ Draw(v)
    /\ work' = [work EXCEPT ![t] = curr[v]]
    /\ UNCHANGED <<initVars, active, end, status, visit, calls>>

\* Mutant: a helper spins on an exhausted range until its owner marks it complete.
WrongFindExhausted(t) ==
    LET v == Victim(t) IN
    /\ curr[v] >= end[v]
    /\ Goto(t, "claim", IF visit[t] = 0 THEN "complete" ELSE "check")
    /\ Draw(v)
    /\ UNCHANGED <<initVars, active, end, status, visit, work, calls>>

FindExhausted(t) ==
    LET v == Victim(t) IN
    /\ pc[t] = "claim"
    /\ curr[v] >= end[v]
    /\ Draw(v)
    /\ \/ /\ visit[t] = 0
          /\ Goto(t, "claim", "complete")
          /\ UNCHANGED visit
       \/ /\ visit[t] > 0
          /\ NextRange(t, "claim")
    /\ UNCHANGED <<initVars, active, end, status, work, calls>>

\* The first visit is the thread's own range, which it marks complete.
MarkComplete(t) ==
    /\ status' = [status EXCEPT ![t] = "TCOMPLETE"]
    /\ NextRange(t, "complete")
    /\ UNCHANGED <<initVars, active, curr, end, work, calls>>

\* work_begin .. work_end - 1; the sum is a walker_id_t as well.
ChunkOf(t) == work[t] .. Least((work[t] + Chunk) % Word, end[Victim(t)]) - 1

ProcessChunk(t) ==
    /\ Goto(t, "process", "check")
    /\ calls' = [w \in DOMAIN calls |-> calls[w] + (IF w \in ChunkOf(t) THEN 1 ELSE 0)]
    /\ work' = [work EXCEPT ![t] = 0]
    /\ UNCHANGED <<initVars, active, curr, end, status, visit>>

Join ==
    /\ \A t \in Team : pc[t] = "join"
    /\ pc' = [t \in Team |-> "serial"]
    /\ UNCHANGED <<initVars, active, curr, end, status, visit, work, calls>>

Run(t) ==
    \/ Start(t)
    \/ SeeWorking(t)
    \/ SeeComplete(t)
    \/ ClaimChunk(t)
    \/ FindExhausted(t)
    \/ MarkComplete(t)
    \/ ProcessChunk(t)

Place == PlaceSocket \/ SocketsPlaced \/ PlaceThread \/ ThreadsPlaced

WalkerNext ==
    \/ Place
    \/ \E a \in ActiveNums \cap (0 .. maxWalkers) : Fork(a)
    \/ Barrier
    \/ Join
    \/ \E t \in Team : Run(t)

WalkerSpec == WalkerInit /\ [][WalkerNext]_walkerVars

\* Every thread of the team is scheduled, init runs to its end, barriers open.
WalkerFairness ==
    /\ WF_walkerVars(Place)
    /\ WF_walkerVars(Barrier)
    /\ WF_walkerVars(Join)
    /\ \A t \in Team : WF_walkerVars(Run(t))

FairWalkerSpec == WalkerSpec /\ WalkerFairness

-----------------------------------------------------------------------------
LoopLocations == {"serial", "start", "barrier", "check", "claim", "process", "complete", "join"}

\* The variables' types: walker numbers and counters are walker_id_t.
WalkerTypeOK ==
    /\ phase \in {"sockets", "threads", "ready"}
    /\ next \in Nat
    /\ maxWalkers \in WalkerNums
    /\ remain \in 0 .. maxWalkers
    /\ socketBegin \in [Sockets -> 0 .. maxWalkers] /\ socketEnd \in [Sockets -> 0 .. maxWalkers]
    /\ threadBegin \in [Team -> 0 .. maxWalkers]    /\ threadEnd \in [Team -> 0 .. maxWalkers]
    /\ pc \in [Team -> LoopLocations]
    /\ active \in 0 .. maxWalkers
    /\ curr \in [Team -> 0 .. Word - 1] /\ end \in [Team -> 0 .. maxWalkers]
    /\ status \in [Team -> {"TWORKING", "TCOMPLETE"}]
    /\ visit \in [Team -> 0 .. ThreadNum] /\ work \in [Team -> 0 .. Word - 1]
    /\ calls \in [0 .. maxWalkers - 1 -> Nat]

(***************************************************************************)
(* After init every walker number lies in the range of exactly one thread, *)
(* inside that thread's socket.  A range that holds walkers starts on a    *)
(* cache line, so that threads that write walker arrays do not share one,  *)
(* and a socket's on a page, as the CHECK of alloc_walker_array demands.   *)
(***************************************************************************)
RangesTile ==
    phase = "ready" =>
        /\ \A w \in 0 .. maxWalkers - 1 :
             \E t \in Team : /\ threadBegin[t] <= w /\ w < threadEnd[t]
                             /\ socketBegin[SocketId(t)] <= w /\ w < socketEnd[SocketId(t)]
                             /\ \A u \in Team :
                                  threadBegin[u] <= w /\ w < threadEnd[u] => u = t
        /\ \A t \in Team : threadBegin[t] < threadEnd[t] => threadBegin[t] % AlignWalkers = 0
        /\ \A s \in Sockets : socketBegin[s] < socketEnd[s] => socketBegin[s] % PageWalkers = 0

(***************************************************************************)
(* process_walkers calls process for no walker twice, never for two        *)
(* walkers' chunks that overlap at a time, and when the threads leave the  *)
(* loop it has called it for every active walker and for no other.         *)
(***************************************************************************)
EachWalkerProcessedOnce ==
    /\ \A w \in DOMAIN calls : calls[w] <= 1
    /\ \A t, u \in Team : t # u /\ pc[t] = "process" /\ pc[u] = "process"
                            => ChunkOf(t) \cap ChunkOf(u) = {}
    /\ (\A t \in Team : pc[t] = "join") =>
           \A w \in DOMAIN calls : calls[w] = (IF w < active THEN 1 ELSE 0)

(***************************************************************************)
(* A thread that finds a range exhausted still adds a chunk to its         *)
(* counter, but does so once: the counter stays within one chunk per       *)
(* thread of where it stood, which is the room it needs below Word.        *)
(***************************************************************************)
OvershootBounded ==
    \A v \in Team : pc[v] \in {"check", "claim", "process", "complete", "join"} =>
        LET last == IF threadBegin[v] < end[v] THEN end[v] - 1 + Chunk ELSE threadBegin[v]
        IN  curr[v] >= threadBegin[v] /\ curr[v] <= last + Chunk * ThreadNum

\* Every call of process_walkers returns.
LoopEnds == (\E t \in Team : pc[t] # "serial") ~> (\A t \in Team : pc[t] = "serial")
=============================================================================
