---------------------------- MODULE SolverMemory ----------------------------
(***************************************************************************)
(* The memory of a FMobSolver from prepare to its destruction.             *)
(*   Pools of memories: MemoryPool::get_memory makes a memory as large as  *)
(* a MemoryCounter has counted and appends it to its pool under a lock;    *)
(* the caller then takes blocks out of it.  Each manager has a pool; the   *)
(* samplers' is used by all threads at once.                               *)
(*   Walker arrays: mapped by WalkerManager, with an entry (or more) for   *)
(* each walker of the largest epoch, and unmapped by their users, who have *)
(* to tell the length.                                                     *)
(* Sizes are in bytes.                                                     *)
(***************************************************************************)
EXTENDS Threads, Epochs, SequencesExt

CONSTANTS
    PartitionNum,      \* partition_num
    VertexNum,         \* the vertices of each partition
    BufferUnits,       \* its buffer_unit_num, 0 if it has no ExclusiveBufferSampler
    ObjectSize,        \* of a generator, sampler, thread state and message task
    Alignment,         \* MemoryDataAlignment
    MemQuota,          \* mem_quota
    GraphSize,         \* the estimate of the graph and the edge buffers
    FilterSize         \* bf->size()

Partitions == 0 .. PartitionNum - 1

\* The quota has room for one walker, see SolverAssumption in Solver.
ASSUME SolverMemoryAssumption ==
    /\ PartitionNum \in Nat /\ Alignment \in Nat \ {0}
    /\ VertexNum \in [Partitions -> Nat] /\ BufferUnits \in [Partitions -> Nat]
    /\ ObjectSize \in [rand : Nat, sampler : Nat, state : Nat, task : Nat]
    /\ MemQuota \in Nat /\ GraphSize \in Nat /\ FilterSize \in Nat
    /\ MemQuota > GraphSize + FilterSize + 4 * (2 * WalkLen + 3)

VARIABLES
    isNode2vec,  \* is_node2vec
    stage,       \* which part of the solver's life it is in
    messageNum,  \* the walkers of each thread
    todo,        \* the requests each thread has still to make in this stage
    at,          \* where in get_memory and its caller a thread is
    memories,    \* the memories that exist: their data_size and what was taken of it
    pool,        \* the pool of each stage's manager
    lock,        \* who holds the lock of the pool in use
    seen,        \* the length of the pool that push_back found
    mapped,      \* the sizes of the mapped walker arrays added up
    startNum,    \* walker_start_vertices_num
    rest         \* rest_walker_num

memoryVars == <<isNode2vec, stage, messageNum, todo, at, memories, pool, lock, seen, mapped,
                startNum, rest>>
poolVars   == <<todo, at, memories, pool, lock, seen>>

None  == -1
Pools == {"rands", "samplers", "walkers", "messages"}
SizeOfId == 4     \* vertex_id_t, walker_id_t
SizeOfPid == 2    \* partition_id_t
SizeOfPointer == 8

-----------------------------------------------------------------------------
(* The plan of the epochs                                                  *)

\* Paths, output, messages, states and start vertices.
PerWalkerCost == SizeOfId * (2 * WalkLen + 2 + 1)

Estimated == GraphSize + (IF isNode2vec THEN FilterSize ELSE 0)
MaxEpoch  == MaxEpochWalkers((MemQuota - Estimated) \div PerWalkerCost)

-----------------------------------------------------------------------------
(* What is requested from the pools                                        *)

Aligned(n) == CeilDiv(n, Alignment) * Alignment

\* A MemoryCounter at counter, after al_alloc of each of the blocks.
Counter(counter, blocks) == FoldLeft(LAMBDA c, n : Aligned(c + n), counter, blocks)

\* MemoryPool::alloc
Single(name, n) == [name |-> name, counted |-> <<n>>, taken |-> <<n>>]

PerThread(name, n) == [i \in 1 .. ThreadNum |-> Single(<<name, i - 1>>, n)]

\* The sampler of partition p, and its headers and units.
BufferBlocks(p) == <<2 * SizeOfId * VertexNum[p], SizeOfId * BufferUnits[p]>>
SamplerRequests(p) ==
    <<Single(<<"sampler", p>>, ObjectSize.sampler)>>
      \o IF BufferUnits[p] = 0 THEN << >>
         ELSE <<[name |-> <<"buffer", p>>, counted |-> BufferBlocks(p), taken |-> BufferBlocks(p)]>>

ThreadOf(s, i) == s * SocketThreadNum + i - 1

\* Mutant: the states are not counted.
WrongCountedFor(t) ==
    <<ObjectSize.task, SizeOfId * PartitionNum, SizeOfId * PartitionNum, SizeOfId * messageNum[t]>>

\* The two passes of MessageManager::init over the tasks: what each counts or takes for one.
CountedFor(t) ==
    <<ObjectSize.task, SizeOfId * PartitionNum, SizeOfId * PartitionNum, SizeOfId * messageNum[t]>>
      \o IF isNode2vec THEN <<SizeOfId * messageNum[t]>> ELSE << >>
TakenFor(t) ==
    LET blocks == <<ObjectSize.task>>
                    \o <<SizeOfId * PartitionNum>> \o <<SizeOfId * PartitionNum>>
                    \o <<SizeOfId * messageNum[t]>>
    IN IF isNode2vec THEN Append(blocks, SizeOfId * messageNum[t]) ELSE blocks

TaskPointers == <<SizeOfPointer * SocketThreadNum>>
MessageRequest(s) ==
    [name    |-> <<"messages", s>>,
     counted |-> TaskPointers
                   \o FlattenSeq([i \in 1 .. SocketThreadNum |-> CountedFor(ThreadOf(s, i))]),
     taken   |-> TaskPointers
                   \o FlattenSeq([i \in 1 .. SocketThreadNum |-> TakenFor(ThreadOf(s, i))])]

-----------------------------------------------------------------------------
MemoryInit ==
    /\ isNode2vec \in BOOLEAN
    /\ stage = "new"
    /\ messageNum = [t \in Team |-> 0]
    /\ todo = [t \in Team |-> << >>] /\ at = [t \in Team |-> "request"]
    /\ memories = << >>
    /\ pool = [p \in Pools |-> << >>] /\ lock = None /\ seen = [t \in Team |-> 0]
    /\ mapped = 0 /\ startNum = 0
    /\ rest = WalkerNum

(* A request, and the lock of the pool                                     *)

Request(t) == Head(todo[t])

\* new Memory is outside the lock.
NewMemory(t) ==
    /\ todo[t] # << >> /\ at[t] = "request"
    /\ memories' = [m \in DOMAIN memories \cup {Request(t).name} |->
                        IF m = Request(t).name
                        THEN [size |-> Counter(0, Request(t).counted), taken |-> 0]
                        ELSE memories[m]]
    /\ at' = [at EXCEPT ![t] = "lock"]
    /\ UNCHANGED <<isNode2vec, stage, messageNum, todo, pool, lock, seen, mapped, startNum, rest>>

\* Mutant: there is no lock.
WrongLockPool(t) ==
    /\ at[t] = "lock"
    /\ seen' = [seen EXCEPT ![t] = Len(pool[stage])]
    /\ at' = [at EXCEPT ![t] = "push"]
    /\ UNCHANGED <<isNode2vec, stage, messageNum, todo, memories, pool, lock, mapped, startNum, rest>>

\* The lock is taken and push_back finds the end of the pool ...
LockPool(t) ==
    /\ at[t] = "lock" /\ lock = None
    /\ lock' = t
    /\ seen' = [seen EXCEPT ![t] = Len(pool[stage])]
    /\ at' = [at EXCEPT ![t] = "push"]
    /\ UNCHANGED <<isNode2vec, stage, messageNum, todo, memories, pool, mapped, startNum, rest>>

\* ... where it writes; the guard is released on return.
PushBack(t) ==
    /\ at[t] = "push"
    /\ pool' = [pool EXCEPT ![stage] =
                    [i \in DOMAIN @ \cup {seen[t] + 1} |->
                        IF i = seen[t] + 1 THEN Request(t).name ELSE @[i]]]
    /\ lock' = None
    /\ at' = [at EXCEPT ![t] = "take"]
    /\ UNCHANGED <<isNode2vec, stage, messageNum, todo, memories, seen, mapped, startNum, rest>>

TakeBlocks(t) ==
    /\ at[t] = "take"
    /\ memories' = [memories EXCEPT ![Request(t).name].taken = Counter(@, Request(t).taken)]
    /\ todo' = [todo EXCEPT ![t] = Tail(@)]
    /\ at' = [at EXCEPT ![t] = "request"]
    /\ UNCHANGED <<isNode2vec, stage, messageNum, pool, lock, seen, mapped, startNum, rest>>

MemoryThread(t) == NewMemory(t) \/ LockPool(t) \/ PushBack(t) \/ TakeBlocks(t)

-----------------------------------------------------------------------------
(* prepare                                                                 *)

AllMade == \A t \in Team : todo[t] = << >>

\* From one stage to the next, in which the master makes the requests alone.
MasterRequests(from, to, requests) ==
    /\ stage = from /\ AllMade
    /\ stage' = to
    /\ todo' = [todo EXCEPT ![0] = requests]

PrepareRands ==
    /\ MasterRequests("new", "rands", PerThread("rand", ObjectSize.rand))
    /\ UNCHANGED <<isNode2vec, messageNum, at, memories, pool, lock, seen, mapped, startNum, rest>>

\* The loop over the partitions is parallel, with any division among the threads.
InitSamplers ==
    /\ stage = "rands" /\ AllMade
    /\ stage' = "samplers"
    /\ \E owner \in [Partitions -> Team] :
          todo' = [t \in Team |->
                      FlattenSeq([i \in 1 .. PartitionNum |->
                          IF owner[i - 1] = t THEN SamplerRequests(i - 1) ELSE << >>])]
    /\ UNCHANGED <<isNode2vec, messageNum, at, memories, pool, lock, seen, mapped, startNum, rest>>

\* The threads' ranges tile the walkers, see WalkerManager.
InitWalkers ==
    /\ MasterRequests("samplers", "walkers", PerThread("state", ObjectSize.state))
    /\ messageNum' \in {num \in [Team -> 0 .. MaxEpoch] : FoldFunction(+, 0, num) = MaxEpoch}
    /\ UNCHANGED <<isNode2vec, at, memories, pool, lock, seen, mapped, startNum, rest>>

\* alloc_walker_array(len) of entries of a size.
ArraySize(size, len) == size * len * MaxEpoch

\* With partition_ids.
InitMessages ==
    /\ MasterRequests("walkers", "messages", [i \in 1 .. SocketNum |-> MessageRequest(i - 1)])
    /\ mapped' = mapped + ArraySize(SizeOfPid, 1)
    /\ UNCHANGED <<isNode2vec, messageNum, at, memories, pool, lock, seen, startNum, rest>>

\* One array per step of the paths.
InitWalks ==
    /\ stage = "messages" /\ AllMade
    /\ stage' = "ready"
    /\ mapped' = mapped + WalkLen * ArraySize(SizeOfId, 1)
    /\ UNCHANGED <<isNode2vec, messageNum, poolVars, startNum, rest>>

-----------------------------------------------------------------------------
(* The driver, and the destructors                                         *)

AllocOutput ==
    /\ stage = "ready"
    /\ stage' = "walking"
    /\ mapped' = mapped + ArraySize(SizeOfId, WalkLen)
    /\ UNCHANGED <<isNode2vec, messageNum, poolVars, startNum, rest>>

\* walk: get_walker_start_vertices makes a new array if the one it has is for fewer walkers.
WalkEpoch ==
    LET epoch    == Least(MaxEpoch, rest)
        unmapped == IF startNum = 0 THEN 0 ELSE ArraySize(SizeOfId, 1)
    IN /\ stage = "walking" /\ rest # 0
       /\ mapped' = IF startNum < epoch THEN mapped - unmapped + ArraySize(SizeOfId, 1) ELSE mapped
       /\ startNum' = epoch
       /\ rest' = rest - epoch
       /\ UNCHANGED <<isNode2vec, stage, messageNum, poolVars>>

\* Mutant: the length is left out.
WrongDeallocOutput ==
    /\ stage = "walking" /\ rest = 0
    /\ stage' = "walked"
    /\ mapped' = mapped - ArraySize(SizeOfId, 1)
    /\ UNCHANGED <<isNode2vec, messageNum, poolVars, startNum, rest>>

DeallocOutput ==
    /\ stage = "walking" /\ rest = 0
    /\ stage' = "walked"
    /\ mapped' = mapped - ArraySize(SizeOfId, WalkLen)
    /\ UNCHANGED <<isNode2vec, messageNum, poolVars, startNum, rest>>

InPools == UNION {{pool[p][i] : i \in DOMAIN pool[p]} : p \in Pools}

(***************************************************************************)
(* ~FMobSolver unmaps the walks and the start vertices, ~MessageManager    *)
(* the partition_ids; the pools delete their memories, each of which       *)
(* CHECKs that all of it was taken.                                        *)
(***************************************************************************)
Destroy ==
    /\ stage = "walked"
    /\ \A m \in InPools : memories[m].taken = memories[m].size
    /\ stage' = "destroyed"
    /\ memories' = [m \in DOMAIN memories \ InPools |-> memories[m]]
    /\ pool' = [p \in Pools |-> << >>]
    /\ mapped' = mapped - WalkLen * ArraySize(SizeOfId, 1)
                        - (IF startNum = 0 THEN 0 ELSE ArraySize(SizeOfId, 1))
                        - ArraySize(SizeOfPid, 1)
    /\ UNCHANGED <<isNode2vec, messageNum, todo, at, lock, seen, startNum, rest>>

MemoryNext ==
    \/ PrepareRands \/ InitSamplers \/ InitWalkers \/ InitMessages \/ InitWalks
    \/ \E t \in Team : MemoryThread(t)
    \/ AllocOutput \/ WalkEpoch \/ DeallocOutput \/ Destroy

MemorySpec == MemoryInit /\ [][MemoryNext]_memoryVars

-----------------------------------------------------------------------------
(***************************************************************************)
(* The variables' types.  The CHECKs of Memory::align are in it: no block  *)
(* goes past the end of its memory, so that blocks never overlap.          *)
(***************************************************************************)
MemoryTypeOK ==
    /\ isNode2vec \in BOOLEAN
    /\ stage \in Pools \cup {"new", "ready", "walking", "walked", "destroyed"}
    /\ messageNum \in [Team -> 0 .. MaxEpoch]
    /\ at \in [Team -> {"request", "lock", "push", "take"}]
    /\ \A m \in DOMAIN memories : memories[m].taken \in 0 .. memories[m].size
    /\ lock \in Team \cup {None} /\ seen \in [Team -> Nat]
    /\ mapped \in Nat /\ startNum \in 0 .. MaxEpoch /\ rest \in 0 .. WalkerNum

(***************************************************************************)
(* Whatever threads meet at the lock of a pool, behind the region every    *)
(* memory is in a pool, once, so that it will be deleted once; and all of  *)
(* it was taken, so that the CHECK in its destructor holds.                *)
(***************************************************************************)
PoolsComplete ==
    AllMade =>
        /\ DOMAIN memories = InPools
        /\ \A p \in Pools : \A i, j \in DOMAIN pool[p] : pool[p][i] = pool[p][j] => i = j
        /\ \A m \in InPools : memories[m].taken = memories[m].size

\* Whoever unmaps an array knows its length, and nobody forgets to.
NothingLeaked ==
    /\ stage = "destroyed" => memories = << >> /\ mapped = 0
    /\ stage = "walked" => mapped = ArraySize(SizeOfPid, 1) + (WalkLen + 1) * ArraySize(SizeOfId, 1)

\* What is in use for every walker: the mapped arrays, messages and states.
WalkersSize ==
    mapped + IF <<"messages", SocketNum - 1>> \in DOMAIN memories
             THEN SizeOfId * MaxEpoch * (IF isNode2vec THEN 2 ELSE 1)
             ELSE 0

(***************************************************************************)
(* The help of --mem says "Maximum memory this program will use".  Counted *)
(* are the arrays with an entry for each walker, and the graph, buffers    *)
(* and filter with no more than estimate_epoch_walker takes them for.      *)
(***************************************************************************)
QuotaKept == Estimated + WalkersSize <= MemQuota
=============================================================================
