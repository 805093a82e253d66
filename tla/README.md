# FlashMob in TLA+

FlashMob is a C++/OpenMP engine for random walks (DeepWalk, node2vec) on graphs
that fit into one machine's memory. It sorts walkers into cache-sized partitions
of the graph, lets each partition be walked by one thread, and sorts the walkers
back, once for every step. This directory models that core and the parts that
prepare it: how walkers, partitions and edges are shared by threads without
locks, how the graph and its plan are laid out, how node2vec's neighbour queries
are answered, how memory is counted and handed out, what is kept from one epoch and
from one run of the program to the next.

Paths are given from the top of the source repository: `src/core/walk.hpp` is the
file `src/src/core/walk.hpp` of `PROJECT.json`. Identifiers of the code are kept
where TLA+ allows it.

1. [The system](#1-the-system)
2. [Modules](#2-modules)
3. [Runs](#3-runs)
4. [Fairness](#4-fairness)
5. [Disagreements between the code and its comments](#5-disagreements)
6. [Proofs](#6-proofs)
7. [What is not modelled](#7-what-is-not-modelled)
8. [Plan](#8-plan)

## 1. The system

A run of `deepwalk` or `node2vec` goes through these parts, in this order:

    Graph::load -> get_partition_hint (mini_benchmark, dp) -> Graph::make
      -> FMobSolver::prepare (prepare_neighbor_query, SamplerManager,
                              WalkerManager, MessageManager)
      -> per epoch: init, then per step: shuffle -> walk -> update, then deliver

Only OpenMP regions run concurrently; between two regions there is a barrier and
one master thread. Inside a region threads meet through fetch-and-add counters
and a few unsynchronised reads, and through two locks: the mutex of the mini
benchmark's catalogue and that of a memory pool.

| component | state | operations | hard behaviour | correct when |
|---|---|---|---|---|
| `MultiThreadConfig` (`include/type.hpp`) | thread and socket numbers | `socket_id`, `socket_offset` | numbers that do not divide | every thread is on a socket, every socket has its team |
| `Graph` (`core/graph.hpp`) | vertices sorted by degree, groups, partitions, adjacency lists, per-socket edge arrays | `load`, `counting_sort`, `make`, `get_vertex_partition_id` | two renumberings, rounding at the last group, concurrent filling | lookup agrees with the partitions, lists are the file's edges |
| Partition hints (`core/partition.hpp`) | a table of a knapsack | `get_partition_hint`, `dp` | boundaries of the table, infeasible plans | the plan fits and is optimal |
| Mini benchmark (`core/mini_bmk.hpp`) | catalogue in memory and in a file | constructor, `has_item`, `add_item`, `save_catalogue` | kill between steps, sharing of tasks, spin barrier | results are complete, nothing is measured twice |
| `SamplerManager` and samplers (`core/sampler.hpp`) | one sampler per partition, edge buffers | `init`, `sample`, `fill`, `clear` | refilling of buffers, address arithmetic | an answer is a fresh draw of an edge of the vertex |
| `WalkerManager` (`core/walker.hpp`) | ranges of walkers, a counter per thread | `init`, `process_walkers` | work stealing, width of counters | every active walker is processed once |
| `MessageManager` (`core/message.hpp`) | per thread: messages, states, blocks | `prepare`, `shuffle`, `update` | arrays that live longer than an epoch | a walker gets back its own message |
| `WalkManager` (`core/walk.hpp`) | counters per socket, node2vec's bounds | `walk`, `set_node2vec`, `node2vec_accept` | partitions taken from two ends; shortcuts of the acceptance test | each partition is walked once, by one thread; neighbours are accepted by their weights |
| Bloom filter, `has_neighbor` (`include/hash.hpp`, `core/graph.hpp`) | words of bits, sorted lists | `prepare_neighbor_query`, `insert`, `exist`, `has_neighbor` | two parallel loops, bits set concurrently, collisions | the answer is exact |
| Memory pool (`include/memory.hpp`) | memories, what was counted and taken | `al_alloc`, `get_memory`, `alloc`, destructors | counting and taking are two passes; a pool shared by threads | blocks fit, every memory is freed once |
| Epoch planning (`estimate_epoch_walker`) | | | bytes per walker added up by hand | epochs cover the walkers and fit the quota |
| `FMobSolver` (`core/solver.hpp`) | epochs, paths | `prepare`, `has_next_walk`, `walk`; the driver | epochs of different size, pointers that move along | every path is a walk in the graph, delivered once |
| Random generators, I/O, options, logging | | | | see [section 7](#7-what-is-not-modelled) |

How they interact: the plan of `dp` decides the partitions `make` builds; `make`'s
partitions index everything later (`socket_partitions`, the samplers, the blocks
of messages); `WalkerManager`'s ranges become the tasks of `MessageManager`; in
the walk, a thread touches the sampler and all tasks' blocks of a partition
without a lock, which is only right because no other thread has the partition.
The list of what can go wrong, at its line, is `hazards` in `PROJECT.json`.

## 2. Modules

| module | models | remarks |
|---|---|---|
| `Threads` | `MultiThreadConfig` | extended by every module with threads |
| `WalkClaim` | the parallel region of `WalkManager::walk` | claiming only; what is done in a partition is one step |
| `WalkerManager` | `init` and `process_walkers` | counters are `Word` wide |
| `RandomWalk` | what the caller is promised | abstract: no threads, partitions, tasks |
| `Epochs` | the arithmetic of `estimate_epoch_walker` | extended by `Solver` and `SolverMemory` |
| `Solver` | `FMobSolver`, `MessageManager`, the walk, the driver | composes `WalkClaim`; shown to implement `RandomWalk` |
| `NeighborQuery` | `prepare_neighbor_query`, `BloomFilter`, `has_neighbor`, `node2vec_accept` | extends `Threads` |
| `SolverMemory` | `MemoryPool`, the arrays of the solver and its managers, their release | extends `Threads`, `Epochs` |
| `Samplers` | one partition's sampler | all four classes |
| `Arithmetic` | `1 << n`, running totals | recursive functions |
| `Groups` | sizes of groups and partitions | shared arithmetic; extends `Arithmetic` |
| `GraphLayout` | `load` and `make` | extends `Groups`, `Threads` |
| `PartitionPlan` | `dp` | extends `Groups` |
| `MiniBenchmark` | `mini_benchmark`, its catalogue, kills | extends `Threads` |
| `CommonProofs` | | lemmas for the others: threads, division, powers, sums, induction |
| `WalkerManagerProofs`, `SolverProofs` (with `WalkClaim`), `SamplersProofs`, `NeighborQueryProofs`, `SolverMemoryProofs`, `MiniBenchmarkProofs`, `PartitionProofs` (`PartitionPlan` and `GraphLayout`) | | theorems, [section 6](#6-proofs) |
| `MC...` | | values for the runs |

Definitions named `Wrong...`, `Early...` or `Late...` are plausible bugs of the definition they stand
beside. No specification uses them; each shows that one property can fail.

**WalkClaim.** `progress`, `hdv`, `ldv` are the three counters per socket. A
thread draws a ticket (`DrawTicket`), and in a separate step takes the next
partition from the high-degree or the low-degree end (`TakeHighEnd`,
`TakeLowEnd`), as the code's two fetch-and-adds are two steps. `walked` is a
history of how often each partition was walked.

**WalkerManager.** `PlaceSocket` and `PlaceThread` are the iterations of `init`'s
loops. In `process_walkers`, the read of `status` (`SeeWorking`, `SeeComplete`),
the claim (`ClaimChunk`, `FindExhausted`), the write of `status` (`MarkComplete`)
and the processing of the chunk are separate steps of a thread, since others may
come in between. Sums wrap at `Word`.

**Solver.** The three regions of a step are `BeginShuffle`/`ShuffleTask`,
`BeginWalk`/`ClaimPartition`/`WalkPartition`/`EndWalk` and `UpdateTask`/`EndStep`.
A task is worked off in one step: it is one thread's, and nothing another thread
does in the region reads or writes it. A partition is walked in one step for the
same reason, which is not assumed but is `ExclusivePartition`. `msgs`, `states`,
`blockBegin`, `taskBegin` and so on are never reset between epochs, as in the
code. `cond` is a history: the previous vertex a message's last step was
conditioned on. node2vec's rejection sampling is the choice of any neighbour here;
which it may choose, and how often, is the subject of `NeighborQuery`.

**NeighborQuery.** The two loops of `prepare_neighbor_query` have a dynamic schedule:
`Take` is a thread's fetch-and-add on the loop's counter. A partition's lists are
sorted in one step (no other thread touches them), but each `InsertEdge` is a step,
since threads set bits of the same words. The order of the pairs a thread inserts
is left open. A hash and a pair's bits are constants, so the run can choose pairs
that collide. `std::sort` is any ascending order of the list, and
`std::binary_search` may answer anything about a list that is not sorted. One, 1/p
and 1/q are integers in a unit that divides all three; `Accepts` gives the possible
results of `node2vec_accept` for a number, and `Step` is the last turn of the
rejection loop.

**SolverMemory.** `stage` goes through `prepare`, the driver and the destructors.
A request to a pool is four steps of a thread: `NewMemory` outside the lock,
`LockPool`, `PushBack` (which writes where the pool ended when it looked) and
`TakeBlocks`. `CountedFor` and `TakenFor` are the two passes of
`MessageManager::init`, written separately as in the code. Walker arrays are not
pool memory; `mapped` adds up what is mapped of them, and every release states its
own length again. The pools of the graph and of the filter, which the master fills
before and which live as long, are used in the same way and left out.

**Samplers.** An edge is represented by the vertex whose list it lies in, so a
draw is its vertex, and a wrong address gives another vertex. `fresh` is a
history of the entries of a buffer that were drawn and not handed out. `make` starts
a partition's least degree from `v_num`, which parallel edges may exceed, so the
class `Uniform` is not chosen for all partitions of equal degrees (`Ahead`).

**GraphLayout.** Names are the numbers in the file, ids the order of appearance,
positions the final numbers. The plan of partitions is any one the hints could
choose (`TakeHints`). `ClaimSlot` is the fetch-and-add on the vertex's cursor,
`WriteSlot` the store; the threads' edges are OpenMP's static schedule.
Parallel loops whose iterations do not touch each other's data (degrees, copies)
are one step.

**PartitionPlan.** A row of the table is a step per candidate (`TryCandidate`)
and the pass that fills columns without a plan (`CarryOver`). In the code this
pass compares `f[g_i][p_i].val` with itself (line 191) and so never takes over a
better neighbour; `RowsOptimal` shows that nothing is lost, since row 0 is zero
everywhere and a column that fits is at least as good as the one before it. Costs
are natural numbers here, which add up exactly; the code's are doubles.

**MiniBenchmark.** Of a measurement only its keys and whether its time was read
back whole matter. `Crash` is a kill while measuring or saving; of the line being
written a beginning may be left, which may read as a line with another time
(`Torn`).

## 3. Runs

Each run finishes within two minutes with two workers; states are distinct states.

| run | instance | states | shows |
|---|---|---|---|
| `walk_claim` | 6 threads, 2 sockets of 2 and 3 partitions | 28,188 | `ExclusivePartition`, `EachPartitionWalkedOnce`, `RegionEnds` |
| `walker_manager` | 4 threads, 2 sockets, 11 or 19 walkers, 5 active | 194,856 | `RangesTile`, `EachWalkerProcessedOnce`, `OvershootBounded`, `LoopEnds` |
| `walker_counter_wrap` | counters of 3 bits | | a violation, [section 5](#5-disagreements) |
| `solver` | 3 vertices, 2 partitions, 2 threads, 5 walkers in epochs of 3 and 2, paths of 3 | 301,510 | `WalkersCovered`, `MessagesAtHome`, `SecondOrder`, `ImplementsRandomWalk`, `AllDelivered` |
| `first_step` | the same | | a violation |
| `neighbor_query` | 2 threads, 4 vertices in 3 partitions, 2 graphs, 4 pairs of p and q, prepared twice | 48,000 | `HasNeighborExact`, `AcceptedByWeight` |
| `solver_memory` | 4 threads, 2 sockets, 3 partitions, 5 walkers in epochs of at most 3 | 998,878 | `PoolsComplete`, `NothingLeaked` |
| `memory_quota` | the same | | a violation |
| `samplers` | the last 3 of 7 vertices, 16 sequences of degrees | 6,050 | `SampledOwnEdge`, `EveryDrawFresh`, `BuffersApart` |
| `graph_layout` | 3 files, 4 threads, 2 sockets | 42,249 | `LookupAgrees`, `DegreesFall`, `ShuffleBalanced`, `SlotsExclusive`, `GraphKept`, `LayoutEnds` |
| `partition_plan` | 3 groups, 11 vertices, at most 7 partitions | 11,449 | `RowsOptimal`, `PlanOptimal` |
| `mini_benchmark` | 2 threads, 3 degrees, 3 starts | 59,735 | `AddedOnce`, `ResultsCover`, `FileIsCatalogue`, `BenchmarkEnds` |

Each passing run also checks its module's type invariant (`...TypeOK`).

Why the bounds are enough, as far as bounds can be (the safety properties are also
proved for every instance, [section 6](#6-proofs)):

- `walk_claim`: with three threads per socket two threads share the low end and
  one has the high end; socket 0 has fewer partitions than threads, so threads
  leave without one.
- `walker_manager`: 11 walkers leave the first socket without any, 19 do not; 5
  active walkers cut a range in the middle and leave threads without own work.
  Chunks of 2 make a range of several chunks, the last one short. `Word = 64`
  leaves room for the overshoot (`MCNoWrap`).
- `solver`: a partition with two vertices and one with one; a task with one
  walker and one with two; a second epoch that cuts the second task; a path of
  three vertices, so that a second-order step and the reuse of both arrays
  happen.
- `neighbor_query`: three partitions for two threads, one of two vertices; a double
  edge, which is inserted twice; a directed graph, some of whose edges have a
  reverse and some have not, so that the filter lets pairs through that only the
  search turns down; p and q above, at and below 1 on either side, so that each of
  1, 1/p and 1/q is the greatest and the least once; a second preparation, which
  finds sorted lists and throws a filter away.
- `solver_memory`: partitions with and without an edge buffer, every division of
  them among the threads and of the walkers among the ranges, threads with no
  walker at all included; sizes that are a multiple of the alignment and sizes that
  are not; a second epoch that is shorter, for which the start vertices are kept.
- `samplers`: all classes occur; a degree above, at and below the least buffer
  length, a power of two that is made longer; runs of equal degrees of any
  length; more different degrees than hints have room for; equal degrees above the
  number of vertices.
- `graph_layout`: a star with two groups (a whole one and one of three vertices),
  every plan for it; a graph with a double edge and a loop; a directed graph. Two
  threads meet at the same vertex's cursor.
- `partition_plan`: all costs of 1 or 3 for 9 candidates, so that cheap and dear
  candidates of every size meet, and the finest plan is too large. The mini
  benchmark leaves out sizes too small for a walker, so the sizes benchmarked are
  those from some least one up, or none at all: each of these sets occurs.
- `mini_benchmark`: requests that overlap, so a later run finds a part in the
  file; kills in all phases. Deadlock is not checked here: after `MaxRuns` starts
  the program is not started again.

The other bounds are in the `.cfg` files and the comments of the MC modules.

## 4. Fairness

Every thread of a team is scheduled by the operating system and nothing in the
regions takes a lock that could be held for ever, so the steps of each thread are
weakly fair; so is the barrier at the end of a region, and the master thread
between regions. Weak fairness is enough because a thread's next step, once
enabled, stays so until it is taken, but for the disjunction that a fetch-and-add
makes (a ticket may become worthless), where fairness is on the disjunction. In
`WalkClaim` and `WalkerManager` calls (`Fork`) are not fair: the caller may stop
calling. In `MiniBenchmark` neither starting nor killing is fair.

The spin barrier of the mini benchmark (`while (finished_thread_num != ...)`)
ends because all threads of the team run, which needs as many threads as the team
asks for: the code turns OpenMP's dynamic adjustment off
(`omp_set_dynamic(0)`, `include/numa_helper.hpp:66`).

`NeighborQuery` and `SolverMemory` state no fairness: their loops end for the same
reason as those above, and nothing in them waits for another thread but the lock of
a pool, which is released in the step after the one that takes it.

## 5. Disagreements

Three runs are expected to end in a violation.

- `first_step`: the comment of `WalkManager` (`core/walk.hpp:158-159`) says that
  for node2vec "the first step is just static walk". `FMobSolver::walk` passes
  `node2vec_walk = is_node2vec && l_i != 0` while `l_i` starts at 1, so the first
  step is second-order, on a `states` array nothing was written to in this epoch:
  zero in the first epoch, other walkers' vertices later on.
- `memory_quota`: the help text of `--mem` (`include/option.hpp:146`, `README.md:121`)
  says "Maximum memory this program will use". `estimate_epoch_walker` reckons 8
  bytes per vertex of a path and 12 more for each walker, while a node2vec solver
  has 14 more: messages, states and start vertices (4 each) and partition ids (2).
  A quota that just holds an epoch is exceeded by up to two bytes per walker.
  Without node2vec the estimate is enough.
- `walker_counter_wrap`: `process_walkers` computes `work_begin + chunk_size` in
  32 bits while an epoch may have 2^32 - 2 walkers. The last chunk's end wraps to
  0 and its walkers are not processed, and the counter itself wraps below the end
  of its range. The run shows it on a scale of 8 for 2^32, 6 for 2^32 - 2 and
  chunks of 4 for 64. It needs a machine whose memory holds that many walkers.

Smaller ones, which no run is about:

- The comment of `SimilarDegreeDirectSampler::valid` (`core/sampler.hpp:286-287`) says
  that the vertices of a partition "must be sorted by their degree in ascending
  order". The code has them the other way round: `counting_sort` puts the largest
  degrees first, the shuffle keeps the order within a partition, and the `CHECK` of
  the same function (line 299) asks for falling degrees. `DegreesFall` states the order
  that the code keeps and relies on, which no partition with two different degrees
  reconciles with the comment: the comment has the order the wrong way round.
- The comment of `get_edge_buffer_length` (`core/sampler.hpp:39`) says that the size
  "cannot be a power of 2", while degrees up to 8 get a buffer of 8 entries, which is one
  (`BufferLength`).
- The comment of `dp` (`core/partition.hpp:19-20`) bounds partitions by
  `max_shuffle_partition_num`, the code by `max_partition_num`.
- The comment of `gen_float` (`include/random.hpp`) excludes the upper bound, which the
  generators do return.

## 6. Proofs

The proofs are checked by TLAPS (SMT, Zenon, LS4) for every value of the constants
that satisfies the named assumptions: `ThreadsAssumption`, `PartitionNumAssumption`,
`EpochsAssumption`, `SolverAssumption`, `WalkerAssumption`, `SamplersAssumption`,
`NeighborQueryAssumption`, `SolverMemoryAssumption`, `BenchmarkAssumption`,
`GraphAssumption`, `GroupsAssumption`, `PlanAssumption`. TLC evaluates them in the
runs. Some theorems need more, which the code does not check, and say so as a
hypothesis:

- `NoWrap` (three theorems of `WalkerManagerProofs`: `LoopInvariant`,
  `WalkersProcessedOnce`, `CountersOvershootOnce`): the counters of
  `process_walkers` have room for the chunks that threads add past the end of a
  range. Without it the statements are false, as the run `walker_counter_wrap`
  shows; `MCNoWrap` lets TLC confirm that the instance of `walker_manager` has it.
- `WholeGroupsFit` (all theorems of `PartitionProofs`; those of the layout have it as
  `GroupsFit`, which says it of every file): the vertices, rounded up to whole groups, are fewer than 2^32. Otherwise
  `(g_i + 1) << group_bits` wraps at the last group, whose number of partitions is
  then computed from a negative difference.

**`CommonProofs`**: `socket_id` is a socket (`SocketIdType`) and every socket has a
thread (`SocketHasThread`), for thread numbers that are a multiple of the socket
number; quotient and remainder (`DivMod`); powers of two (`TwoToSum` and the lemmas
beside it); sequences. `Induction` says that a set which holds 0 and with each
number the next holds all natural numbers: a proof by induction defines the set of
the numbers a claim is true of. Sums and powers are recursive functions, whose
equations are proved first by such an induction over the partial solutions.

**`SolverProofs`, the walk region**: `ClaimTypeCorrect`, `ClaimExclusive`,
`ClaimComplete`. `ExclusivePartition` is not inductive: nothing in it says that the
two ends have not met. `ClaimCounts` adds a count: on each socket, partitions taken
from either end plus threads that hold an unused ticket are as many as the tickets
given out (`TicketsAddUp`), of which there are at most as many as partitions. A
thread about to take a partition thus finds a gap between the ends
(`GapBetweenEnds`). `HeldIsTaken` and `HeldByOne` say what is held;
`WalkedIsTakenAndReleased` and `LeftMeansSoldOut` lead to the second half: at the
end of the region tickets are sold out and nobody holds one, so everything was taken
and walked. `ClaimTypeOK` is not inductive either: its bound on the tickets follows from
`TicketsBounded`, by which every ticket past the last has sent a thread out of the
loop, its bound on the ends from `TicketsAddUp` (`ClaimTypeFollows`). Cardinality is
handled by lemmas about a thread that enters or leaves a set (`IndexingEnter`,
`IndexingLeave`, `OutsideEnter`), and there is one lemma per action.

**`SolverProofs`, the solver**: `SolverTypeCorrect`, `AllWalkersCovered`,
`MessagesHome`, `SecondOrderKept`, `SolverRefines`. The invariant rests on what the
counting sort does. The slot of a walker is the number of its task's walkers that
come before it, in the order by partition and then by walker. So two walkers have
two slots, and the walkers of one partition fill the slots of its block, which is
what makes a message both at home in its block and its walker's own. From the
shuffle to the update the slot of a walker holds the vertex the walker is at, and
after its partition was walked a neighbour of it. The tasks of an epoch are those of
the one before, cut where the epoch ends. For the refinement, `UpdateTask` is a
step of the task's walkers in `RandomWalk`, `BeginEpoch` and `Deliver` are its
beginning and its delivery, and every other action is a stutter; the proof has a
lemma for each.

**`WalkerManagerProofs`**: `WalkerTypeCorrect`, `WalkersPlaced`,
`WalkersProcessedOnce`, `CountersOvershootOnce`. For `init`, the invariant follows
the two loops: what is placed so far is a prefix of the walkers, cut into ranges in
the order of their owners, and a range ends on a page (a socket's) or a cache line (a
thread's) or where nothing is left; `RangesTile` says nothing of the way there. For
`process_walkers`, an active walker is in front of its range's counter, or in a chunk
that one thread has drawn, or processed, and only one of these. A counter behind the
end of its range belongs to a thread that is `complete` or about to be; a thread that
has seen this does not come back in the region, so that each adds one chunk at most,
which is the overshoot.

**`SamplersProofs`**: `SamplersTypeCorrect`, `SamplersOwnEdge`, `SamplersDrawFresh`,
`SamplersBuffersApart`. `SamplersIInv` follows the loops of the init functions:
each buffer placed begins where the one before it ended and is filled with fresh
draws of its vertex between head and end (`BuffersInv`); the hints so far are
consecutive runs of equal degrees that cover the vertices so far (`HintsInv`).
That the array of hints is never overrun (`HintsFit`) follows from the falling
degrees: each hint's degree is smaller than the one before it, and the class is
only chosen when the difference of the largest and the smallest is small. The
order of the degrees and the spacing of the lists are `SamplersAssumption`; that
`make` keeps it, in every partition it lays out, is the theorem `SamplersAreServed`
of `PartitionProofs`.

**`NeighborQueryProofs`**: `QueryTypeCorrect`, `NeighborsExact`, `WeightsKept`.
`HasNeighborExact` speaks of the prepared query only; `QueryIInv` says what the two
loops have achieved on the way. `ListsKept`: sorting keeps the elements of a list.
`SortedSoFar`: a partition that was taken and that no thread holds is sorted.
`InsertedSoFar`: an edge of a partition that was taken is in the filter, or is among
what the holder of the partition has still to insert. At the barrier everything was
taken and nothing is held, which leaves what the query needs. Bits are only ever
added while the filter is filled, so an insertion by one thread undoes
none of another's. `InvImpliesExact` then joins filter and search, and
`AcceptsWeight` shows that the shortcuts of `node2vec_accept` agree with the weight
of the edge; its count is the length of an interval. That the loop which doubles the
table's size ends with a positive one is `CapacityType`.

**`SolverMemoryProofs`**: `MemoryTypeCorrect`, `PoolsAreComplete`, `NothingIsLeaked`.
The core is that at most one thread is between `LockPool` and `PushBack`, so a pool
does not grow between the look at its end and the write there, and that no two
requests have one name. A pool's memories are then those of the requests that were
pushed. The two passes of `MessageManager::init` ask for the same arrays, so what is
counted is what is taken. Of the walker arrays, `mapped` is the sum over those in
use, each with its own length, so releasing all of them leaves zero.

**`MiniBenchmarkProofs`**: `BenchmarkTypeCorrect`, `MeasuredOnce`, `ResultsComplete`,
`CatalogueSaved`. While threads measure, a task is in one of three places: ahead of
the shared counter of degrees, among what one thread has still to do, or in the
catalogue. That the first two are not in the catalogue is the guard against
measuring twice; that the three together hold every task, the guard against
forgetting one. A kill loses the catalogue in memory and leaves of the file a
beginning.

**`PartitionProofs`, the layout**: `LookupIsRight`, `GraphTypeCorrect`,
`DegreesAreSorted`, `ShuffleIsBalanced`, `SlotsAreExclusive`, `GraphIsKept`, and with
them `NobodyIsPassedOver` and `SamplersAreServed`. `make` is a sequence of loops, each of
which relies on what those before it have left behind, so there are three inductive
invariants, each proved with the help of the ones before it.

- `LayoutIInv`: names have one id each, so there are as many vertices as names; the
  partitions of the groups laid so far stand behind one another from the group's
  offset on, all but the last of a group full. A vertex is its group, the partition in
  it and a remainder, by two divisions, and in only one way: this is the lookup.
- `OrderInv`: while `counting_sort` runs, a counter is the number of ids with a smaller
  degree and of those of the same degree that were placed, and an id that was placed
  stands at its rank (`SortedSoFar`); ranks are unique, so that in the end `units` is a
  permutation in falling order of degree (`Falling`). While the shuffle runs, each
  partition has one vertex of every full round and one of this round if it had its turn
  (`ShuffledSoFar`), and a position whose turn has come holds the vertex dealt out
  then. `Turn` is a bijection (`TurnUnique`, `SpotIs`) that rises within a partition,
  which gives `DegreesFall`. Of two partitions one is ahead in even rounds and the other
  in odd ones, each by a round's drop at most, which an induction over the rounds adds
  up to the balance (`TurnsEvenOut`). That `PlaceVertex` leaves out the code's test for
  partitions that are full is justified by `NobodyIsPassedOver`.
- `FillInv`: there is a function that gives every half edge claimed so far its place,
  behind the begin of its vertex's list and in front of the cursor, and no two the same
  (`PlacedIn`); half edges that were written are in the arrays at their place, and
  nothing else is. `DegreeIsHalves` says that a vertex has as many half edges as its
  degree, so the cursor never leaves the list, and `ListsAreApart` that no two lists of
  a socket overlap: claimed entries are therefore exclusive. When all threads are
  through, the function is a bijection between the half edges of a vertex and the
  entries of its list, which makes the lists the edges of the file (`GraphKept`).

That every index lies in its array (`GraphTypeOK`) follows from all three: the places of
the counting sort from `OrderInv` (`PlaceWithin`), the room in partitions from
`LayoutIInv` and `OrderInv` (`RoomWithin`), the cursors from `FillInv` (`CursorWithin`).

None of `DegreesFall`, `ShuffleBalanced`, `SlotsExclusive` and `GraphKept` is inductive:
each speaks of a phase that is over, or of threads' claims and not of where the other
entries went. TLC has checked `OrderInv` and `FillInv` on the instance of `graph_layout`
(for `FillInv` with a history variable for the function), and `SamplersServed` too,
before they were proved.

`SamplersAreServed` joins two modules: each partition of `make` is one that
`SamplersAssumption` speaks of, so that what `SamplersProofs` shows of one partition
holds of all that the program builds.

**`PartitionProofs`, the plan**: `PlanTypeCorrect`, `RowsAreOptimal`,
`PlanIsOptimal`. `PlanIInv` says, of the row at work, that each column holds the least time of
the plans that end with a candidate tried so far: a plan that ends with the next
one is a plan of the row above with room for it, and that candidate. Every entry's
value is that of its predecessor and its candidate's time, which is never reset, so
on reading back the times of the candidates read and the value of the next entry add
up to the best time. Lemma `CarryOverKeeps` shows that `CarryOver` changes nothing.

**Only model-checked.** Every invariant that a run checks, and the refinement, are
proved. Liveness (`RegionEnds`, `LoopEnds`, `AllDelivered`, `LayoutEnds`,
`BenchmarkEnds`) is out of the provers' reach and left to TLC.

## 7. What is not modelled

- The walk's profiling passes, which count and change nothing else; a second
  `prepare` of a solver, which no program makes; `reset` of a sampler, which only the
  mini benchmark calls.
- Time, cost estimates and the choice of the sampler class inside a cost: they
  decide which plan is used, and every plan is allowed.
- Where memory lies: NUMA nodes, `na_alloc` (nothing calls it on its own), the
  interleave mask. No result depends on it. The sizes of graph, edge buffers and
  filter are constants of `SolverMemory`, as large as the estimate takes them for.
- Random generators (`include/random.hpp`): a draw is a choice of any value, both
  ends of `gen_float` included. The period and the distribution of the generators
  are not expressible as properties of behaviours.
- An edge from a vertex to itself: the models allow it, as do builds for release;
  builds with assertions stop at it (`core/walk.hpp:115`).
- File formats, options, logging, timers, NUMA calls, the programs and tools.
- Data races proper (the concurrent `operator[]` on `costs` in `dp`, whose results
  the language does not bound); the races on `status` in `process_walkers` are
  modelled as reads of old or new values.

## 8. Plan

Done, in the order of importance: the walk region and its proofs; walker ranges
and stealing; the solver against its abstract specification; samplers and their
proofs; the layout of the graph; the plan of partitions; the mini benchmark;
neighbour queries and their proofs; the memory of a solver; and the proofs of
[section 6](#6-proofs).

Nothing of this plan is left. What could be added are the parts of
[section 7](#7-what-is-not-modelled), of which the sampler class chosen in a cost
estimate and the generators' arithmetic say most about the program.
