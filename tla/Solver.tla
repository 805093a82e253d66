------------------------------- MODULE Solver -------------------------------
(***************************************************************************)
(* FMobSolver: epochs of walkers that walk in lock step.  A step is three  *)
(* parallel regions with a barrier after each:                             *)
(*   shuffle  every MessageTask sorts the positions of its own walkers     *)
(*            into blocks, one per partition (a counting sort);            *)
(*   walk     the threads share the partitions (WalkClaim) and move the    *)
(*            messages in the partition's block of every task;             *)
(*   update   every task writes the moved messages back to its walkers.    *)
(* Arrays persist from step to step and from epoch to epoch, as they do in *)
(* the program, so what a step leaves behind is there for the next.        *)
(***************************************************************************)
EXTENDS WalkClaim, Sequences, Epochs

CONSTANTS
    Vertices, Neighbors,     \* the graph: 0 .. v_num - 1 and the adjacency lists
    PartitionIds,            \* 0 .. partition_num - 1
    PartitionOf,             \* Graph::get_vertex_partition_id, a function on Vertices
    SocketPartitions,        \* graph->socket_partitions, a sequence for each socket
    FitWalkers,              \* how many walkers the memory quota has room for
    ThreadBegin, ThreadEnd,  \* WalkerManager's ranges of MaxEpoch walkers
    Node2vec                 \* is_node2vec

MaxEpoch == MaxEpochWalkers(FitWalkers)
Walkers  == 0 .. MaxEpoch - 1

(***************************************************************************)
(* The graph is laid out as GraphLayout describes: every partition is on   *)
(* one socket's list, once.  Vertices and partitions are numbered from 0,  *)
(* and there is one of either.  The ranges of the tasks tile the walkers,  *)
(* which is what WalkerManager!RangesTile says of init.  At least one      *)
(* walker is asked for and fits: the CHECK of estimate_epoch_walker        *)
(* ensures neither, and with zero the division in CeilDiv is undefined.    *)
(***************************************************************************)
ASSUME SolverAssumption ==
    /\ Vertices \subseteq Nat /\ 0 \in Vertices
    /\ PartitionIds \subseteq Nat /\ 0 \in PartitionIds
    /\ Neighbors \in [Vertices -> (SUBSET Vertices) \ {{}}]
    /\ PartitionOf \in [Vertices -> PartitionIds]
    /\ PartitionNum = [s \in Sockets |-> Len(SocketPartitions[s])]
    /\ \A p \in PartitionIds :
          \E s \in Sockets : \E i \in 1 .. PartitionNum[s] : SocketPartitions[s][i] = p
    /\ \A s, u \in Sockets : \A i \in 1 .. PartitionNum[s], j \in 1 .. PartitionNum[u] :
          /\ SocketPartitions[s][i] \in PartitionIds
          /\ SocketPartitions[s][i] = SocketPartitions[u][j] => s = u /\ i = j
    /\ FitWalkers \in Nat \ {0}
    /\ Node2vec \in BOOLEAN
    /\ ThreadBegin \in [Team -> 0 .. MaxEpoch] /\ ThreadEnd \in [Team -> 0 .. MaxEpoch]
    /\ \A t \in Team : ThreadBegin[t] <= ThreadEnd[t]
    /\ \A t, u \in Team : t < u => ThreadEnd[t] <= ThreadBegin[u]
    /\ \A w \in Walkers : \E t \in Team : ThreadBegin[t] <= w /\ w < ThreadEnd[t]

VARIABLES
    phase,         \* which part of walk() the solver is in
    rest,          \* rest_walker_num
    terminated,    \* terminated_walker_num
    active,        \* epoch_walker_num
    step,          \* l_i
    walks,         \* walks[l_i][walker]
    done,          \* the tasks of the shuffle or update region that are done
    taskBegin, taskEnd,    \* origin_message_begin, origin_message_end of each task
    pids,          \* partition_ids[walker]
    blockBegin, blockEnd,  \* shuffled_message_begin, shuffled_message_end
    msgs,          \* shuffled_messages of each task
    states,        \* shuffled_states of each task
    cond           \* history: the previous vertex each message was moved with

epochVars == <<phase, rest, terminated, active, step, walks, done>>
taskVars  == <<taskBegin, taskEnd, pids, blockBegin, blockEnd, msgs, states, cond>>
solverVars == <<epochVars, taskVars, claimVars>>

Static   == -1                                        \* no previous vertex was used
Slots(t) == 0 .. ThreadEnd[t] - ThreadBegin[t] - 1    \* the task's shuffled arrays
TaskWalkers(t) == taskBegin[t] .. taskEnd[t] - 1      \* the walkers of task t

\* prepare and the constructors: no walker has walked, arrays are zero.
SolverInit ==
    /\ phase = "idle" /\ rest = WalkerNum /\ terminated = 0 /\ active = 0 /\ step = 0
    /\ walks = [l \in 0 .. WalkLen - 1 |-> [w \in Walkers |-> 0]]
    /\ done = {}
    /\ taskBegin = ThreadBegin /\ taskEnd = ThreadEnd
    /\ pids = [w \in Walkers |-> 0]
    /\ blockBegin = [t \in Team |-> [p \in PartitionIds |-> 0]]
    /\ blockEnd   = [t \in Team |-> [p \in PartitionIds |-> 0]]
    /\ msgs   = [t \in Team |-> [i \in Slots(t) |-> 0]]
    /\ states = [t \in Team |-> [i \in Slots(t) |-> 0]]
    /\ cond   = [t \in Team |-> [i \in Slots(t) |-> Static]]
    /\ ClaimInit

Enter(from, to) == phase = from /\ phase' = to

(***************************************************************************)
(* The driver calls walk() while has_next_walk(); the epoch's walkers      *)
(* start at vertices drawn by get_walker_start_vertices.                   *)
(***************************************************************************)
BeginEpoch ==
    /\ rest # 0
    /\ Enter("idle", IF WalkLen > 1 THEN "step" ELSE "paths")
    /\ active' = Least(MaxEpoch, rest)
    /\ step' = 1
    /\ \E start \in [0 .. active' - 1 -> Vertices] :
          walks' = [walks EXCEPT ![0] = [w \in Walkers |-> IF w < active' THEN start[w] ELSE @[w]]]
    /\ UNCHANGED <<rest, terminated, done, taskVars, claimVars>>

-----------------------------------------------------------------------------
(* MessageManager::shuffle and MessageTask::prepare, shuffle               *)

\* Mutant: the ranges made for a full epoch are kept.
WrongCut(t) == FALSE

\* From a socket's last task downwards, until one ends within the active walkers.
Cut(t) == \A u \in TeamOf(SocketId(t)) : u >= t => taskEnd[u] > active

BeginShuffle ==
    /\ Enter("step", "shuffle")
    /\ taskBegin' = [t \in Team |-> IF Cut(t) THEN Least(taskBegin[t], active) ELSE taskBegin[t]]
    /\ taskEnd'   = [t \in Team |-> IF Cut(t) THEN active ELSE taskEnd[t]]
    /\ UNCHANGED <<rest, terminated, active, step, walks, done>>
    /\ UNCHANGED <<pids, blockBegin, blockEnd, msgs, states, cond, claimVars>>

(***************************************************************************)
(* prepare counts the messages of the walkers ws per partition; the prefix *)
(* sums are the beginnings of the blocks.  shuffle advances the ends from  *)
(* there, one message after the other, so a message's slot is its rank.    *)
(***************************************************************************)
BlockStart(ids, ws) == [p \in PartitionIds |-> Cardinality({m \in ws : ids[m] < p})]
BlockSize(ids, ws)  == [p \in PartitionIds |-> Cardinality({m \in ws : ids[m] = p})]

\* Mutant: one cursor for all the blocks.
WrongRank(ids, ws, m) == Cardinality({k \in ws : k < m})

\* How many messages of its partition the walkers before m have.
Rank(ids, ws, m) == Cardinality({k \in ws : k < m /\ ids[k] = ids[m]})

\* Mutant: the ends are not put back to the beginnings before messages are placed.
WrongBlockStop(ids, ws) == [p \in PartitionIds |-> 2 * BlockSize(ids, ws)[p]]

BlockStop(ids, ws) == [p \in PartitionIds |-> BlockStart(ids, ws)[p] + BlockSize(ids, ws)[p]]

\* The array with source[m] put in the slot of each of the walkers.
Placed(array, source, ids, ws) ==
    LET Slot(m) == BlockStart(ids, ws)[ids[m]] + Rank(ids, ws, m) IN
    [i \in DOMAIN array |->
        IF \E m \in ws : Slot(m) = i THEN source[CHOOSE m \in ws : Slot(m) = i] ELSE array[i]]

\* Mutant: current_vertices is assigned before previous_vertices at the end of a step.
WrongPrevious == walks[step - 1]

Previous == walks[step - 2]

ShuffleTask(t) ==
    LET current == walks[step - 1]
        ids == [w \in Walkers |-> IF w \in TaskWalkers(t) THEN PartitionOf[current[w]] ELSE pids[w]]
    IN
    /\ phase = "shuffle" /\ t \notin done
    /\ pids' = ids
    /\ blockBegin' = [blockBegin EXCEPT ![t] = BlockStart(ids, TaskWalkers(t))]
    /\ blockEnd'   = [blockEnd EXCEPT ![t] = BlockStop(ids, TaskWalkers(t))]
    /\ msgs'   = [msgs EXCEPT ![t] = Placed(@, current, ids, TaskWalkers(t))]
    /\ states' = IF Node2vec /\ step > 1    \* previous_vertices is not nullptr
                 THEN [states EXCEPT ![t] = Placed(@, Previous, ids, TaskWalkers(t))]
                 ELSE states
    /\ cond'   = [cond EXCEPT ![t] = [i \in Slots(t) |-> Static]]
    /\ done' = done \cup {t}
    /\ UNCHANGED <<phase, rest, terminated, active, step, walks, taskBegin, taskEnd, claimVars>>

-----------------------------------------------------------------------------
(* WalkManager::walk                                                       *)

BeginWalk ==
    /\ done = Team
    /\ Enter("shuffle", "walk")
    /\ Fork
    /\ done' = {}
    /\ UNCHANGED <<rest, terminated, active, step, walks, taskVars>>

ClaimPartition(t) ==
    /\ Claim(t)
    /\ UNCHANGED <<epochVars, taskVars>>

\* The messages of partition p, in the block of every task of every socket.
Block(p) ==
    UNION {{u} \X {i \in Slots(u) : blockBegin[u][p] <= i /\ i < blockEnd[u][p]} : u \in Team}

(***************************************************************************)
(* The partition's samplers move every message to a neighbour.  In a       *)
(* node2vec solver each step, l_i = 1 included, is rejection sampling on   *)
(* the neighbour and the state; since a rejected neighbour is drawn again, *)
(* any neighbour can be the one accepted.                                  *)
(***************************************************************************)
WalkPartition(t) ==
    LET p == SocketPartitions[SocketId(t)][part[t] + 1] IN
    /\ FinishPartition(t)
    /\ \E to \in [Block(p) -> Vertices] :
          /\ \A b \in Block(p) : to[b] \in Neighbors[msgs[b[1]][b[2]]]
          /\ msgs' = [u \in Team |-> [i \in Slots(u) |->
                         IF <<u, i>> \in Block(p) THEN to[<<u, i>>] ELSE msgs[u][i]]]
    /\ cond' = [u \in Team |-> [i \in Slots(u) |->
                   IF Node2vec /\ <<u, i>> \in Block(p) THEN states[u][i] ELSE cond[u][i]]]
    /\ UNCHANGED <<epochVars, taskBegin, taskEnd, pids, blockBegin, blockEnd, states>>

EndWalk ==
    /\ Enter("walk", "update")
    /\ Join
    /\ UNCHANGED <<rest, terminated, active, step, walks, done, taskVars>>

-----------------------------------------------------------------------------
(* MessageManager::update and MessageTask::update, the end of the epoch    *)

\* Mutant: the cursor of the block is not advanced from walker to walker.
WrongUpdateSlot(t, m) == blockBegin[t][pids[m]]

\* Where update finds the message of walker m of task t.
UpdateSlot(t, m) == blockBegin[t][pids[m]] + Rank(pids, TaskWalkers(t), m)

UpdateTask(t) ==
    /\ phase = "update" /\ t \notin done
    /\ walks' = [walks EXCEPT ![step] =
                    [w \in Walkers |-> IF w \in TaskWalkers(t) THEN msgs[t][UpdateSlot(t, w)] ELSE @[w]]]
    /\ blockBegin' = [blockBegin EXCEPT ![t] =
                        [p \in PartitionIds |-> @[p] + BlockSize(pids, TaskWalkers(t))[p]]]
    /\ done' = done \cup {t}
    /\ UNCHANGED <<phase, rest, terminated, active, step>>
    /\ UNCHANGED <<taskBegin, taskEnd, pids, blockEnd, msgs, states, cond, claimVars>>

EndStep ==
    /\ done = Team
    /\ Enter("update", IF step + 1 < WalkLen THEN "step" ELSE "paths")
    /\ step' = step + 1
    /\ done' = {}
    /\ UNCHANGED <<rest, terminated, active, walks, taskVars, claimVars>>

\* Mutant: the epoch's walkers are not counted as terminated.
WrongDeliver ==
    /\ Enter("paths", "idle")
    /\ rest' = rest - active
    /\ UNCHANGED <<terminated, active, step, walks, done, taskVars, claimVars>>

(***************************************************************************)
(* The epoch's paths are copied to the caller's array: process_walkers     *)
(* does so once for each of them (WalkerManager!EachWalkerProcessedOnce).  *)
(***************************************************************************)
Deliver ==
    /\ Enter("paths", "idle")
    /\ terminated' = terminated + active
    /\ rest' = rest - active
    /\ UNCHANGED <<active, step, walks, done, taskVars, claimVars>>

\* The driver's CHECK passed and the program is over.
Finished ==
    /\ phase = "idle" /\ rest = 0
    /\ UNCHANGED solverVars

Master == BeginEpoch \/ BeginShuffle \/ BeginWalk \/ EndWalk \/ EndStep \/ Deliver

TeamStep(t) == ShuffleTask(t) \/ ClaimPartition(t) \/ WalkPartition(t) \/ UpdateTask(t)

SolverNext == Master \/ (\E t \in Team : TeamStep(t)) \/ Finished

SolverSpec == SolverInit /\ [][SolverNext]_solverVars

\* The master thread runs, and so does every thread of the team.
SolverFairness == WF_solverVars(Master) /\ \A t \in Team : WF_solverVars(TeamStep(t))

FairSolverSpec == SolverSpec /\ SolverFairness

-----------------------------------------------------------------------------
Phases == {"idle", "step", "shuffle", "walk", "update", "paths"}

\* The variables' types.
SolverTypeOK ==
    /\ phase \in Phases
    /\ rest \in 0 .. WalkerNum /\ terminated \in 0 .. WalkerNum
    /\ active \in 0 .. MaxEpoch /\ step \in 0 .. WalkLen
    /\ walks \in [0 .. WalkLen - 1 -> [Walkers -> Vertices]]
    /\ done \in SUBSET Team
    /\ taskBegin \in [Team -> 0 .. MaxEpoch] /\ taskEnd \in [Team -> 0 .. MaxEpoch]
    /\ pids \in [Walkers -> PartitionIds]
    /\ blockBegin \in [Team -> [PartitionIds -> 0 .. MaxEpoch]]
    /\ blockEnd \in [Team -> [PartitionIds -> 0 .. MaxEpoch]]
    /\ DOMAIN msgs = Team /\ DOMAIN states = Team /\ DOMAIN cond = Team
    /\ \A t \in Team : /\ msgs[t] \in [Slots(t) -> Vertices]
                       /\ states[t] \in [Slots(t) -> Vertices]
                       /\ cond[t] \in [Slots(t) -> Vertices \cup {Static}]
    /\ ClaimTypeOK

(***************************************************************************)
(* While a region of a step runs, the tasks' ranges are exactly the active *)
(* walkers, though the ranges were made for a full epoch and are cut for   *)
(* the last, shorter one; and no walker is lost between the counters.      *)
(***************************************************************************)
WalkersCovered ==
    /\ phase \in {"shuffle", "walk", "update"} =>
          \A w \in Walkers : w < active <=> \E t \in Team : w \in TaskWalkers(t)
    /\ rest + terminated = WalkerNum
    /\ phase # "idle" => active <= rest

(***************************************************************************)
(* A partition's sampler indexes its tables with vertex - vertex_begin and *)
(* checks nothing: until a partition has been walked in this step, its     *)
(* block in every task holds vertices of that partition only.              *)
(***************************************************************************)
MessagesAtHome ==
    phase = "walk" =>
        \A s \in Sockets : \A i \in Partitions(s) : walked[<<s, i>>] = 0 =>
            LET p == SocketPartitions[s][i + 1]
            IN  \A b \in Block(p) : PartitionOf[msgs[b[1]][b[2]]] = p

(***************************************************************************)
(* node2vec: from the second step on, each walker's step is conditioned on *)
(* the vertex this very walker was at one step before, although states and *)
(* messages travel through two arrays and come back through one.           *)
(***************************************************************************)
SecondOrder ==
    Node2vec /\ phase = "update" /\ step > 1 =>
        \A t \in Team \ done : \A m \in TaskWalkers(t) :
            cond[t][UpdateSlot(t, m)] = walks[step - 2][m]

(***************************************************************************)
(* "Note that even it's set to be node2vec, the first step is just static  *)
(* walk": the comment of WalkManager::walk.                                *)
(***************************************************************************)
FirstStepStatic ==
    phase = "update" /\ step = 1 =>
        \A t \in Team \ done : \A m \in TaskWalkers(t) : cond[t][UpdateSlot(t, m)] = Static

\* How much of walker w's path is there: one vertex more once its task is updated.
PathLen(w) ==
    IF phase = "update" /\ \E t \in done : w \in TaskWalkers(t) THEN step + 1 ELSE step

(***************************************************************************)
(* The solver implements RandomWalk: what a walker's slots, blocks and     *)
(* tasks do to it amounts to one step along one edge for each lock step,   *)
(* and every walker's full path is handed over once.                       *)
(***************************************************************************)
Walk == INSTANCE RandomWalk WITH
    waiting   <- IF phase = "idle" THEN rest ELSE rest - active,
    delivered <- terminated,
    paths     <- IF phase = "idle" THEN << >>
                 ELSE [w \in 1 .. active |-> [i \in 1 .. PathLen(w - 1) |-> walks[i - 1][w - 1]]]

ImplementsRandomWalk == Walk!RWSpec

\* The program ends, with every walker's path delivered.
AllDelivered == <>(phase = "idle" /\ terminated = WalkerNum)
=============================================================================
