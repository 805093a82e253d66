---------------------------- MODULE MiniBenchmark ----------------------------
(***************************************************************************)
(* mini_benchmark and its catalogue: measurements that are missing from    *)
(* the catalogue's file are made by all threads, each of which takes a     *)
(* degree at a time, and the whole catalogue is written back at the end.   *)
(* The program may be killed at any time and is started again; what it     *)
(* finds then is the file as far as it was written.                        *)
(*                                                                         *)
(* A measurement is told apart by the size of partition, the degree and    *)
(* the class of sampler.  Of its time only one thing matters: whether it   *)
(* was read back as it was measured.                                       *)
(***************************************************************************)
EXTENDS Threads, Sequences, FiniteSets

CONSTANTS Degrees,     \* test_degrees, a sequence
          Requests,    \* the sets of measurements a run may ask for, by its graph and walkers
          MaxRuns      \* bounds how often the program is started

ASSUME BenchmarkAssumption ==
    /\ Degrees \in Seq(Nat)
    /\ \A i, j \in DOMAIN Degrees : i # j => Degrees[i] # Degrees[j]
    /\ \A r \in Requests : \A m \in r : \E i \in DOMAIN Degrees : m.degree = Degrees[i]
    /\ MaxRuns \in Nat

VARIABLES
    phase,      \* "off", "measure", "save", "write" or "done"
    runs,       \* how often the program was started
    file,       \* what is in the catalogue's file
    wanted,     \* the measurements this run asks for
    cat,        \* cat_set
    new,        \* new_item_num
    tasks,      \* bmk_tasks, as the set of all of them
    progress,   \* progress, the next degree to take
    finished,   \* finished_thread_num
    pc,         \* where each thread is
    mine        \* the tasks of its degree that a thread has not done yet

fileVars   == <<phase, runs, file, wanted>>
threadVars == <<progress, finished, pc, mine>>
bmkVars    == <<fileVars, cat, new, tasks, threadVars>>

Good(m) == [what |-> m, time |-> "measured"]
Torn(m) == [what |-> m, time |-> "torn"]

Measurements == UNION Requests
Known(items) == {item.what : item \in items}

BmkInit ==
    /\ phase = "off" /\ runs = 0 /\ file = {} /\ wanted = {}
    /\ cat = {} /\ new = 0 /\ tasks = {}
    /\ progress = 1 /\ finished = 0
    /\ pc = [t \in Team |-> "serial"] /\ mine = [t \in Team |-> {}]

\* Mutant: has_item does not look at the class.
WrongMissing(r) ==
    {m \in r : ~ \E k \in Known(file) : k.bits = m.bits /\ k.degree = m.degree}

\* has_item compares the three keys of a measurement.
Missing(r) == r \ Known(file)

(***************************************************************************)
(* The constructor of the catalogue reads the file, the loops over degrees *)
(* and sizes make a task of what is wanted and missing.  Without a task no *)
(* thread is started.                                                      *)
(***************************************************************************)
Begin(r) ==
    /\ phase \in {"off", "done"} /\ runs < MaxRuns
    /\ runs' = runs + 1
    /\ wanted' = r /\ cat' = file /\ new' = 0
    /\ tasks' = Missing(r)
    /\ progress' = 1 /\ finished' = 0
    /\ mine' = [t \in Team |-> {}]
    /\ IF Missing(r) = {}
       THEN phase' = "save" /\ UNCHANGED pc
       ELSE phase' = "measure" /\ pc' = [t \in Team |-> "degree"]
    /\ UNCHANGED file

Goto(t, from, to) ==
    /\ phase = "measure" /\ pc[t] = from
    /\ pc' = [pc EXCEPT ![t] = to]

\* Mutant: the counter is read, and not added to.
WrongTakeDegree(t) ==
    /\ progress <= Len(Degrees)
    /\ Goto(t, "degree", "tasks")
    /\ mine' = [mine EXCEPT ![t] = {m \in tasks : m.degree = Degrees[progress]}]
    /\ UNCHANGED <<fileVars, cat, new, tasks, progress, finished>>

\* progress_i = __sync_fetch_and_add(&progress, 1); a degree without tasks is passed over.
TakeDegree(t) ==
    /\ progress <= Len(Degrees)
    /\ Goto(t, "degree", "tasks")
    /\ mine' = [mine EXCEPT ![t] = {m \in tasks : m.degree = Degrees[progress]}]
    /\ progress' = progress + 1
    /\ UNCHANGED <<fileVars, cat, new, tasks, finished>>

\* The benchmark of one task, and add_item under cat_manager_lock.
Measure(t) ==
    /\ Goto(t, "tasks", "tasks")
    /\ \E m \in mine[t] :
          /\ cat' = cat \cup {Good(m)}
          /\ mine' = [mine EXCEPT ![t] = @ \ {m}]
    /\ new' = new + 1
    /\ UNCHANGED <<fileVars, tasks, progress, finished>>

\* Mutant: a thread counts as finished after each of its degrees.
WrongDegreeDone(t) ==
    /\ mine[t] = {}
    /\ Goto(t, "tasks", "degree")
    /\ finished' = finished + 1
    /\ UNCHANGED <<fileVars, cat, new, tasks, progress, mine>>

DegreeDone(t) ==
    /\ mine[t] = {}
    /\ Goto(t, "tasks", "degree")
    /\ UNCHANGED <<fileVars, cat, new, tasks, progress, finished, mine>>

Finish(t) ==
    /\ progress > Len(Degrees)
    /\ Goto(t, "degree", "spin")
    /\ progress' = progress + 1
    /\ finished' = finished + 1
    /\ UNCHANGED <<fileVars, cat, new, tasks, mine>>

\* Mutant: one thread too many is waited for.
WrongLeaveSpin(t) ==
    /\ finished > ThreadNum
    /\ Goto(t, "spin", "join")
    /\ UNCHANGED <<fileVars, cat, new, tasks, progress, finished, mine>>

\* The thread keeps the memory busy until finished_thread_num is thread_num.
LeaveSpin(t) ==
    /\ finished = ThreadNum
    /\ Goto(t, "spin", "join")
    /\ UNCHANGED <<fileVars, cat, new, tasks, progress, finished, mine>>

Join ==
    /\ phase = "measure"
    /\ \A t \in Team : pc[t] = "join"
    /\ phase' = "save"
    /\ pc' = [t \in Team |-> "serial"]
    /\ UNCHANGED <<runs, file, wanted, cat, new, tasks, progress, finished, mine>>

\* Mutant: a single new measurement is not worth writing.
WrongUnsaved == new > 1

Unsaved == new # 0

\* fopen with "w" leaves nothing of the old file.
Truncate ==
    /\ phase = "save" /\ Unsaved
    /\ phase' = "write"
    /\ file' = {}
    /\ UNCHANGED <<runs, wanted, cat, new, tasks, threadVars>>

\* One line of the file.  Which line comes first is of no account.
WriteItem ==
    /\ phase = "write"
    /\ \E item \in cat \ file : file' = file \cup {item}
    /\ UNCHANGED <<phase, runs, wanted, cat, new, tasks, threadVars>>

\* The results are complete; the caller goes on to plan the partitions.
Return ==
    /\ \/ phase = "save" /\ ~Unsaved
       \/ phase = "write" /\ file = cat
    /\ phase' = "done"
    /\ UNCHANGED <<runs, file, wanted, cat, new, tasks, threadVars>>

(***************************************************************************)
(* The program is killed.  Of a line that was being written a beginning    *)
(* may be in the file: cut within its last number it reads as a line with  *)
(* another time, cut before it is not read at all.                         *)
(***************************************************************************)
Crash ==
    /\ phase \in {"measure", "save", "write"}
    /\ phase' = "off"
    /\ pc' = [t \in Team |-> "serial"]
    /\ \/ UNCHANGED file
       \/ /\ phase = "write"
          /\ \E item \in cat \ file : file' = file \cup {Torn(item.what)}
    /\ UNCHANGED <<runs, wanted, cat, new, tasks, progress, finished, mine>>

BmkThread(t) == TakeDegree(t) \/ Measure(t) \/ DegreeDone(t) \/ Finish(t) \/ LeaveSpin(t)

Saving == Truncate \/ WriteItem \/ Return

BmkNext ==
    \/ \E r \in Requests : Begin(r)
    \/ \E t \in Team : BmkThread(t)
    \/ Join
    \/ Saving
    \/ Crash

BmkSpec == BmkInit /\ [][BmkNext]_bmkVars

\* Every thread is scheduled, the master goes on; nobody has to start or to kill the program.
FairBmkSpec ==
    /\ BmkSpec
    /\ \A t \in Team : WF_bmkVars(BmkThread(t))
    /\ WF_bmkVars(Join)
    /\ WF_bmkVars(Saving)

-----------------------------------------------------------------------------
Items == {Good(m) : m \in Measurements} \cup {Torn(m) : m \in Measurements}

\* The variables' types.
BmkTypeOK ==
    /\ phase \in {"off", "measure", "save", "write", "done"}
    /\ runs \in 0 .. MaxRuns
    /\ file \subseteq Items /\ cat \subseteq Items
    /\ wanted \subseteq Measurements /\ tasks \subseteq Measurements
    /\ new \in Nat
    /\ progress \in 1 .. Len(Degrees) + ThreadNum + 1 /\ finished \in 0 .. ThreadNum
    /\ pc \in [Team -> {"serial", "degree", "tasks", "spin", "join"}]
    /\ mine \in [Team -> SUBSET Measurements]

(***************************************************************************)
(* CHECK(cat_set.find(item) == cat_set.end()) in add_item: no measurement  *)
(* is made twice, by two threads or although the file had it.  So the      *)
(* tasks of the threads never overlap, and what a thread still has to do   *)
(* is not in the catalogue.                                                *)
(***************************************************************************)
AddedOnce ==
    phase = "measure" =>
        /\ \A t \in Team : mine[t] \cap Known(cat) = {}
        /\ \A t, u \in Team : t # u => mine[t] \cap mine[u] = {}

(***************************************************************************)
(* When mini_benchmark returns the catalogue has everything that was asked *)
(* for, whatever a killed run before left of the file, and no measurement  *)
(* is there with two different times.                                      *)
(***************************************************************************)
ResultsCover ==
    phase = "done" =>
        /\ wanted \subseteq Known(cat)
        /\ \A a, b \in cat : a.what = b.what => a = b

(***************************************************************************)
(* A run that returns leaves a file with all it knows, so the next one     *)
(* measures none of it again.                                              *)
(***************************************************************************)
FileIsCatalogue == phase = "done" => file = cat

\* The threads' spinning ends, and so does the run if nobody kills it.
BenchmarkEnds == phase = "measure" ~> phase \in {"done", "off"}
=============================================================================
