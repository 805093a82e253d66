------------------------ MODULE MiniBenchmarkProofs ------------------------
(***************************************************************************)
(* That no measurement is made twice and none is forgotten, and what is in *)
(* the catalogue's file when mini_benchmark returns, for every team, every *)
(* list of degrees, all requests, and kills at any time.                   *)
(*                                                                         *)
(* While threads measure, a task is in one of three places: ahead of the   *)
(* counter of degrees, among what one thread has still to do, or in the    *)
(* catalogue.  Ahead is the guard against a second measurement (AheadIsNew,*)
(* MineIsNew), the three together against a forgotten one (TasksKept).     *)
(***************************************************************************)
EXTENDS MiniBenchmark, FiniteSetTheorems, TLAPS

\* No thread has taken the degree of m yet.
Ahead(m) == \E i \in DOMAIN Degrees : i >= progress /\ Degrees[i] = m.degree

Waiting == {t \in Team : pc[t] \in {"spin", "join"}}

\* Of a measurement there is one time.
OneTime(items) == \A a, b \in items : a.what = b.what => a = b

\* The counter of degrees goes past their number once for each thread that finishes.
CountersAgree ==
    /\ progress <= Len(Degrees) + 1 + finished
    /\ phase = "measure" =>
          /\ finished = Cardinality(Waiting)
          /\ Waiting # {} => progress > Len(Degrees)

MineIsNew ==
    phase = "measure" => \A t \in Team :
        /\ mine[t] \subseteq tasks
        /\ mine[t] # {} => pc[t] = "tasks"
        /\ mine[t] \cap Known(cat) = {}
        /\ \A u \in Team : t # u => mine[t] \cap mine[u] = {}

AheadIsNew ==
    phase = "measure" => \A m \in tasks : Ahead(m) =>
        m \notin Known(cat) /\ \A t \in Team : m \notin mine[t]

TasksKept ==
    phase = "measure" => \A m \in tasks :
        Ahead(m) \/ m \in Known(cat) \/ \E t \in Team : m \in mine[t]

WantedKept ==
    /\ phase = "measure" => wanted \subseteq tasks \cup Known(cat)
    /\ phase \in {"save", "write", "done"} => wanted \subseteq Known(cat)

\* Nothing new means that the file is up to date; the file is never ahead of the catalogue.
FileBehind ==
    /\ OneTime(file) /\ OneTime(cat)
    /\ phase \in {"measure", "save", "write"} => file \subseteq cat
    /\ phase \in {"measure", "save"} /\ new = 0 => file = cat
    /\ phase = "done" => file = cat

BmkIInv ==
    /\ BmkTypeOK
    /\ CountersAgree
    /\ MineIsNew
    /\ AheadIsNew
    /\ TasksKept
    /\ WantedKept
    /\ FileBehind

-----------------------------------------------------------------------------
(* Counting the threads that wait                                          *)

\* The team is finite, and so is every part of it.
LEMMA WaitingFinite ==
    /\ IsFiniteSet(Waiting)
    /\ Cardinality(Waiting) \in 0 .. ThreadNum
<1>1. IsFiniteSet(Team) /\ Cardinality(Team) = ThreadNum
  BY FS_Interval, ThreadsAssumption DEF Team
<1>2. Waiting \in SUBSET Team
  BY DEF Waiting
<1>3. IsFiniteSet(Waiting) /\ Cardinality(Waiting) <= Cardinality(Team)
  BY <1>1, <1>2, FS_Subset
<1> QED
  BY <1>1, <1>3, FS_CardinalityType

\* A thread that comes to wait is one more.
LEMMA WaitingEnter ==
    ASSUME BmkTypeOK, NEW t \in Team, Goto(t, "degree", "spin")
    PROVE  /\ Waiting' = Waiting \cup {t}
           /\ Cardinality(Waiting') = Cardinality(Waiting) + 1
           /\ Cardinality(Waiting) + 1 <= ThreadNum
<1>1. t \notin Waiting
  BY DEF Goto, Waiting
<1>2. Waiting' = Waiting \cup {t}
  BY DEF Goto, Waiting, BmkTypeOK
<1>3. Cardinality(Waiting \cup {t}) = Cardinality(Waiting) + 1
  BY <1>1, WaitingFinite, FS_AddElement
<1>4. Cardinality(Waiting \cup {t}) <= ThreadNum
  <2>1. IsFiniteSet(Team) /\ Cardinality(Team) = ThreadNum
    BY FS_Interval, ThreadsAssumption DEF Team
  <2>2. Waiting \cup {t} \in SUBSET Team
    BY DEF Waiting
  <2> QED
    BY <2>1, <2>2, FS_Subset
<1> QED
  BY <1>2, <1>3, <1>4

\* A thread that does not come to wait leaves the count as it is.
LEMMA WaitingSame ==
    ASSUME BmkTypeOK, NEW t \in Team, NEW from, NEW to, Goto(t, from, to),
           from \in {"spin", "join"} <=> to \in {"spin", "join"}
    PROVE  Waiting' = Waiting
  BY DEF Goto, Waiting, BmkTypeOK

-----------------------------------------------------------------------------
(* One lemma per action                                                    *)

LEMMA BmkInitInv == BmkInit => BmkIInv
<1> SUFFICES ASSUME BmkInit PROVE BmkIInv
  OBVIOUS
<1>1. Len(Degrees) \in Nat /\ ThreadNum \in Nat /\ MaxRuns \in Nat
  BY BenchmarkAssumption, ThreadsAssumption
<1>2. BmkTypeOK
  BY <1>1 DEF BmkInit, BmkTypeOK
<1>3. CountersAgree
  BY <1>1 DEF BmkInit, CountersAgree
<1> QED
  BY <1>2, <1>3 DEF BmkInit, BmkIInv, MineIsNew, AheadIsNew, TasksKept, WantedKept, FileBehind,
                    OneTime

\* What a run asks for and the file does not have is ahead of the threads, all of it.
LEMMA BeginInv ==
    ASSUME BmkIInv, NEW r \in Requests, Begin(r) PROVE BmkIInv'
<1>1. Len(Degrees) \in Nat /\ ThreadNum \in Nat /\ MaxRuns \in Nat
  BY BenchmarkAssumption, ThreadsAssumption
<1>2. r \subseteq Measurements /\ tasks' = r \ Known(file) /\ wanted' = r
  BY DEF Begin, Missing, Measurements
<1>3. BmkTypeOK'
  BY <1>1, <1>2 DEF BmkIInv, BmkTypeOK, Begin
<1>4. CountersAgree'
  <2>1. phase' = "measure" => Waiting' = {}
    BY DEF Begin, Waiting
  <2> QED
    BY <1>1, <2>1, FS_EmptySet DEF Begin, CountersAgree
<1>5. MineIsNew'
  BY DEF Begin, MineIsNew
<1>6. AheadIsNew'
  BY <1>2 DEF Begin, AheadIsNew, Known
<1>7. TasksKept'
  <2> SUFFICES ASSUME NEW m \in tasks' PROVE Ahead(m)'
    BY DEF TasksKept
  <2>1. PICK i \in DOMAIN Degrees : m.degree = Degrees[i]
    BY <1>2, BenchmarkAssumption
  <2>2. i \in 1 .. Len(Degrees)
    BY <2>1, BenchmarkAssumption
  <2> QED
    BY <2>1, <2>2 DEF Begin, Ahead
<1>8. WantedKept'
  <2>1. wanted' \subseteq tasks' \cup Known(cat)'
    BY <1>2 DEF Begin, Known
  <2>2. tasks' = {} => wanted' \subseteq Known(cat)'
    BY <2>1
  <2> QED
    BY <2>1, <2>2 DEF Begin, WantedKept
<1>9. FileBehind'
  BY DEF BmkIInv, Begin, FileBehind, OneTime
<1> QED
  BY <1>3, <1>4, <1>5, <1>6, <1>7, <1>8, <1>9 DEF BmkIInv

\* The tasks of one degree move from ahead of the counter to one thread.
LEMMA TakeDegreeInv ==
    ASSUME BmkIInv, NEW t \in Team, TakeDegree(t) PROVE BmkIInv'
<1> DEFINE d == Degrees[progress]
           taken == {m \in tasks : m.degree = d}
<1>1. Len(Degrees) \in Nat /\ ThreadNum \in Nat /\ progress \in 1 .. Len(Degrees)
      /\ progress \in DOMAIN Degrees /\ finished \in Nat
  BY BenchmarkAssumption, ThreadsAssumption DEF BmkIInv, BmkTypeOK, TakeDegree
<1>2. /\ phase = "measure" /\ phase' = "measure"
      /\ pc[t] = "degree" /\ pc' = [pc EXCEPT ![t] = "tasks"]
      /\ mine' = [mine EXCEPT ![t] = taken]
      /\ progress' = progress + 1
      /\ UNCHANGED <<runs, file, wanted, cat, new, tasks, finished>>
  BY DEF TakeDegree, Goto, fileVars
<1>3. mine \in [Team -> SUBSET Measurements] /\ pc \in [Team -> {"serial", "degree", "tasks", "spin", "join"}]
  BY DEF BmkIInv, BmkTypeOK
<1>4. BmkTypeOK'
  BY <1>1, <1>2 DEF BmkIInv, BmkTypeOK
<1>5. CountersAgree'
  <2>1. Waiting' = Waiting
    BY WaitingSame DEF BmkIInv, TakeDegree
  <2>2. Waiting = {}
    BY <1>1, <1>2 DEF BmkIInv, CountersAgree
  <2> QED
    BY <1>1, <1>2, <2>1, <2>2 DEF BmkIInv, CountersAgree
<1>6. \A m \in taken : Ahead(m)
  BY <1>1 DEF Ahead
<1>7. \A m \in tasks : Ahead(m)' <=> Ahead(m) /\ m \notin taken
  <2> SUFFICES ASSUME NEW m \in tasks PROVE Ahead(m)' <=> Ahead(m) /\ m.degree # d
    OBVIOUS
  <2>1. ASSUME NEW i \in DOMAIN Degrees
        PROVE  i >= progress + 1 /\ Degrees[i] = m.degree
                 <=> i >= progress /\ Degrees[i] = m.degree /\ i # progress
    BY <1>1, BenchmarkAssumption
  <2>2. \A i \in DOMAIN Degrees : i # progress => Degrees[i] # d
    BY <1>1, BenchmarkAssumption
  <2> QED
    BY <1>1, <1>2, <2>1, <2>2 DEF Ahead
<1>8. MineIsNew'
  <2>1. \A m \in taken : m \notin Known(cat) /\ \A u \in Team : m \notin mine[u]
    BY <1>2, <1>6 DEF BmkIInv, AheadIsNew
  <2>2. ASSUME NEW u \in Team
        PROVE  /\ mine[u] \subseteq tasks /\ (mine[u] # {} => pc[u] = "tasks")
               /\ mine[u] \cap Known(cat) = {}
               /\ \A v \in Team : u # v => mine[u] \cap mine[v] = {}
    BY <1>2 DEF BmkIInv, MineIsNew
  <2>3. ASSUME NEW u \in Team
        PROVE  /\ mine'[u] = IF u = t THEN taken ELSE mine[u]
               /\ pc'[u] = IF u = t THEN "tasks" ELSE pc[u]
    BY <1>2, <1>3
  <2>4. Known(cat)' = Known(cat) /\ tasks' = tasks
    BY <1>2 DEF Known
  <2> HIDE DEF taken
  <2>5. taken \subseteq tasks
    BY DEF taken
  <2> QED
    BY <2>1, <2>2, <2>3, <2>4, <2>5 DEF MineIsNew
<1>9. AheadIsNew'
  BY <1>2, <1>3, <1>7 DEF BmkIInv, AheadIsNew, Known
<1>10. TasksKept'
  <2> SUFFICES ASSUME NEW m \in tasks, ~Ahead(m)', m \notin Known(cat)
               PROVE  \E u \in Team : m \in mine'[u]
    BY <1>2 DEF TasksKept, Known
  <2>1. CASE m \in taken
    BY <1>2, <1>3, <2>1
  <2>2. CASE m \notin taken
    <3>1. ~ Ahead(m)
      BY <1>7, <2>2
    <3>2. PICK u \in Team : m \in mine[u]
      BY <1>2, <3>1 DEF BmkIInv, TasksKept
    <3>3. u # t
      BY <1>2, <3>2 DEF BmkIInv, MineIsNew
    <3> QED
      BY <1>2, <1>3, <3>2, <3>3
  <2> QED
    BY <2>1, <2>2
<1>11. WantedKept' /\ FileBehind'
  BY <1>2 DEF BmkIInv, WantedKept, FileBehind, OneTime, Known
<1> QED
  BY <1>4, <1>5, <1>8, <1>9, <1>10, <1>11 DEF BmkIInv

\* A task moves from its thread to the catalogue.
LEMMA MeasureInv ==
    ASSUME BmkIInv, NEW t \in Team, Measure(t) PROVE BmkIInv'
<1>1. PICK m \in mine[t] : cat' = cat \cup {Good(m)} /\ mine' = [mine EXCEPT ![t] = @ \ {m}]
  BY DEF Measure
<1>2. /\ phase = "measure" /\ phase' = "measure" /\ pc[t] = "tasks" /\ new' = new + 1
      /\ UNCHANGED <<runs, file, wanted, tasks, progress, finished>>
  BY DEF Measure, Goto, fileVars
<1>3. mine \in [Team -> SUBSET Measurements] /\ new \in Nat
      /\ pc \in [Team -> {"serial", "degree", "tasks", "spin", "join"}]
  BY DEF BmkIInv, BmkTypeOK
<1>4. pc' = pc
  BY <1>2, <1>3 DEF Measure, Goto
<1>5. m \in tasks /\ m \in Measurements /\ m \notin Known(cat)
      /\ \A u \in Team : u # t => m \notin mine[u]
  BY <1>1, <1>2, <1>3 DEF BmkIInv, MineIsNew
<1>6. Known(cat)' = Known(cat) \cup {m}
  <2>1. Good(m).what = m
    BY DEF Good
  <2> HIDE DEF Good
  <2>2. ASSUME NEW x PROVE x \in Known(cat \cup {Good(m)}) <=> x \in Known(cat) \/ x = m
    BY <2>1 DEF Known
  <2> QED
    BY <1>1, <2>2 DEF Known
<1>7. BmkTypeOK'
  BY <1>1, <1>2, <1>3, <1>4, <1>5 DEF BmkIInv, BmkTypeOK, Items
<1>8. CountersAgree'
  BY <1>2, <1>4 DEF BmkIInv, CountersAgree, Waiting
<1>9. ASSUME NEW u \in Team PROVE mine'[u] = IF u = t THEN mine[u] \ {m} ELSE mine[u]
  BY <1>1, <1>3
<1>10. MineIsNew'
  <2>1. ASSUME NEW u \in Team
        PROVE  /\ mine[u] \subseteq tasks /\ (mine[u] # {} => pc[u] = "tasks")
               /\ mine[u] \cap Known(cat) = {}
               /\ \A v \in Team : u # v => mine[u] \cap mine[v] = {}
    BY <1>2 DEF BmkIInv, MineIsNew
  <2>2. ASSUME NEW u \in Team PROVE mine'[u] \subseteq mine[u] /\ m \notin mine'[u]
    BY <1>5, <1>9
  <2> QED
    BY <1>2, <1>4, <1>6, <2>1, <2>2 DEF MineIsNew
<1>11. \A n : Ahead(n)' <=> Ahead(n)
  BY <1>2 DEF Ahead
<1>12. ~ Ahead(m)
  BY <1>1, <1>2, <1>5 DEF BmkIInv, AheadIsNew
<1>13. AheadIsNew'
  BY <1>2, <1>6, <1>9, <1>11, <1>12 DEF BmkIInv, AheadIsNew
<1>14. TasksKept'
  BY <1>2, <1>6, <1>9, <1>11 DEF BmkIInv, TasksKept
<1>15. WantedKept'
  BY <1>2, <1>6 DEF BmkIInv, WantedKept
<1>16. FileBehind'
  <2>1. OneTime(cat)'
    <3>1. \A a \in cat : a.what # m
      BY <1>5 DEF Known
    <3>2. OneTime(cat) /\ Good(m).what = m
      BY DEF BmkIInv, FileBehind, Good
    <3> QED
      BY <1>1, <3>1, <3>2 DEF OneTime
  <2>2. OneTime(file)'
    BY <1>2 DEF BmkIInv, FileBehind, OneTime
  <2> QED
    BY <1>1, <1>2, <1>3, <2>1, <2>2 DEF BmkIInv, FileBehind
<1> QED
  BY <1>7, <1>8, <1>10, <1>13, <1>14, <1>15, <1>16 DEF BmkIInv

\* Threads that only move on: the tasks stay where they are.
LEMMA MoveOnInv ==
    ASSUME BmkIInv, NEW t \in Team, DegreeDone(t) \/ LeaveSpin(t) PROVE BmkIInv'
<1>1. /\ phase = "measure" /\ phase' = "measure"
      /\ UNCHANGED <<runs, file, wanted, cat, new, tasks, progress, finished, mine>>
  BY DEF DegreeDone, LeaveSpin, Goto, fileVars
<1>2. pc \in [Team -> {"serial", "degree", "tasks", "spin", "join"}]
  BY DEF BmkIInv, BmkTypeOK
<1>3. pc' \in [Team -> {"serial", "degree", "tasks", "spin", "join"}]
  BY <1>2 DEF DegreeDone, LeaveSpin, Goto
<1>4. BmkTypeOK'
  BY <1>1, <1>3 DEF BmkIInv, BmkTypeOK
<1>5. CountersAgree'
  <2>1. Waiting' = Waiting
    <3>1. CASE DegreeDone(t)
      BY <3>1, WaitingSame DEF BmkIInv, DegreeDone
    <3>2. CASE LeaveSpin(t)
      BY <3>2, WaitingSame DEF BmkIInv, LeaveSpin
    <3> QED
      BY <3>1, <3>2
  <2> QED
    BY <1>1, <2>1 DEF BmkIInv, CountersAgree
<1>6. MineIsNew'
  <2>1. mine[t] = {}
    BY <1>1 DEF DegreeDone, LeaveSpin, Goto, BmkIInv, MineIsNew
  <2>2. ASSUME NEW u \in Team, u # t PROVE pc'[u] = pc[u]
    BY <1>2, <2>2 DEF DegreeDone, LeaveSpin, Goto
  <2>3. Known(cat)' = Known(cat)
    BY <1>1 DEF Known
  <2> QED
    BY <1>1, <2>1, <2>2, <2>3 DEF BmkIInv, MineIsNew
<1>7. AheadIsNew' /\ TasksKept' /\ WantedKept' /\ FileBehind'
  BY <1>1 DEF BmkIInv, AheadIsNew, TasksKept, WantedKept, FileBehind, Ahead, Known, OneTime
<1> QED
  BY <1>4, <1>5, <1>6, <1>7 DEF BmkIInv

\* The degrees are all taken, and with the thread the counter moves past them.
LEMMA FinishInv ==
    ASSUME BmkIInv, NEW t \in Team, Finish(t) PROVE BmkIInv'
<1>1. /\ phase = "measure" /\ phase' = "measure"
      /\ progress > Len(Degrees) /\ progress' = progress + 1 /\ finished' = finished + 1
      /\ pc[t] = "degree" /\ pc' = [pc EXCEPT ![t] = "spin"]
      /\ UNCHANGED <<runs, file, wanted, cat, new, tasks, mine>>
  BY DEF Finish, Goto, fileVars
<1>2. Len(Degrees) \in Nat /\ ThreadNum \in Nat /\ progress \in Nat /\ finished \in Nat
      /\ pc \in [Team -> {"serial", "degree", "tasks", "spin", "join"}]
      /\ DOMAIN Degrees = 1 .. Len(Degrees)
  BY BenchmarkAssumption, ThreadsAssumption DEF BmkIInv, BmkTypeOK
<1>3. /\ Cardinality(Waiting') = Cardinality(Waiting) + 1
      /\ Cardinality(Waiting) + 1 <= ThreadNum
      /\ finished = Cardinality(Waiting)
      /\ progress <= Len(Degrees) + 1 + finished
  BY <1>1, WaitingEnter DEF BmkIInv, Finish, CountersAgree
<1>4. CountersAgree'
  BY <1>1, <1>2, <1>3 DEF CountersAgree
<1>5. BmkTypeOK'
  BY <1>1, <1>2, <1>3 DEF BmkIInv, BmkTypeOK
<1>6. \A m : ~ Ahead(m) /\ ~ Ahead(m)'
  BY <1>1, <1>2 DEF Ahead
<1>7. Known(cat)' = Known(cat)
  BY <1>1 DEF Known
<1>8. MineIsNew'
  <2>1. mine[t] = {}
    BY <1>1 DEF BmkIInv, MineIsNew
  <2>2. ASSUME NEW u \in Team, u # t PROVE pc'[u] = pc[u]
    BY <1>1, <1>2, <2>2
  <2> QED
    BY <1>1, <1>7, <2>1, <2>2 DEF BmkIInv, MineIsNew
<1>9. AheadIsNew' /\ TasksKept' /\ WantedKept' /\ FileBehind'
  BY <1>1, <1>6, <1>7 DEF BmkIInv, AheadIsNew, TasksKept, WantedKept, FileBehind, OneTime
<1> QED
  BY <1>4, <1>5, <1>8, <1>9 DEF BmkIInv

\* At the barrier no task is ahead and no thread has one: all are in the catalogue.
LEMMA JoinInv == ASSUME BmkIInv, Join PROVE BmkIInv'
<1>1. /\ phase = "measure" /\ phase' = "save" /\ pc' = [t \in Team |-> "serial"]
      /\ UNCHANGED <<runs, file, wanted, cat, new, tasks, progress, finished, mine>>
  BY DEF Join
<1>2. Known(cat)' = Known(cat)
  BY <1>1 DEF Known
<1>3. 0 \in Team
  BY ThreadsAssumption DEF Team
<1>4. progress > Len(Degrees)
  BY <1>1, <1>3 DEF BmkIInv, CountersAgree, Waiting, Join
<1>5. \A m : ~ Ahead(m)
  <2>1. Len(Degrees) \in Nat /\ DOMAIN Degrees = 1 .. Len(Degrees) /\ progress \in Nat
    BY BenchmarkAssumption DEF BmkIInv, BmkTypeOK
  <2> QED
    BY <1>4, <2>1 DEF Ahead
<1>6. \A t \in Team : mine[t] = {}
  BY <1>1 DEF BmkIInv, MineIsNew, Join
<1>7. wanted \subseteq Known(cat)
  BY <1>1, <1>5, <1>6 DEF BmkIInv, TasksKept, WantedKept
<1>8. BmkTypeOK'
  BY <1>1 DEF BmkIInv, BmkTypeOK
<1>9. WantedKept' /\ CountersAgree'
  BY <1>1, <1>2, <1>7 DEF BmkIInv, WantedKept, CountersAgree
<1>10. FileBehind'
  BY <1>1 DEF BmkIInv, FileBehind, OneTime
<1> QED
  BY <1>1, <1>8, <1>9, <1>10 DEF BmkIInv, MineIsNew, AheadIsNew, TasksKept

\* Behind the measuring only the file and its relation to the catalogue change.
LEMMA SavingInv == ASSUME BmkIInv, Saving PROVE BmkIInv'
<1>1. /\ phase \in {"save", "write"} /\ phase' \in {"write", "done"}
      /\ UNCHANGED <<runs, wanted, cat, new, tasks, progress, finished, pc, mine>>
  BY DEF Saving, Truncate, WriteItem, Return, threadVars
<1>2. Known(cat)' = Known(cat)
  BY <1>1 DEF Known
<1>3. file' \subseteq cat
  BY DEF Saving, Truncate, WriteItem, Return, BmkIInv, FileBehind
<1>4. BmkTypeOK'
  BY <1>1, <1>3 DEF BmkIInv, BmkTypeOK
<1>5. WantedKept' /\ CountersAgree'
  BY <1>1, <1>2 DEF BmkIInv, WantedKept, CountersAgree
<1>6. FileBehind'
  <2>1. OneTime(cat)' /\ OneTime(file)'
    BY <1>1, <1>3 DEF BmkIInv, FileBehind, OneTime
  <2>2. phase' = "done" => file' = cat'
    <3>1. ASSUME phase' = "done" PROVE file' = cat'
      <4>1. Return
        BY <3>1, <1>1 DEF Saving, Truncate, WriteItem
      <4> QED
        BY <4>1, <1>1 DEF Return, Unsaved, BmkIInv, FileBehind
    <3> QED
      BY <3>1
  <2> QED
    BY <1>1, <1>3, <2>1, <2>2 DEF FileBehind
<1> QED
  BY <1>1, <1>4, <1>5, <1>6 DEF BmkIInv, MineIsNew, AheadIsNew, TasksKept

\* Of the line that was written a beginning may be left; its measurement is not in the file yet.
LEMMA CrashInv == ASSUME BmkIInv, Crash PROVE BmkIInv'
<1>1. /\ phase' = "off" /\ pc' = [t \in Team |-> "serial"]
      /\ UNCHANGED <<runs, wanted, cat, new, tasks, progress, finished, mine>>
  BY DEF Crash
<1>2. file' \subseteq Items /\ OneTime(file)'
  <2>1. CASE UNCHANGED file
    BY <2>1 DEF BmkIInv, BmkTypeOK, FileBehind, OneTime
  <2>2. CASE phase = "write" /\ \E item \in cat \ file : file' = file \cup {Torn(item.what)}
    <3>1. PICK item \in cat \ file : file' = file \cup {Torn(item.what)}
      BY <2>2
    <3>2. file \subseteq cat /\ OneTime(cat) /\ OneTime(file)
      BY <2>2 DEF BmkIInv, FileBehind
    <3>3. \A a \in file : a.what # item.what
      BY <3>1, <3>2 DEF OneTime
    <3>4. item.what \in Measurements
      BY <3>1 DEF BmkIInv, BmkTypeOK, Items, Good, Torn
    <3>5. Torn(item.what) \in Items /\ Torn(item.what).what = item.what
      BY <3>4 DEF Items, Torn
    <3> QED
      BY <3>1, <3>2, <3>3, <3>5 DEF OneTime, BmkIInv, BmkTypeOK
  <2> QED
    BY <2>1, <2>2 DEF Crash
<1>3. BmkTypeOK'
  BY <1>1, <1>2 DEF BmkIInv, BmkTypeOK
<1>4. CountersAgree' /\ WantedKept'
  BY <1>1 DEF BmkIInv, CountersAgree, WantedKept
<1>5. FileBehind'
  BY <1>1, <1>2 DEF BmkIInv, FileBehind, OneTime
<1> QED
  BY <1>1, <1>3, <1>4, <1>5 DEF BmkIInv, MineIsNew, AheadIsNew, TasksKept

LEMMA BmkStutterInv == ASSUME BmkIInv, UNCHANGED bmkVars PROVE BmkIInv'
<1>1. UNCHANGED <<phase, runs, file, wanted, cat, new, tasks, progress, finished, pc, mine>>
  BY DEF bmkVars, fileVars, threadVars
<1>2. BmkTypeOK' /\ CountersAgree' /\ MineIsNew'
  BY <1>1 DEF BmkIInv, BmkTypeOK, CountersAgree, Waiting, MineIsNew, Known
<1>3. AheadIsNew' /\ TasksKept' /\ WantedKept' /\ FileBehind'
  BY <1>1 DEF BmkIInv, AheadIsNew, TasksKept, WantedKept, FileBehind, Ahead, Known, OneTime
<1> QED
  BY <1>2, <1>3 DEF BmkIInv

-----------------------------------------------------------------------------
(* The theorems                                                            *)

(***************************************************************************)
(* The invariant of mini_benchmark: where the tasks are while threads      *)
(* measure, and how the file and the catalogue lie to each other.          *)
(***************************************************************************)
THEOREM BenchmarkInvariant == BmkSpec => []BmkIInv
<1>1. BmkIInv /\ [BmkNext]_bmkVars => BmkIInv'
  <2> SUFFICES ASSUME BmkIInv, [BmkNext]_bmkVars PROVE BmkIInv'
    OBVIOUS
  <2>1. ASSUME NEW r \in Requests, Begin(r) PROVE BmkIInv'
    BY <2>1, BeginInv
  <2>2. ASSUME NEW t \in Team, BmkThread(t) PROVE BmkIInv'
    BY <2>2, TakeDegreeInv, MeasureInv, MoveOnInv, FinishInv DEF BmkThread
  <2>3. CASE Join
    BY <2>3, JoinInv
  <2>4. CASE Saving
    BY <2>4, SavingInv
  <2>5. CASE Crash
    BY <2>5, CrashInv
  <2>6. CASE UNCHANGED bmkVars
    BY <2>6, BmkStutterInv
  <2> QED
    BY <2>1, <2>2, <2>3, <2>4, <2>5, <2>6 DEF BmkNext
<1> QED
  BY <1>1, BmkInitInv, PTL DEF BmkSpec

\* Type correctness; the counter of degrees stays within what the team can add.
THEOREM BenchmarkTypeCorrect == BmkSpec => []BmkTypeOK
<1>1. BmkIInv => BmkTypeOK
  BY DEF BmkIInv
<1> QED
  BY <1>1, BenchmarkInvariant, PTL

\* The CHECK of add_item never fails: no measurement is made twice.
THEOREM MeasuredOnce == BmkSpec => []AddedOnce
<1>1. BmkIInv => AddedOnce
  BY DEF BmkIInv, MineIsNew, AddedOnce
<1> QED
  BY <1>1, BenchmarkInvariant, PTL

\* When mini_benchmark returns it has what was asked for, after any number of killed runs.
THEOREM ResultsComplete == BmkSpec => []ResultsCover
<1>1. BmkIInv => ResultsCover
  BY DEF BmkIInv, WantedKept, FileBehind, OneTime, ResultsCover
<1> QED
  BY <1>1, BenchmarkInvariant, PTL

\* When mini_benchmark returns the file holds the catalogue.
THEOREM CatalogueSaved == BmkSpec => []FileIsCatalogue
<1>1. BmkIInv => FileIsCatalogue
  BY DEF BmkIInv, FileBehind, FileIsCatalogue
<1> QED
  BY <1>1, BenchmarkInvariant, PTL
=============================================================================
