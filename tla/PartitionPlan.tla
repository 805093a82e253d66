---------------------------- MODULE PartitionPlan ----------------------------
(***************************************************************************)
(* dp: the size of the partitions of every group.  Of each group one       *)
(* candidate is taken, so that there are at most PartitionCap partitions   *)
(* and the estimated time of a step is least: a multiple choice knapsack,  *)
(* worked off row by row, and read back along the entries' predecessors.   *)
(*                                                                         *)
(* What a candidate costs comes from the mini benchmark and the degrees of *)
(* the group's vertices; here it is any number of Times.  With few walkers *)
(* the mini benchmark skips partitions too small to hold one walker.       *)
(***************************************************************************)
EXTENDS Groups, Sequences, FiniteSetsExt

CONSTANTS VertexNum,       \* graph->v_num
          PartitionCap,    \* max_partition_num
          Times            \* what a candidate may cost

(***************************************************************************)
(* With a single group and no candidate the CHECK of the loop that reads   *)
(* the result is passed and an uninitialized index is used.  A single      *)
(* group is a single vertex, or 2 ^ k of them if MaxGroupNum were 1.       *)
(***************************************************************************)
ASSUME PlanAssumption ==
    /\ VertexNum \in Nat \ {0} /\ VertexNum < Word
    /\ PartitionCap \in Nat \ {0}
    /\ GroupNum(VertexNum) > 1
    /\ Times \subseteq Nat

G == GroupNum(VertexNum)
PlannedGroups == 0 .. G - 1
Columns == 0 .. PartitionCap

VARIABLES
    stage,        \* "rows", "carry" (the two loops of a row), "read", "done" or "failed"
    g_i,          \* the group, counted from 1 on
    candidates,   \* candidate_group_hints[g_i]: [bits, num, time]
    idx,          \* candidate_idx, counted from 1 on
    f,            \* the table: [val, candidate, previous] in G + 1 rows
    at,           \* dp_p, the column it points to in row g
    results       \* the candidate read back for each group

planVars == <<stage, g_i, candidates, idx, f, at, results>>

Infeasible == -1       \* no choice of candidates has so few partitions
Null       == -1       \* the null pointer, and no candidate

\* The largest size of partitions to choose from.
MostBits == Least(MaxPartitionBits, GroupBits(VertexNum))

\* A candidate for each size benchmarked, from 2 ^ least on: the smallest partitions first.
CandidatesOf(group, least, time) ==
    [i \in 1 .. MostBits + 1 - least |->
        [bits |-> least + i - 1, num |-> PartitionsOf(VertexNum, group, least + i - 1),
         time |-> time[group][least + i - 1]]]

PlanInit ==
    /\ stage = "rows" /\ g_i = 1 /\ idx = 1
    /\ \E least \in PartitionBits(VertexNum) \cup {MostBits + 1} :
       \E time \in [PlannedGroups -> [PartitionBits(VertexNum) -> Times]] :
          candidates = [group \in PlannedGroups |-> CandidatesOf(group, least, time)]
    /\ f = [row \in 0 .. G |-> [p \in Columns |->
               [val |-> IF row = 0 THEN 0 ELSE Infeasible, candidate |-> Null, previous |-> Null]]]
    /\ at = Null
    /\ results = [group \in PlannedGroups |-> Null]

\* Mutant: an improved entry keeps its old predecessor.
WrongImproved(old, before, k, column) ==
    IF before.val # Infeasible
       /\ (old.val = Infeasible \/ old.val > before.val + candidates[g_i - 1][k].time)
    THEN [val |-> before.val + candidates[g_i - 1][k].time, candidate |-> k,
          previous |-> IF old.val = Infeasible THEN column ELSE old.previous]
    ELSE old

\* The entry after candidate k was tried on top of the one before, at column in the row above.
Improved(old, before, k, column) ==
    IF before.val # Infeasible
       /\ (old.val = Infeasible \/ old.val > before.val + candidates[g_i - 1][k].time)
    THEN [val |-> before.val + candidates[g_i - 1][k].time, candidate |-> k, previous |-> column]
    ELSE old

\* Mutant: the candidate is added to what the group itself has so far.
WrongAbove == f[g_i]

Above == f[g_i - 1]

TryCandidate ==
    LET num == candidates[g_i - 1][idx].num IN
    /\ stage = "rows" /\ idx <= Len(candidates[g_i - 1])
    /\ f' = [f EXCEPT ![g_i] = [p \in Columns |->
                IF p >= num THEN Improved(@[p], Above[p - num], idx, p - num) ELSE @[p]]]
    /\ idx' = idx + 1
    /\ UNCHANGED <<stage, g_i, candidates, at, results>>

RowTried ==
    /\ stage = "rows" /\ idx > Len(candidates[g_i - 1])
    /\ stage' = "carry"
    /\ UNCHANGED <<g_i, candidates, idx, f, at, results>>

(***************************************************************************)
(* A column without a plan takes over its neighbour's.  The code would do  *)
(* so for a better plan, too, but compares the column with itself.         *)
(***************************************************************************)
CarryOver ==
    LET carried[p \in Columns] ==
            IF p > 0 /\ f[g_i][p].val = Infeasible THEN carried[p - 1] ELSE f[g_i][p]
    IN
    /\ stage = "carry"
    /\ f' = [f EXCEPT ![g_i] = carried]
    /\ idx' = 1
    /\ IF g_i < G THEN stage' = "rows" /\ g_i' = g_i + 1 /\ UNCHANGED at
                  ELSE stage' = "read" /\ at' = PartitionCap /\ UNCHANGED g_i
    /\ UNCHANGED <<candidates, results>>

\* Mutant: the loop reads row 0, which belongs to no group.
WrongReadBack ==
    /\ stage = "read" /\ g_i >= 0 /\ at # Null
    /\ results' = [results EXCEPT ![g_i - 1] = f[g_i][at].candidate]
    /\ at' = f[g_i][at].previous
    /\ g_i' = g_i - 1
    /\ UNCHANGED <<stage, candidates, idx, f>>

\* CHECK(dp_p != nullptr), then the entry's candidate is the group's.
ReadBack ==
    /\ stage = "read" /\ g_i >= 1 /\ at # Null
    /\ results' = [results EXCEPT ![g_i - 1] = f[g_i][at].candidate]
    /\ at' = f[g_i][at].previous
    /\ g_i' = g_i - 1
    /\ UNCHANGED <<stage, candidates, idx, f>>

CheckFails ==
    /\ stage = "read" /\ g_i >= 1 /\ at = Null
    /\ stage' = "failed"
    /\ UNCHANGED <<g_i, candidates, idx, f, at, results>>

PlanRead ==
    /\ stage = "read" /\ g_i = 0
    /\ stage' = "done"
    /\ UNCHANGED <<g_i, candidates, idx, f, at, results>>

Returned == stage \in {"done", "failed"} /\ UNCHANGED planVars

PlanNext ==
    \/ TryCandidate
    \/ RowTried
    \/ CarryOver
    \/ ReadBack
    \/ CheckFails
    \/ PlanRead
    \/ Returned

PlanSpec == PlanInit /\ [][PlanNext]_planVars

-----------------------------------------------------------------------------
EntryType == [val : Nat \cup {Infeasible}, candidate : Nat \cup {Null}, previous : Columns \cup {Null}]

\* The variables' types; the predecessor of an entry lies in the table.
PlanTypeOK ==
    /\ stage \in {"rows", "carry", "read", "done", "failed"}
    /\ g_i \in 0 .. G /\ idx \in Nat
    /\ f \in [0 .. G -> [Columns -> EntryType]]
    /\ at \in Columns \cup {Null}
    /\ results \in [PlannedGroups -> Nat \cup {Null}]

\* Every way to choose a candidate for each of the first n groups.
Plans(n) == [0 .. n - 1 -> 1 .. Len(candidates[0])]

Num(plan, n)  == Sum([group \in DOMAIN plan |-> candidates[group][plan[group]].num], n)
Time(plan, n) == Sum([group \in DOMAIN plan |-> candidates[group][plan[group]].time], n)

\* The least time of the first n groups with at most p partitions, by trying everything.
Best(n, p) ==
    LET times == {Time(plan, n) : plan \in {choice \in Plans(n) : Num(choice, n) <= p}}
    IN  IF times = {} THEN Infeasible ELSE Min(times)

(***************************************************************************)
(* When a row is done each of its columns holds the best time of the first *)
(* groups with so many partitions: what the rows to come build upon.       *)
(***************************************************************************)
RowsOptimal ==
    \A n \in 0 .. G :
        n < g_i \/ stage \in {"read", "done", "failed"} =>
            \A p \in Columns : f[n][p].val = Best(n, p)

(***************************************************************************)
(* The plan that is read back has a candidate for every group, fits, and   *)
(* takes the least time possible; the CHECK fails only if no plan fits.    *)
(***************************************************************************)
PlanOptimal ==
    /\ stage = "done" =>
          /\ \A group \in PlannedGroups : results[group] \in DOMAIN candidates[group]
          /\ Num(results, G) <= PartitionCap
          /\ Time(results, G) = Best(G, PartitionCap)
    /\ stage = "failed" => Best(G, PartitionCap) = Infeasible
=============================================================================
