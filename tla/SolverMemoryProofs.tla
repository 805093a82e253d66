------------------------- MODULE SolverMemoryProofs -------------------------
(***************************************************************************)
(* The memory of a FMobSolver: that every memory that is made is in its    *)
(* pool once, and all of it is taken, whatever the threads do at the lock; *)
(* and that every walker array is unmapped with the length it was mapped   *)
(* with.  For every team, plan of partitions, quota and number of epochs.  *)
(*                                                                         *)
(* The core is that no two requests ever have the same name, and that the  *)
(* pool does not grow between the look at its end and the write there.     *)
(***************************************************************************)
EXTENDS SolverMemory, CommonProofs

\* The names of requests: what it is for, and a number.
Tags(s) ==
    IF s = "rands" THEN {"rand"}
    ELSE IF s = "samplers" THEN {"sampler", "buffer"}
    ELSE IF s = "walkers" THEN {"state"} ELSE {"messages"}

\* What memories are for that were made up to a stage.
MadeTags(s) ==
    IF s = "new" THEN {}
    ELSE IF s = "rands" THEN {"rand"}
    ELSE IF s = "samplers" THEN {"rand", "sampler", "buffer"}
    ELSE IF s = "walkers" THEN {"rand", "sampler", "buffer", "state"}
    ELSE {"rand", "sampler", "buffer", "state", "messages"}

AllNames == {"rand", "sampler", "buffer", "state", "messages"} \X Int

\* Requests of which all that is counted is taken.
Requests(names) ==
    {r \in [name : names, counted : Seq(Nat), taken : Seq(Nat)] : r.counted = r.taken}

\* No two requests in a sequence have the same name.
Once(q) == \A i, j \in DOMAIN q : q[i].name = q[j].name => i = j

Busy(t)  == at[t] # "request"             \* its first request has a memory
Loose(t) == at[t] \in {"lock", "push"}    \* which is not in the pool yet

RequestsOnce ==
    /\ todo \in [Team -> Seq(Requests(Tags(stage) \X Int))]
    /\ \A t, u \in Team : \A i \in DOMAIN todo[t], j \in DOMAIN todo[u] :
          todo[t][i].name = todo[u][j].name => t = u /\ i = j
    /\ \A t \in Team : Busy(t) => todo[t] # << >>
    /\ stage \notin Pools => AllMade

MemoriesFilled ==
    /\ \A m \in DOMAIN memories : m[1] \in MadeTags(stage)
    /\ \A t \in Team : \A i \in DOMAIN todo[t] :
          todo[t][i].name \in DOMAIN memories => i = 1 /\ Busy(t)
    /\ \A m \in DOMAIN memories : memories[m] \in [size : Nat, taken : Nat]
    /\ \A t \in Team : Busy(t) =>
          /\ Request(t).name \in DOMAIN memories
          /\ memories[Request(t).name] = [size |-> Counter(0, Request(t).counted), taken |-> 0]
    /\ \A m \in DOMAIN memories :
          (\A t \in Team : Busy(t) => Request(t).name # m) => memories[m].taken = memories[m].size

PushedOnce ==
    /\ pool \in [Pools -> Seq(AllNames)]
    /\ \A t \in Team : at[t] = "push" <=> lock = t
    /\ \A t \in Team : at[t] = "push" => seen[t] = Len(pool[stage])
    /\ DOMAIN memories = InPools \cup {Request(t).name : t \in {u \in Team : Loose(u)}}
    /\ \A t \in Team : Loose(t) => Request(t).name \notin InPools
    /\ \A p \in Pools : \A i, j \in DOMAIN pool[p] : pool[p][i] = pool[p][j] => i = j

MapsAddUp ==
    /\ stage \notin {"walking", "walked", "destroyed"} => startNum = 0 /\ rest = WalkerNum
    /\ stage \in {"walked", "destroyed"} => rest = 0
    /\ rest # WalkerNum => startNum # 0
    /\ mapped = (IF stage \in {"messages", "ready", "walking", "walked"}
                 THEN ArraySize(SizeOfPid, 1) ELSE 0)
              + (IF stage \in {"ready", "walking", "walked"}
                 THEN WalkLen * ArraySize(SizeOfId, 1) ELSE 0)
              + (IF stage = "walking" THEN ArraySize(SizeOfId, WalkLen) ELSE 0)
              + (IF stage # "destroyed" /\ startNum # 0 THEN ArraySize(SizeOfId, 1) ELSE 0)
    /\ stage = "destroyed" => memories = << >>

MemoryIInv ==
    /\ MemoryTypeOK
    /\ RequestsOnce
    /\ MemoriesFilled
    /\ PushedOnce
    /\ MapsAddUp
-----------------------------------------------------------------------------
(* Sequences that are put together, and what is counted along them.        *)

\* The recursive function by which FlattenSeq is defined.
LEMMA FlattenSeqIs ==
    ASSUME NEW T, NEW seqs \in Seq(Seq(T)), Len(seqs) # 0
    PROVE  \E f \in [1 .. Len(seqs) -> Seq(T)] :
              /\ f[1] = seqs[1]
              /\ \A i \in 1 .. Len(seqs) - 1 : f[i + 1] = f[i] \o seqs[i + 1]
              /\ FlattenSeq(seqs) = f[Len(seqs)]
<1> DEFINE n == Len(seqs)
           Is(f, m) == f = [i \in 1 .. m |-> IF i = 1 THEN seqs[i] ELSE f[i - 1] \o seqs[i]]
           Exists == {m \in Nat : \E f : Is(f, m)}
           flatten == CHOOSE f : Is(f, n)
           Typed == {m \in Nat : m \in 1 .. n => flatten[m] \in Seq(T)}
<1>1. n \in Nat \ {0} /\ \A i \in 1 .. n : seqs[i] \in Seq(T)
  OBVIOUS
<1>2. Nat \subseteq Exists
  <2>1. 0 \in Exists
    <3>1. 1 .. 0 = {}
      OBVIOUS
    <3>2. \E f : f = [i \in {} |-> IF i = 1 THEN seqs[i] ELSE f[i - 1] \o seqs[i]]
      <4> DEFINE g == [i \in {} |-> 0]
      <4>1. g = [i \in {} |-> IF i = 1 THEN seqs[i] ELSE g[i - 1] \o seqs[i]]
        OBVIOUS
      <4> QED
        BY <4>1
    <3> QED
      BY <3>1, <3>2
  <2>2. ASSUME NEW m \in Nat, m \in Exists PROVE m + 1 \in Exists
    <3>1. PICK f : Is(f, m)
      BY <2>2
    <3> DEFINE g == [i \in 1 .. m + 1 |-> IF i = 1 THEN seqs[i] ELSE f[i - 1] \o seqs[i]]
    <3>2. \A i \in 1 .. m : g[i] = f[i]
      <4>1. \A i \in 1 .. m : f[i] = IF i = 1 THEN seqs[i] ELSE f[i - 1] \o seqs[i]
        BY <3>1, Zenon
      <4> QED
        BY <4>1
    <3>3. \A i \in 1 .. m + 1 : g[i] = IF i = 1 THEN seqs[i] ELSE g[i - 1] \o seqs[i]
      <4>1. \A i \in 1 .. m + 1 : i # 1 => i - 1 \in 1 .. m
        OBVIOUS
      <4>2. \A i \in 1 .. m + 1 : i # 1 => g[i - 1] = f[i - 1]
        BY <3>2, <4>1
      <4> QED
        BY <4>2
    <3>4. Is(g, m + 1)
      BY <3>3
    <3> HIDE DEF g, Is
    <3>5. \E h : Is(h, m + 1)
      BY <3>4
    <3> QED
      BY <3>5
  <2> HIDE DEF Exists
  <2> QED
    BY <2>1, <2>2, Induction
<1>3. Is(flatten, n)
  <2>1. \E f : Is(f, n)
    BY <1>1, <1>2
  <2> QED
    BY <2>1, Zenon
<1>4. FlattenSeq(seqs) = flatten[n]
  BY <1>1 DEF FlattenSeq
<1> HIDE DEF flatten
<1>5. flatten[1] = seqs[1] /\ \A i \in 1 .. n - 1 : flatten[i + 1] = flatten[i] \o seqs[i + 1]
  <2>1. flatten[1] = seqs[1]
    BY <1>1, <1>3
  <2>2. ASSUME NEW i \in 1 .. n - 1 PROVE flatten[i + 1] = flatten[i] \o seqs[i + 1]
    <3>1. i + 1 \in 1 .. n /\ i + 1 # 1 /\ (i + 1) - 1 = i
      BY <1>1
    <3> QED
      BY <1>3, <3>1
  <2> QED
    BY <2>1, <2>2
<1>6. Nat \subseteq Typed
  <2>1. 0 \in Typed
    OBVIOUS
  <2>2. ASSUME NEW m \in Nat, m \in Typed PROVE m + 1 \in Typed
    <3>1. CASE m = 0
      BY <1>1, <1>5, <3>1
    <3>2. CASE m \in 1 .. n - 1
      <4>1. m \in 1 .. n /\ m + 1 \in 1 .. n
        BY <1>1, <3>2
      <4>2. flatten[m] \in Seq(T) /\ seqs[m + 1] \in Seq(T)
        BY <1>1, <2>2, <4>1
      <4>3. flatten[m + 1] = flatten[m] \o seqs[m + 1]
        BY <1>5, <3>2
      <4>4. flatten[m + 1] \in Seq(T)
        BY <4>2, <4>3, ConcatProperties, Zenon
      <4> QED
        BY <4>4
    <3>3. CASE m >= n
      BY <1>1, <3>3
    <3> QED
      BY <1>1, <3>1, <3>2, <3>3
  <2> HIDE DEF Typed
  <2> QED
    BY <2>1, <2>2, Induction
<1>7. flatten \in [1 .. n -> Seq(T)]
  <2>1. \A m \in 1 .. n : flatten[m] \in Seq(T)
    BY <1>6
  <2> QED
    BY <1>3, <2>1
<1> QED
  BY <1>4, <1>5, <1>7

\* An aligned size is a size.
LEMMA AlignedType == ASSUME NEW n \in Nat PROVE Aligned(n) \in Nat
<1>1. Alignment \in Nat \ {0} /\ n + Alignment - 1 \in Nat
  BY SolverMemoryAssumption
<1>2. CeilDiv(n, Alignment) \in Nat
  BY <1>1, DivMod DEF CeilDiv
<1> QED
  BY <1>1, <1>2 DEF Aligned

\* The greatest of a set of indices.
LEMMA MaxOfIndices ==
    ASSUME NEW m \in Nat, NEW s \in SUBSET (1 .. m), s # {}
    PROVE  Max(s) \in s /\ \A i \in s : i <= Max(s)
<1> DEFINE Bounded == {n \in Nat : \A r \in SUBSET (1 .. n) : r # {} => \E x \in r : \A y \in r : x >= y}
<1>1. Nat \subseteq Bounded
  <2>1. 0 \in Bounded
    <3>1. 1 .. 0 = {}
      OBVIOUS
    <3> QED
      BY <3>1
  <2>2. ASSUME NEW n \in Nat, n \in Bounded PROVE n + 1 \in Bounded
    <3>1. ASSUME NEW r \in SUBSET (1 .. n + 1), r # {} PROVE \E x \in r : \A y \in r : x >= y
      <4>1. CASE n + 1 \in r
        BY <4>1
      <4>2. CASE n + 1 \notin r
        <5>1. r \in SUBSET (1 .. n)
          BY <4>2
        <5> QED
          BY <2>2, <3>1, <5>1
      <4> QED
        BY <4>1, <4>2
    <3> QED
      BY <3>1
  <2> HIDE DEF Bounded
  <2> QED
    BY <2>1, <2>2, Induction
<1>2. \E x \in s : \A y \in s : x >= y
  BY <1>1
<1>3. Max(s) \in s /\ \A y \in s : Max(s) >= y
  BY <1>2, Zenon DEF Max
<1> QED
  BY <1>3

\* Without its greatest element, a set of the first m + 1 indices is one of the first m.
LEMMA WithoutMax ==
    ASSUME NEW m \in Nat, NEW s \in SUBSET (1 .. m + 1), s # {}
    PROVE  Max(s) \in s /\ s \ {Max(s)} \in SUBSET (1 .. m)
<1> DEFINE k == m + 1
<1>1. k \in Nat /\ s \in SUBSET (1 .. k)
  OBVIOUS
<1>2. Max(s) \in s /\ \A i \in s : i <= Max(s)
  <2> HIDE DEF k
  <2> QED
    BY <1>1, MaxOfIndices
<1>3. ASSUME NEW i \in s, i # Max(s) PROVE i \in 1 .. m
  <2>1. i \in 1 .. m + 1 /\ Max(s) \in 1 .. m + 1 /\ i <= Max(s)
    BY <1>2
  <2> QED
    BY <1>3, <2>1
<1> QED
  BY <1>2, <1>3

\* What a counter counts is a size.
LEMMA CounterType ==
    ASSUME NEW blocks \in Seq(Nat)
    PROVE  Counter(0, blocks) \in Nat
<1> DEFINE D == DOMAIN blocks
           Is(f, m) == f = [s \in SUBSET (1 .. m) |->
                              IF s = {} THEN 0 ELSE Aligned(f[s \ {Max(s)}] + blocks[Max(s)])]
           iter == CHOOSE f : f = [s \in SUBSET D |->
                              IF s = {} THEN 0 ELSE Aligned(f[s \ {Max(s)}] + blocks[Max(s)])]
           Exists == {m \in Nat : \E f : Is(f, m)}
           Typed == {m \in Nat : \A s \in SUBSET (1 .. m) : s \in SUBSET D => iter[s] \in Nat}
<1>1. D = 1 .. Len(blocks) /\ Len(blocks) \in Nat /\ \A i \in D : blocks[i] \in Nat
  OBVIOUS
<1>2. Counter(0, blocks) = iter[D]
  BY DEF Counter, FoldLeft, MapThenFoldSet
<1>3. Nat \subseteq Exists
  <2>1. 0 \in Exists
    <3>1. SUBSET (1 .. 0) = {{}}
      OBVIOUS
    <3> DEFINE g == [s \in {{}} |-> 0]
    <3>2. g = [s \in {{}} |-> IF s = {} THEN 0 ELSE Aligned(g[s \ {Max(s)}] + blocks[Max(s)])]
      OBVIOUS
    <3>3. \E f : f = [s \in {{}} |-> IF s = {} THEN 0 ELSE Aligned(f[s \ {Max(s)}] + blocks[Max(s)])]
      BY <3>2
    <3> QED
      BY <3>1, <3>3
  <2>2. ASSUME NEW m \in Nat, m \in Exists PROVE m + 1 \in Exists
    <3>1. PICK f : Is(f, m)
      BY <2>2
    <3> DEFINE Step(s, h) == IF s = {} THEN 0 ELSE Aligned(h[s \ {Max(s)}] + blocks[Max(s)])
               g == [s \in SUBSET (1 .. m + 1) |-> Step(s, f)]
    <3>2. ASSUME NEW s \in SUBSET (1 .. m + 1), s # {} PROVE s \ {Max(s)} \in SUBSET (1 .. m)
      BY <3>2, WithoutMax
    <3>3. ASSUME NEW s \in SUBSET (1 .. m) PROVE g[s] = f[s]
      <4>1. s \in SUBSET (1 .. m + 1)
        OBVIOUS
      <4>2. f[s] = Step(s, f)
        BY <3>1, Zenon
      <4>3. g[s] = Step(s, f)
        BY <4>1
      <4> QED
        BY <4>2, <4>3
    <3>4. ASSUME NEW s \in SUBSET (1 .. m + 1) PROVE g[s] = Step(s, g)
      <4>1. g[s] = Step(s, f)
        OBVIOUS
      <4> HIDE DEF g
      <4>2. CASE s = {}
        BY <4>1, <4>2
      <4>3. CASE s # {}
        <5>1. g[s \ {Max(s)}] = f[s \ {Max(s)}]
          BY <3>2, <3>3, <4>3
        <5> QED
          BY <4>1, <4>3, <5>1
      <4> QED
        BY <4>2, <4>3
    <3>5. g = [s \in SUBSET (1 .. m + 1) |-> g[s]]
      OBVIOUS
    <3> HIDE DEF g
    <3>6. Is(g, m + 1)
      BY <3>4, <3>5
    <3> HIDE DEF Is
    <3>7. \E h : Is(h, m + 1)
      BY <3>6
    <3> QED
      BY <3>7
  <2> HIDE DEF Exists
  <2> QED
    BY <2>1, <2>2, Induction
<1>4. \A s \in SUBSET D : iter[s] = IF s = {} THEN 0 ELSE Aligned(iter[s \ {Max(s)}] + blocks[Max(s)])
  <2>1. \E f : f = [s \in SUBSET D |-> IF s = {} THEN 0 ELSE Aligned(f[s \ {Max(s)}] + blocks[Max(s)])]
    BY <1>1, <1>3
  <2>2. iter = [s \in SUBSET D |-> IF s = {} THEN 0 ELSE Aligned(iter[s \ {Max(s)}] + blocks[Max(s)])]
    BY <2>1, Zenon
  <2> HIDE DEF iter
  <2> QED
    BY <2>2, Zenon
<1> HIDE DEF iter
<1>5. Nat \subseteq Typed
  <2>1. 0 \in Typed
    <3>1. iter[{}] \in Nat
      <4>1. {} \in SUBSET D
        OBVIOUS
      <4>2. iter[{}] = 0
        BY <1>4, <4>1
      <4> QED
        BY <4>2
    <3>2. \A s \in SUBSET (1 .. 0) : s = {}
      OBVIOUS
    <3>3. \A s \in SUBSET (1 .. 0) : iter[s] \in Nat
      BY <3>1, <3>2, Zenon
    <3> QED
      BY <3>3
  <2>2. ASSUME NEW m \in Nat, m \in Typed PROVE m + 1 \in Typed
    <3>1. ASSUME NEW s \in SUBSET (1 .. m + 1), s \in SUBSET D, s # {} PROVE iter[s] \in Nat
      <4>1. Max(s) \in s /\ s \ {Max(s)} \in SUBSET (1 .. m)
        BY <3>1, WithoutMax
      <4>2. s \ {Max(s)} \in SUBSET (1 .. m) /\ s \ {Max(s)} \in SUBSET D
        BY <3>1, <4>1
      <4>3. iter[s \ {Max(s)}] + blocks[Max(s)] \in Nat
        <5>1. iter[s \ {Max(s)}] \in Nat
          BY <2>2, <4>2
        <5>2. blocks[Max(s)] \in Nat
          BY <1>1, <3>1, <4>1
        <5> QED
          BY <5>1, <5>2
      <4>4. iter[s] = Aligned(iter[s \ {Max(s)}] + blocks[Max(s)])
        BY <1>4, <3>1
      <4> QED
        BY <4>3, <4>4, AlignedType
    <3>2. iter[{}] = 0
      BY <1>4
    <3>3. \A s \in SUBSET (1 .. m + 1) : s \in SUBSET D => iter[s] \in Nat
      <4> SUFFICES ASSUME NEW s \in SUBSET (1 .. m + 1), s \in SUBSET D PROVE iter[s] \in Nat
        OBVIOUS
      <4>1. CASE s = {}
        BY <3>2, <4>1
      <4>2. CASE s # {}
        BY <3>1, <4>2
      <4> QED
        BY <4>1, <4>2
    <3> QED
      BY <3>3
  <2> HIDE DEF Typed
  <2> QED
    BY <2>1, <2>2, Induction
<1>6. D \in SUBSET (1 .. Len(blocks)) /\ D \in SUBSET D
  BY <1>1
<1>7. iter[D] \in Nat
  BY <1>1, <1>5, <1>6
<1> QED
  BY <1>2, <1>7
-----------------------------------------------------------------------------
(* The requests of the stages.                                             *)

\* Requests put behind others of other names.
LEMMA ConcatOnce ==
    ASSUME NEW A, NEW B, A \cap B = {},
           NEW a \in Seq(Requests(A)), NEW b \in Seq(Requests(B)), Once(a), Once(b)
    PROVE  a \o b \in Seq(Requests(A \cup B)) /\ Once(a \o b)
<1> DEFINE m == Len(a)
           n == Len(b)
           c == a \o b
<1>1. m \in Nat /\ n \in Nat /\ DOMAIN a = 1 .. m /\ DOMAIN b = 1 .. n
  OBVIOUS
<1>2. \A i \in 1 .. m : a[i] \in Requests(A) /\ a[i].name \in A
  BY <1>1 DEF Requests
<1>3. \A i \in 1 .. n : b[i] \in Requests(B) /\ b[i].name \in B
  BY <1>1 DEF Requests
<1>4. /\ c \in Seq(Requests(A \cup B)) /\ Len(c) = m + n /\ DOMAIN c = 1 .. m + n
      /\ \A i \in 1 .. m + n : c[i] = IF i <= m THEN a[i] ELSE b[i - m]
  <2>1. Requests(A) \subseteq Requests(A \cup B) /\ Requests(B) \subseteq Requests(A \cup B)
    BY DEF Requests
  <2>2. a \in Seq(Requests(A \cup B)) /\ b \in Seq(Requests(A \cup B))
    BY <2>1, SeqMonotonic
  <2> QED
    BY <2>2, ConcatProperties
<1>5. ASSUME NEW i \in 1 .. m + n, NEW j \in 1 .. m + n, c[i].name = c[j].name PROVE i = j
  <2>1. CASE i <= m /\ j <= m
    <3>1. i \in 1 .. m /\ j \in 1 .. m /\ c[i] = a[i] /\ c[j] = a[j]
      BY <1>1, <1>4, <2>1
    <3> QED
      BY <1>1, <1>5, <3>1 DEF Once
  <2>2. CASE i > m /\ j > m
    <3>1. i - m \in 1 .. n /\ j - m \in 1 .. n /\ c[i] = b[i - m] /\ c[j] = b[j - m]
      BY <1>1, <1>4, <2>2
    <3>2. i - m = j - m
      BY <1>1, <1>5, <3>1 DEF Once
    <3> QED
      BY <1>1, <3>2
  <2>3. CASE i <= m /\ j > m
    <3>1. i \in 1 .. m /\ j - m \in 1 .. n /\ c[i] = a[i] /\ c[j] = b[j - m]
      BY <1>1, <1>4, <2>3
    <3>2. c[i].name \in A /\ c[j].name \in B
      BY <1>2, <1>3, <3>1
    <3> QED
      BY <1>5, <3>2
  <2>4. CASE i > m /\ j <= m
    <3>1. j \in 1 .. m /\ i - m \in 1 .. n /\ c[j] = a[j] /\ c[i] = b[i - m]
      BY <1>1, <1>4, <2>4
    <3>2. c[j].name \in A /\ c[i].name \in B
      BY <1>2, <1>3, <3>1
    <3> QED
      BY <1>5, <3>2
  <2> QED
    BY <1>1, <2>1, <2>2, <2>3, <2>4
<1> QED
  BY <1>4, <1>5 DEF Once

\* MemoryPool::alloc counts what it takes.
LEMMA SingleType ==
    ASSUME NEW names, NEW name \in names, NEW n \in Nat
    PROVE  Single(name, n) \in Requests(names) /\ Single(name, n).name = name
  BY DEF Single, Requests

\* One request per thread.
LEMMA PerThreadOnce ==
    ASSUME NEW tag, NEW n \in Nat
    PROVE  PerThread(tag, n) \in Seq(Requests({tag} \X Int)) /\ Once(PerThread(tag, n))
<1>1. ThreadNum \in Nat
  BY ThreadsAssumption
<1>2. \A i \in 1 .. ThreadNum : /\ PerThread(tag, n)[i] \in Requests({tag} \X Int)
                                /\ PerThread(tag, n)[i].name = <<tag, i - 1>>
  <2>1. ASSUME NEW i \in 1 .. ThreadNum
        PROVE  /\ Single(<<tag, i - 1>>, n) \in Requests({tag} \X Int)
               /\ Single(<<tag, i - 1>>, n).name = <<tag, i - 1>>
    <3>1. i - 1 \in Int
      OBVIOUS
    <3>2. <<tag, i - 1>> \in {tag} \X Int
      BY <3>1, Zenon
    <3> QED
      BY <3>2, SingleType, Zenon
  <2> QED
    BY <2>1 DEF PerThread
<1>3. PerThread(tag, n) \in Seq(Requests({tag} \X Int)) /\ DOMAIN PerThread(tag, n) = 1 .. ThreadNum
  <2>1. PerThread(tag, n) \in [1 .. ThreadNum -> Requests({tag} \X Int)]
    BY <1>2 DEF PerThread
  <2> QED
    BY <1>1, <2>1, FunctionIsSeq
<1>4. ASSUME NEW i \in 1 .. ThreadNum, NEW j \in 1 .. ThreadNum, <<tag, i - 1>> = <<tag, j - 1>>
      PROVE  i = j
  BY <1>1, <1>4
<1> QED
  BY <1>2, <1>3, <1>4 DEF Once

\* The requests of a partition's sampler.
LEMMA SamplerRequestsOnce ==
    ASSUME NEW p \in Partitions
    PROVE  /\ SamplerRequests(p) \in Seq(Requests({"sampler", "buffer"} \X {p}))
           /\ Once(SamplerRequests(p))
<1> DEFINE R == Requests({"sampler", "buffer"} \X {p})
           r1 == Single(<<"sampler", p>>, ObjectSize.sampler)
           r2 == [name |-> <<"buffer", p>>, counted |-> BufferBlocks(p), taken |-> BufferBlocks(p)]
<1>1. r1 \in R /\ r1.name = <<"sampler", p>>
  <2>1. ObjectSize.sampler \in Nat
    BY SolverMemoryAssumption
  <2>2. <<"sampler", p>> \in {"sampler", "buffer"} \X {p}
    OBVIOUS
  <2> QED
    BY <2>1, <2>2, SingleType
<1>2. r2 \in R /\ r2.name = <<"buffer", p>>
  <2>1. 2 * SizeOfId * VertexNum[p] \in Nat /\ SizeOfId * BufferUnits[p] \in Nat
    BY SolverMemoryAssumption DEF SizeOfId
  <2>2. BufferBlocks(p) \in Seq(Nat)
    BY <2>1 DEF BufferBlocks
  <2>3. <<"buffer", p>> \in {"sampler", "buffer"} \X {p}
    OBVIOUS
  <2> QED
    BY <2>2, <2>3 DEF Requests
<1>3. <<"sampler", p>> # <<"buffer", p>>
  OBVIOUS
<1>4. SamplerRequests(p) = <<r1>> \o IF BufferUnits[p] = 0 THEN << >> ELSE <<r2>>
  BY DEF SamplerRequests
<1> HIDE DEF r1, r2, R
<1>5. CASE BufferUnits[p] = 0
  <2>1. SamplerRequests(p) = <<r1>>
    BY <1>1, <1>4, <1>5
  <2> QED
    BY <1>1, <2>1 DEF Once, R
<1>6. CASE BufferUnits[p] # 0
  <2>1. SamplerRequests(p) = <<r1>> \o <<r2>>
    BY <1>4, <1>6
  <2>2. SamplerRequests(p) = <<r1, r2>>
    <3>1. <<r1>> \in Seq(R) /\ <<r2>> \in Seq(R) /\ <<r1, r2>> \in Seq(R)
      BY <1>1, <1>2
    <3>2. <<r1>> \o <<r2>> \in Seq(R) /\ Len(<<r1>> \o <<r2>>) = 2
      BY <3>1
    <3>3. \A i \in 1 .. 2 : (<<r1>> \o <<r2>>)[i] = <<r1, r2>>[i]
      BY <3>1
    <3> QED
      BY <2>1, <3>1, <3>2, <3>3, SeqEqual
  <2>3. SamplerRequests(p) \in Seq(R) /\ DOMAIN SamplerRequests(p) = 1 .. 2
    BY <1>1, <1>2, <2>2
  <2>4. SamplerRequests(p)[1] = r1 /\ SamplerRequests(p)[2] = r2
    BY <2>2
  <2>5. r1.name # r2.name
    BY <1>1, <1>2, <1>3
  <2>6. \A i \in 1 .. 2 : i = 1 \/ i = 2
    OBVIOUS
  <2>7. Once(SamplerRequests(p))
    BY <2>3, <2>4, <2>5, <2>6, Zenon DEF Once
  <2> QED
    BY <2>3, <2>7 DEF R
<1> QED
  BY <1>5, <1>6

\* The samplers of the partitions below n that fall to thread t.
SamplerNames(owner, t, n) == {"sampler", "buffer"} \X {p \in 0 .. n - 1 : owner[p] = t}

\* The loop over the partitions makes each sampler's requests once.
LEMMA SamplerTodo ==
    ASSUME NEW owner \in [Partitions -> Team], NEW t \in Team,
           NEW q, q = FlattenSeq([i \in 1 .. PartitionNum |->
                                     IF owner[i - 1] = t THEN SamplerRequests(i - 1) ELSE << >>])
    PROVE  q \in Seq(Requests(SamplerNames(owner, t, PartitionNum))) /\ Once(q)
<1> DEFINE seqs == [i \in 1 .. PartitionNum |->
                        IF owner[i - 1] = t THEN SamplerRequests(i - 1) ELSE << >>]
           Sub(n) == SamplerNames(owner, t, n)
           T == Requests(Sub(PartitionNum))
<1>1. PartitionNum \in Nat
  BY SolverMemoryAssumption
<1>2. ASSUME NEW i \in 1 .. PartitionNum
      PROVE  /\ i - 1 \in Partitions
             /\ seqs[i] \in Seq(Requests(Sub(i) \ Sub(i - 1))) /\ Once(seqs[i])
  <2>1. i - 1 \in Partitions
    BY <1>1 DEF Partitions
  <2>2. CASE owner[i - 1] = t
    <3>1. {"sampler", "buffer"} \X {i - 1} \subseteq Sub(i) \ Sub(i - 1)
      BY <1>1, <2>2 DEF SamplerNames
    <3>2. Requests({"sampler", "buffer"} \X {i - 1}) \subseteq Requests(Sub(i) \ Sub(i - 1))
      BY <3>1 DEF Requests
    <3>3. seqs[i] = SamplerRequests(i - 1)
      BY <2>2
    <3> HIDE DEF seqs, Sub
    <3>4. SamplerRequests(i - 1) \in Seq(Requests({"sampler", "buffer"} \X {i - 1})) /\ Once(SamplerRequests(i - 1))
      BY <2>1, SamplerRequestsOnce
    <3>5. SamplerRequests(i - 1) \in Seq(Requests(Sub(i) \ Sub(i - 1)))
      <4> DEFINE S == Requests({"sampler", "buffer"} \X {i - 1})
                 U == Requests(Sub(i) \ Sub(i - 1))
                 r == SamplerRequests(i - 1)
      <4>1. r \in Seq(S) /\ S \subseteq U
        BY <3>2, <3>4
      <4> HIDE DEF S, U, r
      <4>2. r \in Seq(U)
        BY <4>1, SeqMonotonic
      <4> QED
        BY <4>2 DEF U, r
    <3> QED
      BY <2>1, <3>3, <3>4, <3>5
  <2>3. CASE owner[i - 1] # t
    BY <2>1, <2>3 DEF Once
  <2> QED
    BY <2>1, <2>2, <2>3
<1>3. \A n \in 1 .. PartitionNum : Sub(n) \subseteq Sub(PartitionNum) /\ Sub(n - 1) \subseteq Sub(n)
  BY <1>1 DEF SamplerNames
<1>4. seqs \in Seq(Seq(T)) /\ Len(seqs) = PartitionNum
  <2>1. ASSUME NEW i \in 1 .. PartitionNum PROVE seqs[i] \in Seq(T)
    <3>1. Requests(Sub(i) \ Sub(i - 1)) \subseteq T
      BY <1>3 DEF Requests
    <3> HIDE DEF seqs, Sub, T
    <3> QED
      BY <1>2, <3>1
  <2>2. seqs \in [1 .. PartitionNum -> Seq(T)]
    BY <2>1
  <2> QED
    BY <1>1, <2>2
<1> HIDE DEF seqs, T
<1>5. CASE PartitionNum = 0
  <2>1. FlattenSeq(seqs) = seqs
    BY <1>4, <1>5 DEF FlattenSeq
  <2>2. q = << >>
    BY <1>4, <1>5, <2>1 DEF seqs
  <2>3. Once(<< >>)
    BY DEF Once
  <2>4. << >> \in Seq(Requests(SamplerNames(owner, t, PartitionNum)))
    BY Zenon, EmptySeq
  <2> QED
    BY <2>2, <2>3, <2>4
<1>6. CASE PartitionNum # 0
  <2>1. PICK f \in [1 .. PartitionNum -> Seq(T)] :
           /\ f[1] = seqs[1]
           /\ \A i \in 1 .. PartitionNum - 1 : f[i + 1] = f[i] \o seqs[i + 1]
           /\ FlattenSeq(seqs) = f[PartitionNum]
    BY <1>4, <1>6, FlattenSeqIs
  <2> DEFINE Good == {n \in Nat : n \in 1 .. PartitionNum => f[n] \in Seq(Requests(Sub(n))) /\ Once(f[n])}
  <2>2. Nat \subseteq Good
    <3>1. 0 \in Good
      OBVIOUS
    <3>2. ASSUME NEW n \in Nat, n \in Good PROVE n + 1 \in Good
      <4>1. CASE n = 0
        <5>1. Requests(Sub(1) \ Sub(0)) \subseteq Requests(Sub(1))
          BY DEF Requests
        <5>2. seqs[1] \in Seq(Requests(Sub(1) \ Sub(0))) /\ Once(seqs[1])
          <6>1. 1 \in 1 .. PartitionNum /\ 1 - 1 = 0
            BY <1>1, <1>6
          <6> HIDE DEF Sub
          <6> QED
            BY <1>2, <6>1
        <5>3. f[1] \in Seq(Requests(Sub(1))) /\ Once(f[1])
          BY <2>1, <5>1, <5>2
        <5> QED
          BY <4>1, <5>3
      <4>2. CASE n \in 1 .. PartitionNum - 1
        <5>1. n \in 1 .. PartitionNum /\ n + 1 \in 1 .. PartitionNum /\ (n + 1) - 1 = n
          BY <1>1, <4>2
        <5>2. f[n] \in Seq(Requests(Sub(n))) /\ Once(f[n])
          BY <3>2, <5>1
        <5> HIDE DEF Sub
        <5>3. seqs[n + 1] \in Seq(Requests(Sub(n + 1) \ Sub(n))) /\ Once(seqs[n + 1])
          <6> DEFINE k == n + 1
          <6>1. k \in 1 .. PartitionNum /\ k - 1 = n
            BY <5>1
          <6> HIDE DEF k
          <6>2. seqs[k] \in Seq(Requests(Sub(k) \ Sub(k - 1))) /\ Once(seqs[k])
            BY <1>2, <6>1
          <6> QED
            BY <6>1, <6>2 DEF k
        <5>4. f[n + 1] = f[n] \o seqs[n + 1]
          BY <2>1, <4>2
        <5>5. Sub(n) \cap (Sub(n + 1) \ Sub(n)) = {} /\ Sub(n) \cup (Sub(n + 1) \ Sub(n)) = Sub(n + 1)
          <6>1. Sub(n) \subseteq Sub(n + 1)
            BY <1>3, <5>1
          <6> QED
            BY <6>1
        <5>6. f[n + 1] \in Seq(Requests(Sub(n) \cup (Sub(n + 1) \ Sub(n)))) /\ Once(f[n + 1])
          <6> DEFINE A == Sub(n)
                     B == Sub(n + 1) \ Sub(n)
                     a == f[n]
                     b == seqs[n + 1]
          <6>1. A \cap B = {} /\ a \in Seq(Requests(A)) /\ b \in Seq(Requests(B)) /\ Once(a) /\ Once(b)
            BY <5>2, <5>3, <5>5
          <6>2. f[n + 1] = a \o b
            BY <5>4
          <6> HIDE DEF A, B, a, b
          <6>3. a \o b \in Seq(Requests(A \cup B)) /\ Once(a \o b)
            BY <6>1, ConcatOnce
          <6> QED
            BY <6>2, <6>3 DEF A, B
        <5>7. f[n + 1] \in Seq(Requests(Sub(n + 1))) /\ Once(f[n + 1])
          BY <5>5, <5>6
        <5> QED
          BY <5>7
      <4>3. CASE n >= PartitionNum
        BY <1>1, <4>3
      <4> QED
        BY <1>1, <4>1, <4>2, <4>3
    <3> HIDE DEF Good
    <3> QED
      BY <3>1, <3>2, Induction
  <2>3. PartitionNum \in 1 .. PartitionNum
    BY <1>1, <1>6
  <2> HIDE DEF Sub
  <2>4. f[PartitionNum] \in Seq(Requests(Sub(PartitionNum))) /\ Once(f[PartitionNum])
    BY <1>1, <2>2, <2>3
  <2> QED
    BY <2>1, <2>4 DEF seqs, Sub
<1> QED
  BY <1>5, <1>6
\* The threads of a socket.
LEMMA ThreadOfType ==
    ASSUME NEW s \in Sockets, NEW i \in 1 .. SocketThreadNum
    PROVE  ThreadOf(s, i) \in Team
<1> DEFINE k == SocketThreadNum
<1>1. k \in Nat \ {0} /\ SocketNum \in Nat /\ ThreadNum = SocketNum * k /\ ThreadNum \in Nat
  BY TeamSize, ThreadsAssumption
<1>2. s \in Nat /\ s + 1 <= SocketNum
  BY ThreadsAssumption DEF Sockets
<1>3. PICK d \in Nat : SocketNum = s + 1 + d
  <2>1. SocketNum - s - 1 \in Nat /\ SocketNum = s + 1 + (SocketNum - s - 1)
    BY <1>1, <1>2
  <2> QED
    BY <2>1
<1> HIDE DEF k
<1>4. ThreadNum = s * k + k + d * k /\ s * k \in Nat /\ d * k \in Nat
  BY <1>1, <1>2, <1>3, Z3
<1> QED
  BY <1>1, <1>4 DEF ThreadOf, Team, k

\* Both passes over a task agree.
LEMMA CountedIsTaken ==
    ASSUME messageNum \in [Team -> Nat], NEW t \in Team
    PROVE  CountedFor(t) = TakenFor(t) /\ CountedFor(t) \in Seq(Nat)
<1> DEFINE a == ObjectSize.task
           b == SizeOfId * PartitionNum
           d == SizeOfId * messageNum[t]
           four == <<a, b, b, d>>
           blocks == <<a>> \o <<b>> \o <<b>> \o <<d>>
<1>1. a \in Nat /\ b \in Nat /\ d \in Nat
  BY SolverMemoryAssumption DEF SizeOfId
<1>2. /\ CountedFor(t) = four \o IF isNode2vec THEN <<d>> ELSE << >>
      /\ TakenFor(t) = IF isNode2vec THEN Append(blocks, d) ELSE blocks
  BY DEF CountedFor, TakenFor
<1> HIDE DEF a, b, d
<1>3. four \in Seq(Nat) /\ blocks \in Seq(Nat) /\ <<d>> \in Seq(Nat)
  BY <1>1
<1>4. blocks = four
  <2>1. Len(blocks) = 4 /\ Len(four) = 4
    BY <1>1
  <2>2. blocks[1] = a /\ blocks[2] = b /\ blocks[3] = b /\ blocks[4] = d
    BY <1>1
  <2>3. \A i \in 1 .. 4 : blocks[i] = four[i]
    BY <1>1, <2>2
  <2> QED
    BY <1>3, <2>1, <2>3, SeqEqual
<1> HIDE DEF four, blocks
<1>5. CASE isNode2vec
  <2>1. four \o <<d>> = Append(four, d)
    BY <1>1, <1>3
  <2> QED
    BY <1>1, <1>2, <1>3, <1>4, <1>5, <2>1
<1>6. CASE ~isNode2vec
  BY <1>2, <1>3, <1>4, <1>6
<1> QED
  BY <1>5, <1>6

\* The request for the tasks of a socket.
LEMMA MessageRequestType ==
    ASSUME messageNum \in [Team -> Nat], NEW s \in Sockets
    PROVE  MessageRequest(s) \in Requests({"messages"} \X Int) /\ MessageRequest(s).name = <<"messages", s>>
<1> DEFINE n == SocketThreadNum
           counted == [i \in 1 .. n |-> CountedFor(ThreadOf(s, i))]
           taken   == [i \in 1 .. n |-> TakenFor(ThreadOf(s, i))]
<1>1. n \in Nat \ {0}
  BY TeamSize
<1>2. \A i \in 1 .. n : /\ CountedFor(ThreadOf(s, i)) = TakenFor(ThreadOf(s, i))
                        /\ CountedFor(ThreadOf(s, i)) \in Seq(Nat)
  BY ThreadOfType, CountedIsTaken
<1>3. counted = taken
  BY <1>2
<1>4. counted \in Seq(Seq(Nat)) /\ Len(counted) = n
  <2>1. counted \in [1 .. n -> Seq(Nat)]
    BY <1>2
  <2> HIDE DEF counted, n
  <2> QED
    BY <1>1, <2>1, FunctionIsSeq
<1>5. FlattenSeq(counted) \in Seq(Nat)
  <2> HIDE DEF counted, n
  <2>1. PICK f \in [1 .. Len(counted) -> Seq(Nat)] : FlattenSeq(counted) = f[Len(counted)]
    BY <1>1, <1>4, FlattenSeqIs
  <2>2. Len(counted) \in 1 .. Len(counted)
    BY <1>1, <1>4
  <2> QED
    BY <2>1, <2>2
<1>6. TaskPointers \in Seq(Nat)
  <2>1. SizeOfPointer * SocketThreadNum \in Nat
    BY <1>1 DEF SizeOfPointer
  <2> QED
    BY <2>1 DEF TaskPointers
<1>7. MessageRequest(s) = [name |-> <<"messages", s>>, counted |-> TaskPointers \o FlattenSeq(counted),
                           taken |-> TaskPointers \o FlattenSeq(taken)]
  BY DEF MessageRequest
<1>8. TaskPointers \o FlattenSeq(counted) \in Seq(Nat)
  <2> HIDE DEF counted
  <2> QED
    BY <1>5, <1>6, ConcatProperties
<1>9. <<"messages", s>> \in {"messages"} \X Int
  BY ThreadsAssumption DEF Sockets
<1> DEFINE c == TaskPointers \o FlattenSeq(counted)
           nm == <<"messages", s>>
<1>10. MessageRequest(s) = [name |-> nm, counted |-> c, taken |-> c] /\ c \in Seq(Nat) /\ nm \in {"messages"} \X Int
  <2> HIDE DEF counted, taken
  <2> QED
    BY <1>3, <1>7, <1>8, <1>9
<1> HIDE DEF c, nm
<1>11. MessageRequest(s) \in Requests({"messages"} \X Int) /\ MessageRequest(s).name = nm
  BY <1>10 DEF Requests
<1> QED
  BY <1>11 DEF nm

\* One request per socket.
LEMMA MessagesOnce ==
    ASSUME messageNum \in [Team -> Nat]
    PROVE  LET q == [i \in 1 .. SocketNum |-> MessageRequest(i - 1)]
           IN  q \in Seq(Requests({"messages"} \X Int)) /\ Once(q)
<1> DEFINE q == [i \in 1 .. SocketNum |-> MessageRequest(i - 1)]
<1>1. SocketNum \in Nat
  BY ThreadsAssumption
<1>2. \A i \in 1 .. SocketNum : /\ q[i] \in Requests({"messages"} \X Int)
                                /\ q[i].name = <<"messages", i - 1>>
  <2>1. ASSUME NEW i \in 1 .. SocketNum PROVE i - 1 \in Sockets
    BY <1>1 DEF Sockets
  <2> QED
    BY <2>1, MessageRequestType
<1>3. q \in [1 .. SocketNum -> Requests({"messages"} \X Int)]
  BY <1>2
<1> HIDE DEF q
<1>4. q \in Seq(Requests({"messages"} \X Int)) /\ DOMAIN q = 1 .. SocketNum
  BY <1>1, <1>3, FunctionIsSeq
<1>5. ASSUME NEW i \in 1 .. SocketNum, NEW j \in 1 .. SocketNum, <<"messages", i - 1>> = <<"messages", j - 1>>
      PROVE  i = j
  BY <1>1, <1>5
<1>6. Once(q)
  BY <1>2, <1>4, <1>5 DEF Once
<1> QED
  BY <1>4, <1>6 DEF q
-----------------------------------------------------------------------------
(* The sizes of the arrays.                                                *)

\* A quotient rounded up is positive.
LEMMA CeilDivPositive ==
    ASSUME NEW a \in Nat \ {0}, NEW b \in Nat \ {0}
    PROVE  CeilDiv(a, b) \in Nat \ {0}
<1> DEFINE n == a + b - 1
           q == n \div b
<1>1. n \in Nat /\ n >= b
  OBVIOUS
<1>2. q \in Nat /\ n % b \in 0 .. b - 1 /\ n = b * q + (n % b)
  BY <1>1, DivMod
<1> HIDE DEF q, n
<1>3. q # 0
  BY <1>1, <1>2
<1> QED
  BY <1>2, <1>3 DEF CeilDiv, n, q

\* The quota has room for a walker, and at least one walks in an epoch.
LEMMA MaxEpochType == ASSUME isNode2vec \in BOOLEAN PROVE MaxEpoch \in Nat \ {0}
<1> DEFINE a == MemQuota - Estimated
           b == PerWalkerCost
           fit == a \div b
<1>1. b \in Nat \ {0} /\ a \in Nat /\ a >= b
  BY SolverMemoryAssumption, EpochsAssumption DEF PerWalkerCost, SizeOfId, Estimated
<1>2. fit \in Nat /\ a % b \in 0 .. b - 1 /\ a = b * fit + (a % b)
  BY <1>1, DivMod
<1> HIDE DEF a, b, fit
<1>3. fit \in Nat \ {0}
  BY <1>1, <1>2
<1>4. Least(fit, WalkerNum) \in Nat \ {0}
  BY <1>3, EpochsAssumption DEF Least
<1>5. EpochNum(fit) \in Nat \ {0}
  BY <1>4, CeilDivPositive, EpochsAssumption DEF EpochNum
<1>6. CeilDiv(WalkerNum, EpochNum(fit)) \in Nat \ {0}
  BY <1>5, CeilDivPositive, EpochsAssumption
<1>7. MaxEpochWalkers(fit) \in Nat \ {0}
  BY <1>6, EpochsAssumption DEF MaxEpochWalkers, Least
<1> QED
  BY <1>7 DEF MaxEpoch, fit, a, b

\* The arrays' sizes; they stay the same, since is_node2vec does.
LEMMA ArraySizes ==
    ASSUME isNode2vec \in BOOLEAN, isNode2vec' = isNode2vec
    PROVE  /\ ArraySize(SizeOfPid, 1) \in Nat /\ ArraySize(SizeOfPid, 1)' = ArraySize(SizeOfPid, 1)
           /\ ArraySize(SizeOfId, 1) \in Nat /\ ArraySize(SizeOfId, 1)' = ArraySize(SizeOfId, 1)
           /\ ArraySize(SizeOfId, WalkLen) \in Nat
           /\ ArraySize(SizeOfId, WalkLen)' = ArraySize(SizeOfId, WalkLen)
           /\ WalkLen * ArraySize(SizeOfId, 1) \in Nat
           /\ (WalkLen + 1) * ArraySize(SizeOfId, 1) = WalkLen * ArraySize(SizeOfId, 1) + ArraySize(SizeOfId, 1)
           /\ MaxEpoch' = MaxEpoch
<1>1. MaxEpoch \in Nat /\ WalkLen \in Nat
  BY MaxEpochType, EpochsAssumption
<1>2. MaxEpoch' = MaxEpoch
  BY DEF MaxEpoch, Estimated
<1>3. SizeOfId \in Nat /\ SizeOfPid \in Nat
  BY DEF SizeOfId, SizeOfPid
<1>4. ASSUME NEW x \in Nat, NEW y \in Nat
      PROVE  ArraySize(x, y) \in Nat /\ ArraySize(x, y)' = ArraySize(x, y)
  <2>1. ArraySize(x, y) = x * y * MaxEpoch /\ ArraySize(x, y)' = x * y * MaxEpoch
    BY <1>2 DEF ArraySize
  <2>2. x * y * MaxEpoch \in Nat
    BY <1>1
  <2> QED
    BY <2>1, <2>2
<1>5. ArraySize(SizeOfPid, 1) \in Nat /\ ArraySize(SizeOfPid, 1)' = ArraySize(SizeOfPid, 1)
  BY <1>3, <1>4
<1>6. ArraySize(SizeOfId, 1) \in Nat /\ ArraySize(SizeOfId, 1)' = ArraySize(SizeOfId, 1)
  BY <1>3, <1>4
<1>7. /\ ArraySize(SizeOfId, WalkLen) \in Nat
      /\ ArraySize(SizeOfId, WalkLen)' = ArraySize(SizeOfId, WalkLen)
  BY <1>1, <1>3, <1>4
<1> DEFINE B == ArraySize(SizeOfId, 1)
<1>8. WalkLen * B \in Nat /\ (WalkLen + 1) * B = WalkLen * B + B
  <2>1. B \in Nat
    BY <1>6
  <2> HIDE DEF B
  <2> QED
    BY <1>1, <2>1, Z3
<1> QED
  BY <1>2, <1>5, <1>6, <1>7, <1>8, Zenon
-----------------------------------------------------------------------------
(* The initial state, and the stages.                                      *)

\* What was taken of a memory is nothing or all of it, so it fits.
LEMMA TakenFits ==
    ASSUME MemoriesFilled
    PROVE  \A m \in DOMAIN memories : memories[m].taken \in 0 .. memories[m].size
<1> SUFFICES ASSUME NEW m \in DOMAIN memories PROVE memories[m].taken \in 0 .. memories[m].size
  OBVIOUS
<1>1. memories[m].size \in Nat /\ memories[m].taken \in Nat
  BY DEF MemoriesFilled
<1>2. CASE \A t \in Team : Busy(t) => Request(t).name # m
  BY <1>1, <1>2 DEF MemoriesFilled
<1>3. CASE \E t \in Team : Busy(t) /\ Request(t).name = m
  <2>1. PICK t \in Team : Busy(t) /\ Request(t).name = m
    BY <1>3
  <2>2. memories[m] = [size |-> Counter(0, Request(t).counted), taken |-> 0]
    BY <2>1 DEF MemoriesFilled
  <2>3. memories[m].taken = 0
    BY <2>2
  <2> QED
    BY <1>1, <2>3
<1> QED
  BY <1>2, <1>3

LEMMA MemoryInitInv == MemoryInit => MemoryIInv
<1> SUFFICES ASSUME MemoryInit PROVE MemoryIInv
  OBVIOUS
<1> USE DEF MemoryInit
<1>1. DOMAIN memories = {} /\ \A t \in Team : DOMAIN todo[t] = {}
  OBVIOUS
<1>2. \A p \in Pools : pool[p] = << >> /\ DOMAIN pool[p] = {}
  OBVIOUS
<1>3. InPools = {}
  BY <1>2 DEF InPools
<1>4. MaxEpoch \in Nat
  BY MaxEpochType
<1>5. WalkerNum \in Nat /\ ThreadNum \in Nat
  BY EpochsAssumption, ThreadsAssumption
<1>6. MemoryTypeOK
  BY <1>1, <1>4, <1>5 DEF MemoryTypeOK, Pools
<1>7. RequestsOnce
  <2>1. todo \in [Team -> Seq(Requests(Tags(stage) \X Int))]
    <3>1. << >> \in Seq(Requests(Tags(stage) \X Int))
      BY EmptySeq, Zenon
    <3> QED
      BY <3>1
  <2> QED
    BY <1>1, <2>1 DEF RequestsOnce, AllMade, Busy
<1>8. MemoriesFilled
  BY <1>1 DEF MemoriesFilled, Busy
<1>9. PushedOnce
  <2>1. pool \in [Pools -> Seq(AllNames)]
    <3>1. << >> \in Seq(AllNames)
      BY EmptySeq, Zenon
    <3> QED
      BY <3>1
  <2>2. \A t \in Team : at[t] = "request" /\ lock # t
    BY <1>5 DEF None, Team
  <2>3. {t \in Team : Loose(t)} = {}
    BY <2>2 DEF Loose
  <2> QED
    BY <1>1, <1>2, <1>3, <2>1, <2>2, <2>3 DEF PushedOnce, Loose
<1>10. MapsAddUp
  BY DEF MapsAddUp
<1> QED
  BY <1>6, <1>7, <1>8, <1>9, <1>10 DEF MemoryIInv

\* When all requests are made no thread is in the middle of one.
LEMMA NobodyBusy == ASSUME RequestsOnce, AllMade PROVE \A t \in Team : at[t] = "request"
  BY DEF RequestsOnce, AllMade, Busy

(***************************************************************************)
(* A stage begins: its requests are new, since nothing was made before for *)
(* what they are for.                                                      *)
(***************************************************************************)
LEMMA StageBegins ==
    ASSUME RequestsOnce, MemoriesFilled, PushedOnce, AllMade,
           stage' \in Pools,
           todo' \in [Team -> Seq(Requests(Tags(stage') \X Int))],
           \A t, u \in Team : \A i \in DOMAIN todo'[t], j \in DOMAIN todo'[u] :
              todo'[t][i].name = todo'[u][j].name => t = u /\ i = j,
           Tags(stage') \cap MadeTags(stage) = {}, MadeTags(stage) \subseteq MadeTags(stage'),
           UNCHANGED <<at, memories, pool, lock>>
    PROVE  RequestsOnce' /\ MemoriesFilled' /\ PushedOnce'
<1>1. \A t \in Team : at[t] = "request" /\ at'[t] = "request"
  BY NobodyBusy
<1>2. RequestsOnce'
  BY <1>1 DEF RequestsOnce, Busy
<1>3. MemoriesFilled'
  <2>1. \A m \in DOMAIN memories' : m[1] \in MadeTags(stage')
    BY DEF MemoriesFilled
  <2>2. ASSUME NEW t \in Team, NEW i \in DOMAIN todo'[t], todo'[t][i].name \in DOMAIN memories PROVE FALSE
    <3>1. todo'[t] \in Seq(Requests(Tags(stage') \X Int))
      OBVIOUS
    <3>2. todo'[t][i] \in Requests(Tags(stage') \X Int)
      <4> HIDE DEF Requests
      <4> QED
        BY <2>2, <3>1
    <3>3. todo'[t][i].name[1] \in Tags(stage')
      BY <3>2 DEF Requests
    <3>4. todo'[t][i].name[1] \in MadeTags(stage)
      BY <2>2 DEF MemoriesFilled
    <3> QED
      BY <3>3, <3>4
  <2>3. \A m \in DOMAIN memories : memories[m] \in [size : Nat, taken : Nat] /\ memories[m].taken = memories[m].size
    BY <1>1 DEF MemoriesFilled, Busy
  <2> QED
    BY <1>1, <2>1, <2>2, <2>3 DEF MemoriesFilled, Busy
<1>4. PushedOnce'
  <2>1. {t \in Team : Loose(t)} = {} /\ {t \in Team : Loose(t)'} = {}
    BY <1>1 DEF Loose
  <2>2. InPools' = InPools
    BY DEF InPools
  <2>3. DOMAIN memories = InPools
    BY <2>1 DEF PushedOnce
  <2>4. DOMAIN memories' = InPools' \cup {Request(t).name' : t \in {u \in Team : Loose(u)'}}
    BY <2>1, <2>2, <2>3
  <2> QED
    BY <1>1, <2>1, <2>2, <2>3 DEF PushedOnce, Loose
<1> QED
  BY <1>2, <1>3, <1>4

\* A later part of the solver's life begins or goes on: nothing is requested from the pools.
LEMMA NothingRequested ==
    ASSUME RequestsOnce, MemoriesFilled, PushedOnce, AllMade,
           stage \in {"messages", "ready", "walking", "walked"},
           stage' \in {"ready", "walking", "walked"},
           UNCHANGED poolVars
    PROVE  RequestsOnce' /\ MemoriesFilled' /\ PushedOnce'
<1> USE DEF poolVars
<1>1. \A t \in Team : at[t] = "request" /\ at'[t] = "request" /\ todo[t] = << >>
  BY NobodyBusy DEF AllMade
<1>2. Tags(stage') = Tags(stage) /\ MadeTags(stage') = MadeTags(stage)
  BY DEF Tags, MadeTags
<1>3. RequestsOnce'
  <2>1. AllMade'
    BY DEF AllMade
  <2> QED
    BY <1>1, <1>2, <2>1 DEF RequestsOnce, Busy
<1>4. MemoriesFilled'
  BY <1>1, <1>2 DEF MemoriesFilled, Busy, Request
<1>5. PushedOnce'
  BY <1>1 DEF PushedOnce, Loose, InPools, Request
<1> QED
  BY <1>3, <1>4, <1>5

\* The master makes the requests of a stage.
LEMMA MasterBegins ==
    ASSUME RequestsOnce, AllMade, NEW S, NEW requests \in Seq(Requests(S)), Once(requests),
           todo' = [todo EXCEPT ![0] = requests]
    PROVE  /\ todo' \in [Team -> Seq(Requests(S))]
           /\ \A t, u \in Team : \A i \in DOMAIN todo'[t], j \in DOMAIN todo'[u] :
                 todo'[t][i].name = todo'[u][j].name => t = u /\ i = j
<1>1. DOMAIN todo = Team /\ \A t \in Team : todo[t] = << >>
  BY DEF RequestsOnce, AllMade
<1>2. \A t \in Team : todo'[t] = IF t = 0 THEN requests ELSE << >>
  BY <1>1
<1>3. << >> \in Seq(Requests(S)) /\ DOMAIN << >> = {}
  BY EmptySeq
<1>4. todo' = [t \in Team |-> todo'[t]]
  BY <1>1
<1>5. todo' \in [Team -> Seq(Requests(S))]
  <2>1. \A t \in Team : todo'[t] \in Seq(Requests(S))
    BY <1>2, <1>3
  <2> QED
    BY <1>4, <2>1
<1>6. ASSUME NEW t \in Team, NEW u \in Team, NEW i \in DOMAIN todo'[t], NEW j \in DOMAIN todo'[u],
             todo'[t][i].name = todo'[u][j].name
      PROVE  t = u /\ i = j
  <2>1. t = 0 /\ u = 0 /\ todo'[t] = requests /\ todo'[u] = requests
    BY <1>2, <1>3
  <2> QED
    BY <1>6, <2>1 DEF Once
<1> QED
  BY <1>5, <1>6
-----------------------------------------------------------------------------
(* prepare                                                                 *)

\* Before the first mapping, a stage that maps nothing.
LEMMA NothingMapped ==
    ASSUME MemoryTypeOK, MapsAddUp,
           stage \in {"new", "rands", "samplers"}, stage' \in {"rands", "samplers", "walkers"},
           messageNum' \in [Team -> 0 .. MaxEpoch],
           UNCHANGED <<isNode2vec, at, memories, lock, seen, mapped, startNum, rest>>
    PROVE  MemoryTypeOK' /\ MapsAddUp'
<1>1. MaxEpoch' = MaxEpoch
  BY ArraySizes DEF MemoryTypeOK
<1>2. MemoryTypeOK'
  BY <1>1 DEF MemoryTypeOK, Pools
<1>3. startNum = 0 /\ rest = WalkerNum /\ mapped = 0
  BY DEF MapsAddUp
<1>4. MapsAddUp'
  BY <1>3 DEF MapsAddUp
<1> QED
  BY <1>2, <1>4

LEMMA PrepareRandsInv == ASSUME MemoryIInv, PrepareRands PROVE MemoryIInv'
<1> USE DEF MemoryIInv
<1> DEFINE requests == PerThread("rand", ObjectSize.rand)
<1>1. /\ stage = "new" /\ AllMade /\ stage' = "rands" /\ todo' = [todo EXCEPT ![0] = requests]
      /\ UNCHANGED <<isNode2vec, messageNum, at, memories, pool, lock, seen, mapped, startNum, rest>>
  BY DEF PrepareRands, MasterRequests
<1>2. requests \in Seq(Requests({"rand"} \X Int)) /\ Once(requests)
  <2>1. ObjectSize.rand \in Nat
    BY SolverMemoryAssumption
  <2> QED
    BY <2>1, PerThreadOnce
<1>3. /\ stage' \in Pools /\ Tags(stage') = {"rand"}
      /\ Tags(stage') \cap MadeTags(stage) = {} /\ MadeTags(stage) \subseteq MadeTags(stage')
  BY <1>1 DEF Tags, MadeTags, Pools
<1> HIDE DEF requests
<1>4. /\ todo' \in [Team -> Seq(Requests({"rand"} \X Int))]
      /\ \A t, u \in Team : \A i \in DOMAIN todo'[t], j \in DOMAIN todo'[u] :
            todo'[t][i].name = todo'[u][j].name => t = u /\ i = j
  BY <1>1, <1>2, MasterBegins
<1>5. RequestsOnce' /\ MemoriesFilled' /\ PushedOnce'
  BY <1>1, <1>3, <1>4, StageBegins
<1>6. MemoryTypeOK' /\ MapsAddUp'
  BY <1>1, NothingMapped DEF MemoryTypeOK
<1> QED
  BY <1>5, <1>6

LEMMA InitSamplersInv == ASSUME MemoryIInv, InitSamplers PROVE MemoryIInv'
<1> USE DEF MemoryIInv
<1> DEFINE SampTodo(owner, t) ==
              FlattenSeq([i \in 1 .. PartitionNum |->
                             IF owner[i - 1] = t THEN SamplerRequests(i - 1) ELSE << >>])
           Names(owner, t) == SamplerNames(owner, t, PartitionNum)
<1>1. /\ stage = "rands" /\ AllMade /\ stage' = "samplers"
      /\ UNCHANGED <<isNode2vec, messageNum, at, memories, pool, lock, seen, mapped, startNum, rest>>
  BY DEF InitSamplers
<1>2. PICK owner \in [Partitions -> Team] : todo' = [t \in Team |-> SampTodo(owner, t)]
  BY DEF InitSamplers
<1>3. /\ stage' \in Pools /\ Tags(stage') = {"sampler", "buffer"}
      /\ Tags(stage') \cap MadeTags(stage) = {} /\ MadeTags(stage) \subseteq MadeTags(stage')
  BY <1>1 DEF Tags, MadeTags, Pools
<1>4. ASSUME NEW t \in Team
      PROVE  todo'[t] \in Seq(Requests(Names(owner, t))) /\ Once(todo'[t])
  <2>1. todo'[t] = SampTodo(owner, t)
    BY <1>2
  <2> QED
    BY <2>1, SamplerTodo
<1> HIDE DEF SampTodo
<1>5. todo' \in [Team -> Seq(Requests(Tags(stage') \X Int))]
  <2>1. ASSUME NEW t \in Team PROVE todo'[t] \in Seq(Requests(Tags(stage') \X Int))
    <3>1. Names(owner, t) \subseteq Tags(stage') \X Int
      BY <1>3, SolverMemoryAssumption DEF SamplerNames
    <3> DEFINE R == Requests(Names(owner, t))
               U == Requests(Tags(stage') \X Int)
    <3>2. R \subseteq U
      BY <3>1 DEF Requests
    <3>3. todo'[t] \in Seq(R)
      BY <1>4
    <3> HIDE DEF R, U
    <3>4. todo'[t] \in Seq(U)
      BY <3>2, <3>3, SeqMonotonic
    <3> QED
      BY <3>4 DEF U
  <2> QED
    BY <1>2, <2>1
<1>6. ASSUME NEW t \in Team, NEW u \in Team, NEW i \in DOMAIN todo'[t], NEW j \in DOMAIN todo'[u],
             todo'[t][i].name = todo'[u][j].name
      PROVE  t = u /\ i = j
  <2>1. ASSUME NEW v \in Team, NEW k \in DOMAIN todo'[v] PROVE todo'[v][k].name \in Names(owner, v)
    <3>1. todo'[v] \in Seq(Requests(Names(owner, v)))
      BY <1>4
    <3>2. todo'[v][k] \in Requests(Names(owner, v))
      <4> HIDE DEF Names, Requests
      <4> QED
        BY <3>1
    <3> QED
      BY <3>2 DEF Requests
  <2>2. todo'[t][i].name \in Names(owner, t) /\ todo'[t][i].name \in Names(owner, u)
    BY <1>6, <2>1
  <2>3. t = u
    BY <2>2 DEF SamplerNames
  <2> QED
    BY <1>4, <1>6, <2>3 DEF Once
<1>7. RequestsOnce' /\ MemoriesFilled' /\ PushedOnce'
  BY <1>1, <1>3, <1>5, <1>6, StageBegins
<1>8. MemoryTypeOK' /\ MapsAddUp'
  BY <1>1, NothingMapped DEF MemoryTypeOK
<1> QED
  BY <1>7, <1>8

LEMMA InitWalkersInv == ASSUME MemoryIInv, InitWalkers PROVE MemoryIInv'
<1> USE DEF MemoryIInv
<1> DEFINE requests == PerThread("state", ObjectSize.state)
<1>1. /\ stage = "samplers" /\ AllMade /\ stage' = "walkers" /\ todo' = [todo EXCEPT ![0] = requests]
      /\ messageNum' \in [Team -> 0 .. MaxEpoch]
      /\ UNCHANGED <<isNode2vec, at, memories, pool, lock, seen, mapped, startNum, rest>>
  BY DEF InitWalkers, MasterRequests
<1>2. requests \in Seq(Requests({"state"} \X Int)) /\ Once(requests)
  <2>1. ObjectSize.state \in Nat
    BY SolverMemoryAssumption
  <2> QED
    BY <2>1, PerThreadOnce
<1>3. /\ stage' \in Pools /\ Tags(stage') = {"state"}
      /\ Tags(stage') \cap MadeTags(stage) = {} /\ MadeTags(stage) \subseteq MadeTags(stage')
  BY <1>1 DEF Tags, MadeTags, Pools
<1> HIDE DEF requests
<1>4. /\ todo' \in [Team -> Seq(Requests({"state"} \X Int))]
      /\ \A t, u \in Team : \A i \in DOMAIN todo'[t], j \in DOMAIN todo'[u] :
            todo'[t][i].name = todo'[u][j].name => t = u /\ i = j
  BY <1>1, <1>2, MasterBegins
<1>5. RequestsOnce' /\ MemoriesFilled' /\ PushedOnce'
  BY <1>1, <1>3, <1>4, StageBegins
<1>6. MemoryTypeOK' /\ MapsAddUp'
  BY <1>1, NothingMapped
<1> QED
  BY <1>5, <1>6

LEMMA InitMessagesInv == ASSUME MemoryIInv, InitMessages PROVE MemoryIInv'
<1> USE DEF MemoryIInv
<1> DEFINE requests == [i \in 1 .. SocketNum |-> MessageRequest(i - 1)]
           P == ArraySize(SizeOfPid, 1)
<1>1. /\ stage = "walkers" /\ AllMade /\ stage' = "messages" /\ todo' = [todo EXCEPT ![0] = requests]
      /\ mapped' = mapped + P
      /\ UNCHANGED <<isNode2vec, messageNum, at, memories, pool, lock, seen, startNum, rest>>
  BY DEF InitMessages, MasterRequests
<1>2. requests \in Seq(Requests({"messages"} \X Int)) /\ Once(requests)
  <2>1. MaxEpoch \in Nat
    BY MaxEpochType DEF MemoryTypeOK
  <2>2. messageNum \in [Team -> Nat]
    BY <2>1 DEF MemoryTypeOK
  <2> QED
    BY <2>2, MessagesOnce
<1>3. /\ stage' \in Pools /\ Tags(stage') = {"messages"}
      /\ Tags(stage') \cap MadeTags(stage) = {} /\ MadeTags(stage) \subseteq MadeTags(stage')
  BY <1>1 DEF Tags, MadeTags, Pools
<1> HIDE DEF requests
<1>4. /\ todo' \in [Team -> Seq(Requests({"messages"} \X Int))]
      /\ \A t, u \in Team : \A i \in DOMAIN todo'[t], j \in DOMAIN todo'[u] :
            todo'[t][i].name = todo'[u][j].name => t = u /\ i = j
  BY <1>1, <1>2, MasterBegins
<1>5. RequestsOnce' /\ MemoriesFilled' /\ PushedOnce'
  BY <1>1, <1>3, <1>4, StageBegins
<1>6. P \in Nat /\ P' = P /\ MaxEpoch' = MaxEpoch
  BY <1>1, ArraySizes DEF MemoryTypeOK
<1> HIDE DEF P
<1>7. startNum = 0 /\ rest = WalkerNum /\ mapped = 0
  BY <1>1 DEF MapsAddUp
<1>8. MemoryTypeOK'
  BY <1>1, <1>6, <1>7 DEF MemoryTypeOK, Pools
<1>9. MapsAddUp'
  BY <1>1, <1>6, <1>7 DEF MapsAddUp, P
<1> QED
  BY <1>5, <1>8, <1>9

LEMMA InitWalksInv == ASSUME MemoryIInv, InitWalks PROVE MemoryIInv'
<1> USE DEF MemoryIInv
<1> DEFINE P == ArraySize(SizeOfPid, 1)
           B == ArraySize(SizeOfId, 1)
           W == WalkLen * B
<1>1. /\ stage = "messages" /\ AllMade /\ stage' = "ready" /\ mapped' = mapped + W
      /\ UNCHANGED <<isNode2vec, messageNum, poolVars, startNum, rest>>
  BY DEF InitWalks
<1>2. RequestsOnce' /\ MemoriesFilled' /\ PushedOnce'
  BY <1>1, NothingRequested
<1>3. P \in Nat /\ P' = P /\ W \in Nat /\ W' = W /\ B' = B /\ MaxEpoch' = MaxEpoch
  BY <1>1, ArraySizes DEF MemoryTypeOK
<1>4. mapped = P /\ startNum = 0 /\ rest = WalkerNum
  BY <1>1, <1>3 DEF MapsAddUp
<1>5. mapped' = P + W /\ mapped' \in Nat
  <2> HIDE DEF P, W
  <2> QED
    BY <1>1, <1>3, <1>4
<1>6. MemoryTypeOK'
  BY <1>1, <1>3, <1>5 DEF MemoryTypeOK, poolVars
<1>7. MapsAddUp'
  BY <1>1, <1>3, <1>4, <1>5 DEF MapsAddUp
<1> QED
  BY <1>2, <1>6, <1>7
-----------------------------------------------------------------------------
(* The driver, and the destructors                                         *)

\* From "ready" on all requests are made.
LEMMA RequestsAreMade == ASSUME RequestsOnce, stage \in {"ready", "walking", "walked"} PROVE AllMade
  BY DEF RequestsOnce, Pools

LEMMA AllocOutputInv == ASSUME MemoryIInv, AllocOutput PROVE MemoryIInv'
<1> USE DEF MemoryIInv
<1> DEFINE P == ArraySize(SizeOfPid, 1)
           B == ArraySize(SizeOfId, 1)
           W == WalkLen * B
           O == ArraySize(SizeOfId, WalkLen)
<1>1. /\ stage = "ready" /\ stage' = "walking" /\ mapped' = mapped + O
      /\ UNCHANGED <<isNode2vec, messageNum, poolVars, startNum, rest>>
  BY DEF AllocOutput
<1>2. RequestsOnce' /\ MemoriesFilled' /\ PushedOnce'
  BY <1>1, RequestsAreMade, NothingRequested
<1>3. P \in Nat /\ P' = P /\ W \in Nat /\ W' = W /\ O \in Nat /\ O' = O /\ B' = B /\ MaxEpoch' = MaxEpoch
  BY <1>1, ArraySizes DEF MemoryTypeOK
<1>4. mapped = P + W /\ startNum = 0 /\ rest = WalkerNum
  <2>1. startNum = 0 /\ rest = WalkerNum /\ mapped = P + W + 0 + 0
    BY <1>1 DEF MapsAddUp
  <2> HIDE DEF P, W
  <2> QED
    BY <1>3, <2>1
<1>5. mapped' = P + W + O /\ mapped' \in Nat
  <2> HIDE DEF P, W, O
  <2> QED
    BY <1>1, <1>3, <1>4
<1>6. MemoryTypeOK'
  BY <1>1, <1>3, <1>5 DEF MemoryTypeOK, poolVars
<1>7. MapsAddUp'
  <2>1. startNum' = 0 /\ rest' = WalkerNum /\ stage' = "walking" /\ mapped' = P' + W' + O' + 0
    <3> HIDE DEF P, W, O
    <3> QED
      BY <1>1, <1>3, <1>4, <1>5
  <2> QED
    BY <2>1 DEF MapsAddUp
<1> QED
  BY <1>2, <1>6, <1>7

\* The arrays of start vertices are all of one size: the largest epoch's.
LEMMA WalkEpochInv == ASSUME MemoryIInv, WalkEpoch PROVE MemoryIInv'
<1> USE DEF MemoryIInv
<1> DEFINE P == ArraySize(SizeOfPid, 1)
           B == ArraySize(SizeOfId, 1)
           W == WalkLen * B
           O == ArraySize(SizeOfId, WalkLen)
           epoch == Least(MaxEpoch, rest)
           unmapped == IF startNum = 0 THEN 0 ELSE B
<1>1. /\ stage = "walking" /\ rest # 0 /\ stage' = stage
      /\ mapped' = IF startNum < epoch THEN mapped - unmapped + B ELSE mapped
      /\ startNum' = epoch /\ rest' = rest - epoch
      /\ UNCHANGED <<isNode2vec, messageNum, poolVars>>
  BY DEF WalkEpoch
<1>2. RequestsOnce' /\ MemoriesFilled' /\ PushedOnce'
  BY <1>1, RequestsAreMade, NothingRequested
<1>3. /\ P \in Nat /\ P' = P /\ W \in Nat /\ W' = W /\ O \in Nat /\ O' = O
      /\ B \in Nat /\ B' = B /\ MaxEpoch' = MaxEpoch
  BY <1>1, ArraySizes DEF MemoryTypeOK
<1>4. epoch \in 1 .. MaxEpoch /\ epoch <= rest /\ rest - epoch \in 0 .. WalkerNum
  <2>1. MaxEpoch \in Nat \ {0} /\ WalkerNum \in Nat /\ rest \in 0 .. WalkerNum
    BY MaxEpochType, EpochsAssumption DEF MemoryTypeOK
  <2> QED
    BY <1>1, <2>1 DEF Least
<1>5. startNum \in 0 .. MaxEpoch /\ MaxEpoch \in Nat
  BY MaxEpochType DEF MemoryTypeOK
<1>6. mapped = P + W + O + unmapped
  <2>1. mapped = P + W + O + (IF startNum # 0 THEN B ELSE 0)
    BY <1>1 DEF MapsAddUp
  <2> QED
    BY <2>1
<1>7. startNum' # 0 /\ rest' # WalkerNum
  BY <1>1, <1>4, EpochsAssumption DEF MemoryTypeOK
<1>8. mapped' = P + W + O + B /\ mapped' \in Nat
  <2> HIDE DEF P, W, O, B, epoch
  <2>1. CASE startNum < epoch
    BY <1>1, <1>3, <1>6, <2>1
  <2>2. CASE ~(startNum < epoch)
    <3>1. startNum # 0
      BY <1>4, <1>5, <2>2
    <3> QED
      BY <1>1, <1>3, <1>6, <2>2, <3>1
  <2> QED
    BY <2>1, <2>2
<1>9. MemoryTypeOK'
  BY <1>1, <1>3, <1>4, <1>8 DEF MemoryTypeOK, poolVars
<1>10. MapsAddUp'
  <2>1. /\ startNum' # 0 /\ stage' = "walking"
        /\ mapped' = P' + W' + O' + B'
    <3> HIDE DEF P, W, O, B
    <3> QED
      BY <1>1, <1>3, <1>7, <1>8
  <2> QED
    BY <2>1 DEF MapsAddUp
<1> QED
  BY <1>2, <1>9, <1>10

LEMMA DeallocOutputInv == ASSUME MemoryIInv, DeallocOutput PROVE MemoryIInv'
<1> USE DEF MemoryIInv
<1> DEFINE P == ArraySize(SizeOfPid, 1)
           B == ArraySize(SizeOfId, 1)
           W == WalkLen * B
           O == ArraySize(SizeOfId, WalkLen)
           S == IF startNum # 0 THEN B ELSE 0
<1>1. /\ stage = "walking" /\ rest = 0 /\ stage' = "walked" /\ mapped' = mapped - O
      /\ UNCHANGED <<isNode2vec, messageNum, poolVars, startNum, rest>>
  BY DEF DeallocOutput
<1>2. RequestsOnce' /\ MemoriesFilled' /\ PushedOnce'
  BY <1>1, RequestsAreMade, NothingRequested
<1>3. /\ P \in Nat /\ P' = P /\ W \in Nat /\ W' = W /\ O \in Nat
      /\ B \in Nat /\ B' = B /\ MaxEpoch' = MaxEpoch
  BY <1>1, ArraySizes DEF MemoryTypeOK
<1>4. mapped = P + W + O + S
  BY <1>1 DEF MapsAddUp
<1>5. S \in Nat /\ S' = S
  BY <1>1, <1>3
<1>6. mapped' = P + W + S /\ mapped' \in Nat
  <2> HIDE DEF P, W, O, S
  <2> QED
    BY <1>1, <1>3, <1>4, <1>5
<1>7. MemoryTypeOK'
  BY <1>1, <1>3, <1>6 DEF MemoryTypeOK, poolVars
<1>8. MapsAddUp'
  <2>1. stage' = "walked" /\ rest' = 0 /\ mapped' = P' + W' + 0 + S'
    <3> HIDE DEF P, W, S
    <3> QED
      BY <1>1, <1>3, <1>5, <1>6
  <2>2. rest' # WalkerNum => startNum' # 0
    BY <1>1 DEF MapsAddUp
  <2> QED
    BY <2>1, <2>2 DEF MapsAddUp
<1> QED
  BY <1>2, <1>7, <1>8

\* What is unmapped is what was mapped, and the pools have every memory.
LEMMA DestroyInv == ASSUME MemoryIInv, Destroy PROVE MemoryIInv'
<1> USE DEF MemoryIInv
<1> DEFINE P == ArraySize(SizeOfPid, 1)
           B == ArraySize(SizeOfId, 1)
           W == WalkLen * B
           S == IF startNum # 0 THEN B ELSE 0
<1>1. /\ stage = "walked" /\ stage' = "destroyed"
      /\ memories' = [m \in DOMAIN memories \ InPools |-> memories[m]]
      /\ pool' = [p \in Pools |-> << >>]
      /\ mapped' = mapped - W - (IF startNum = 0 THEN 0 ELSE B) - P
      /\ UNCHANGED <<isNode2vec, messageNum, todo, at, lock, seen, startNum, rest>>
  BY DEF Destroy
<1>2. AllMade /\ AllMade'
  BY <1>1, RequestsAreMade DEF AllMade
<1>3. \A t \in Team : at[t] = "request" /\ todo[t] = << >>
  BY <1>2, NobodyBusy DEF AllMade
<1>4. {t \in Team : Loose(t)} = {}
  BY <1>3 DEF Loose
<1>5. DOMAIN memories = InPools
  BY <1>4 DEF PushedOnce
<1>6. memories' = << >> /\ DOMAIN memories' = {}
  <2>1. DOMAIN memories \ InPools = {}
    BY <1>5
  <2>2. memories' = [m \in {} |-> memories[m]]
    BY <1>1, <2>1
  <2> QED
    BY <2>2
<1>7. RequestsOnce'
  <2>1. todo' \in [Team -> Seq(Requests(Tags(stage') \X Int))]
    <3>1. << >> \in Seq(Requests(Tags(stage') \X Int))
      BY EmptySeq, Zenon
    <3>2. DOMAIN todo' = Team /\ todo' = [t \in Team |-> todo'[t]]
      BY <1>1 DEF RequestsOnce
    <3> QED
      BY <1>1, <1>3, <3>1, <3>2
  <2> QED
    BY <1>1, <1>2, <1>3, <2>1 DEF RequestsOnce, Busy
<1>8. MemoriesFilled'
  BY <1>1, <1>3, <1>6 DEF MemoriesFilled, Busy
<1>9. PushedOnce'
  <2>1. pool' \in [Pools -> Seq(AllNames)] /\ \A p \in Pools : DOMAIN pool'[p] = {}
    <3>1. << >> \in Seq(AllNames)
      BY EmptySeq, Zenon
    <3> QED
      BY <1>1, <3>1
  <2>2. InPools' = {}
    BY <2>1 DEF InPools
  <2>3. {t \in Team : Loose(t)'} = {} /\ \A t \in Team : at'[t] = "request" /\ lock' # t
    BY <1>1, <1>3 DEF Loose, PushedOnce
  <2> QED
    BY <1>6, <2>1, <2>2, <2>3 DEF PushedOnce, Loose
<1>10. P \in Nat /\ W \in Nat /\ B \in Nat /\ MaxEpoch' = MaxEpoch
  BY <1>1, ArraySizes DEF MemoryTypeOK
<1>11. mapped = P + W + S /\ S \in Nat
  <2>1. mapped = P + W + 0 + S
    BY <1>1 DEF MapsAddUp
  <2>2. S \in Nat
    BY <1>10
  <2> HIDE DEF P, W, S
  <2> QED
    BY <1>10, <2>1, <2>2
<1>12. mapped' = 0
  <2>1. mapped' = mapped - W - S - P
    BY <1>1
  <2> HIDE DEF P, W, S
  <2> QED
    BY <1>10, <1>11, <2>1
<1>13. MemoryTypeOK'
  <2>1. \A m \in DOMAIN memories' : memories'[m].taken \in 0 .. memories'[m].size
    BY <1>6
  <2>2. mapped' \in Nat /\ stage' \in {"destroyed"}
    BY <1>1, <1>12
  <2>3. UNCHANGED <<isNode2vec, messageNum, at, lock, seen, startNum, rest>>
    BY <1>1
  <2> QED
    BY <1>10, <2>1, <2>2, <2>3 DEF MemoryTypeOK
<1>14. MapsAddUp'
  <2>1. rest' = 0 /\ (rest' # WalkerNum => startNum' # 0) /\ stage' = "destroyed"
    BY <1>1 DEF MapsAddUp
  <2> QED
    BY <1>6, <1>12, <2>1 DEF MapsAddUp
<1> QED
  BY <1>7, <1>8, <1>9, <1>13, <1>14
-----------------------------------------------------------------------------
(* A thread in get_memory and its caller                                   *)

\* What holds of the request that a thread is at.
LEMMA RequestFacts ==
    ASSUME RequestsOnce, NEW t \in Team, todo[t] # << >>
    PROVE  /\ stage \in Pools /\ Tags(stage) \subseteq MadeTags(stage)
           /\ 1 \in DOMAIN todo[t] /\ Request(t) = todo[t][1]
           /\ Request(t) \in Requests(Tags(stage) \X Int)
           /\ Request(t).name \in AllNames /\ Request(t).name[1] \in Tags(stage)
           /\ Request(t).counted \in Seq(Nat) /\ Request(t).taken = Request(t).counted
           /\ \A u \in Team : \A i \in DOMAIN todo[u] :
                 todo[u][i].name = Request(t).name => u = t /\ i = 1
<1>1. stage \in Pools
  BY DEF RequestsOnce, AllMade
<1>2. /\ Tags(stage) \subseteq MadeTags(stage)
      /\ Tags(stage) \subseteq {"rand", "sampler", "buffer", "state", "messages"}
  BY <1>1 DEF Tags, MadeTags, Pools
<1>3. todo[t] \in Seq(Requests(Tags(stage) \X Int))
  BY DEF RequestsOnce
<1>4. 1 \in DOMAIN todo[t] /\ Request(t) = todo[t][1] /\ Request(t) \in Requests(Tags(stage) \X Int)
  <2> HIDE DEF Requests
  <2> QED
    BY <1>3 DEF Request
<1>5. /\ Request(t).name \in Tags(stage) \X Int
      /\ Request(t).counted \in Seq(Nat) /\ Request(t).taken = Request(t).counted
  BY <1>4 DEF Requests
<1>6. Request(t).name \in AllNames /\ Request(t).name[1] \in Tags(stage)
  BY <1>2, <1>5 DEF AllNames
<1>7. \A u \in Team : \A i \in DOMAIN todo[u] : todo[u][i].name = Request(t).name => u = t /\ i = 1
  BY <1>4 DEF RequestsOnce
<1> QED
  BY <1>1, <1>2, <1>4, <1>5, <1>6, <1>7

\* Threads do not map.
LEMMA MapsKept ==
    ASSUME MemoryTypeOK, MapsAddUp, stage \in Pools, stage' = stage,
           UNCHANGED <<isNode2vec, mapped, startNum, rest>>
    PROVE  MapsAddUp' /\ MaxEpoch' = MaxEpoch
<1>1. /\ ArraySize(SizeOfPid, 1)' = ArraySize(SizeOfPid, 1) /\ ArraySize(SizeOfPid, 1) \in Nat
      /\ MaxEpoch' = MaxEpoch
      /\ ArraySize(SizeOfId, 1)' = ArraySize(SizeOfId, 1)
      /\ ArraySize(SizeOfId, WalkLen)' = ArraySize(SizeOfId, WalkLen)
  BY ArraySizes DEF MemoryTypeOK
<1>2. stage \notin {"ready", "walking", "walked", "destroyed"}
  BY DEF Pools
<1>3. startNum = 0 /\ rest = WalkerNum /\ mapped = (IF stage = "messages" THEN ArraySize(SizeOfPid, 1) ELSE 0) + 0
  <2>1. startNum = 0 /\ rest = WalkerNum
    BY <1>2 DEF MapsAddUp
  <2>2. mapped = (IF stage = "messages" THEN ArraySize(SizeOfPid, 1) ELSE 0) + 0 + 0 + 0
    BY <1>2, <2>1 DEF MapsAddUp
  <2> QED
    BY <1>1, <2>1, <2>2
<1>4. MapsAddUp'
  BY <1>1, <1>2, <1>3 DEF MapsAddUp
<1> QED
  BY <1>1, <1>4

\* A step that changes no request, and starts none that is not there.
LEMMA SameRequests ==
    ASSUME RequestsOnce, UNCHANGED <<stage, todo>>, \A t \in Team : Busy(t)' => todo[t] # << >>
    PROVE  RequestsOnce'
<1>1. todo' \in [Team -> Seq(Requests(Tags(stage') \X Int))]
  BY DEF RequestsOnce
<1>2. \A t, u \in Team : \A i \in DOMAIN todo'[t], j \in DOMAIN todo'[u] :
         todo'[t][i].name = todo'[u][j].name => t = u /\ i = j
  BY DEF RequestsOnce
<1>3. stage' \notin Pools => AllMade'
  BY DEF RequestsOnce, AllMade
<1> QED
  BY <1>1, <1>2, <1>3 DEF RequestsOnce

LEMMA NewMemoryInv == ASSUME MemoryIInv, NEW t \in Team, NewMemory(t) PROVE MemoryIInv'
<1> USE DEF MemoryIInv
<1> DEFINE nm == Request(t).name
<1>1. /\ todo[t] # << >> /\ at[t] = "request"
      /\ memories' = [m \in DOMAIN memories \cup {nm} |->
                        IF m = nm THEN [size |-> Counter(0, Request(t).counted), taken |-> 0]
                        ELSE memories[m]]
      /\ at' = [at EXCEPT ![t] = "lock"]
      /\ UNCHANGED <<isNode2vec, stage, messageNum, todo, pool, lock, seen, mapped, startNum, rest>>
  BY DEF NewMemory
<1>2. /\ stage \in Pools /\ nm[1] \in MadeTags(stage) /\ Request(t) = todo[t][1] /\ 1 \in DOMAIN todo[t]
      /\ Counter(0, Request(t).counted) \in Nat
      /\ \A u \in Team : \A i \in DOMAIN todo[u] : todo[u][i].name = nm => u = t /\ i = 1
  BY <1>1, RequestFacts, CounterType
<1>3. \A u \in Team : Busy(u) => /\ u # t /\ todo[u] # << >> /\ 1 \in DOMAIN todo[u]
                                 /\ Request(u) = todo[u][1] /\ Request(u).name # nm
  <2>1. \A u \in Team : Busy(u) => u # t /\ todo[u] # << >>
    BY <1>1 DEF Busy, RequestsOnce
  <2>2. \A u \in Team : Busy(u) => 1 \in DOMAIN todo[u] /\ Request(u) = todo[u][1]
    BY <2>1, RequestFacts
  <2> QED
    BY <1>2, <2>1, <2>2
<1>4. nm \notin DOMAIN memories
  BY <1>1, <1>2 DEF MemoriesFilled, Busy
<1>5. at' \in [Team -> {"request", "lock", "push", "take"}] /\ at'[t] = "lock" /\ \A u \in Team : u # t => at'[u] = at[u]
  BY <1>1 DEF MemoryTypeOK
<1>6. DOMAIN memories' = DOMAIN memories \cup {nm} /\ memories'[nm] = [size |-> Counter(0, Request(t).counted), taken |-> 0]
  BY <1>1
<1>7. \A m \in DOMAIN memories : memories'[m] = memories[m]
  BY <1>1, <1>4
<1> HIDE DEF nm
<1>8. MapsAddUp' /\ MaxEpoch' = MaxEpoch
  BY <1>1, <1>2, MapsKept
<1>9. MemoryTypeOK'
  <2>1. \A m \in DOMAIN memories' : memories'[m].taken \in 0 .. memories'[m].size
    BY <1>2, <1>6, <1>7 DEF MemoryTypeOK
  <2> QED
    BY <1>1, <1>5, <1>8, <2>1 DEF MemoryTypeOK
<1>10. \A u \in Team : Busy(u)' <=> Busy(u) \/ u = t
  BY <1>5 DEF Busy
<1>11. RequestsOnce'
  <2>1. \A u \in Team : Busy(u)' => todo[u] # << >>
    BY <1>1, <1>3, <1>10
  <2> QED
    BY <1>1, <2>1, SameRequests
<1>12. \A u \in Team : Request(u)' = Request(u)
  BY <1>1 DEF Request
<1>13. MemoriesFilled'
  <2>1. \A m \in DOMAIN memories' : m[1] \in MadeTags(stage')
    BY <1>1, <1>2, <1>6 DEF MemoriesFilled, nm
  <2>2. ASSUME NEW u \in Team, NEW i \in DOMAIN todo'[u], todo'[u][i].name \in DOMAIN memories'
        PROVE  i = 1 /\ Busy(u)'
    <3>1. CASE todo[u][i].name = nm
      BY <1>1, <1>2, <1>10, <2>2, <3>1
    <3>2. CASE todo[u][i].name # nm
      BY <1>1, <1>6, <1>10, <2>2, <3>2 DEF MemoriesFilled
    <3> QED
      BY <3>1, <3>2
  <2>3. \A m \in DOMAIN memories' : memories'[m] \in [size : Nat, taken : Nat]
    BY <1>2, <1>6, <1>7 DEF MemoriesFilled
  <2>4. ASSUME NEW u \in Team, Busy(u)'
        PROVE  /\ Request(u).name \in DOMAIN memories'
               /\ memories'[Request(u).name] = [size |-> Counter(0, Request(u).counted), taken |-> 0]
    <3>1. CASE u = t
      BY <1>6, <3>1 DEF nm
    <3>2. CASE u # t
      BY <1>6, <1>7, <1>10, <2>4, <3>2 DEF MemoriesFilled
    <3> QED
      BY <3>1, <3>2
  <2>5. ASSUME NEW m \in DOMAIN memories', \A u \in Team : Busy(u)' => Request(u).name # m
        PROVE  memories'[m].taken = memories'[m].size
    <3>1. m # nm /\ m \in DOMAIN memories
      BY <1>6, <1>10, <2>5 DEF nm
    <3> QED
      BY <1>7, <1>10, <2>5, <3>1 DEF MemoriesFilled
  <2> QED
    BY <1>12, <2>1, <2>2, <2>3, <2>4, <2>5 DEF MemoriesFilled
<1>14. PushedOnce'
  <2>1. InPools' = InPools
    BY <1>1 DEF InPools
  <2>2. nm \notin InPools
    BY <1>4 DEF PushedOnce
  <2>3. \A u \in Team : Loose(u)' <=> Loose(u) \/ u = t
    BY <1>5 DEF Loose
  <2>4. DOMAIN memories' = InPools' \cup {Request(u).name' : u \in {v \in Team : Loose(v)'}}
    <3>1. {v \in Team : Loose(v)'} = {v \in Team : Loose(v)} \cup {t}
      BY <2>3
    <3>2. {Request(u).name' : u \in {v \in Team : Loose(v)'}} = {Request(u).name : u \in {v \in Team : Loose(v)}} \cup {nm}
      BY <1>12, <3>1 DEF nm
    <3> QED
      BY <1>6, <2>1, <3>2 DEF PushedOnce
  <2>5. \A u \in Team : (at'[u] = "push" <=> lock' = u) /\ (at'[u] = "push" => seen'[u] = Len(pool'[stage']))
    BY <1>1, <1>5 DEF PushedOnce
  <2>6. \A u \in Team : Loose(u)' => Request(u).name \notin InPools'
    BY <2>1, <2>2, <2>3 DEF PushedOnce, nm
  <2> QED
    BY <1>1, <1>12, <2>4, <2>5, <2>6 DEF PushedOnce
<1> QED
  BY <1>8, <1>9, <1>11, <1>13, <1>14

\* Steps at the lock of the pool change no memory and no request.
LEMMA LockSteps ==
    ASSUME MemoryIInv, NEW t \in Team, Busy(t), Busy(t)', NEW a \in {"push", "take"},
           at' = [at EXCEPT ![t] = a], lock' \in Team \cup {None}, seen' \in [Team -> Nat],
           UNCHANGED <<isNode2vec, stage, messageNum, todo, memories, mapped, startNum, rest>>
    PROVE  MemoryTypeOK' /\ MapsAddUp' /\ RequestsOnce' /\ MemoriesFilled'
<1> USE DEF MemoryIInv
<1>1. at' \in [Team -> {"request", "lock", "push", "take"}]
  BY DEF MemoryTypeOK
<1>2. \A u \in Team : Busy(u)' <=> Busy(u)
  BY DEF Busy, MemoryTypeOK
<1>3. \A u \in Team : Request(u)' = Request(u)
  BY DEF Request
<1>4. stage \in Pools
  BY RequestFacts DEF RequestsOnce
<1>5. MapsAddUp' /\ MaxEpoch' = MaxEpoch
  BY <1>4, MapsKept
<1>6. MemoryTypeOK'
  BY <1>1, <1>5 DEF MemoryTypeOK
<1>7. RequestsOnce'
  <2>1. \A u \in Team : Busy(u)' => todo[u] # << >>
    BY <1>2 DEF RequestsOnce
  <2> QED
    BY <2>1, SameRequests
<1>8. MemoriesFilled'
  BY <1>2, <1>3 DEF MemoriesFilled
<1> QED
  BY <1>5, <1>6, <1>7, <1>8

LEMMA LockPoolInv == ASSUME MemoryIInv, NEW t \in Team, LockPool(t) PROVE MemoryIInv'
<1> USE DEF MemoryIInv
<1>1. /\ at[t] = "lock" /\ lock = None /\ lock' = t
      /\ seen' = [seen EXCEPT ![t] = Len(pool[stage])] /\ at' = [at EXCEPT ![t] = "push"]
      /\ UNCHANGED <<isNode2vec, stage, messageNum, todo, memories, pool, mapped, startNum, rest>>
  BY DEF LockPool
<1>2. at'[t] = "push" /\ \A u \in Team : u # t => at'[u] = at[u]
  BY <1>1 DEF MemoryTypeOK
<1>3. MemoryTypeOK' /\ MapsAddUp' /\ RequestsOnce' /\ MemoriesFilled'
  <2>1. Busy(t) /\ Busy(t)'
    BY <1>1, <1>2 DEF Busy
  <2>2. pool[stage] \in Seq(AllNames)
    BY <2>1, RequestFacts DEF RequestsOnce, PushedOnce
  <2>3. seen' \in [Team -> Nat]
    BY <1>1, <2>2 DEF MemoryTypeOK
  <2> QED
    BY <1>1, <2>1, <2>3, LockSteps
<1>4. PushedOnce'
  <2>1. \A u \in Team : Loose(u)' <=> Loose(u)
    BY <1>1, <1>2 DEF Loose
  <2>2. \A u \in Team : Request(u)' = Request(u)
    BY <1>1 DEF Request
  <2>3. InPools' = InPools
    BY <1>1 DEF InPools
  <2>4. \A u \in Team : at'[u] = "push" <=> lock' = u
    <3>1. \A u \in Team : lock # u
      BY <1>1, ThreadsAssumption DEF None, Team
    <3> QED
      BY <1>1, <1>2, <3>1 DEF PushedOnce
  <2>5. \A u \in Team : at'[u] = "push" => seen'[u] = Len(pool'[stage'])
    <3> SUFFICES ASSUME NEW u \in Team, at'[u] = "push" PROVE seen'[u] = Len(pool[stage])
      BY <1>1
    <3>1. u = t
      BY <1>1, <2>4
    <3> QED
      BY <1>1, <3>1 DEF MemoryTypeOK
  <2> QED
    BY <1>1, <2>1, <2>2, <2>3, <2>4, <2>5 DEF PushedOnce
<1> QED
  BY <1>3, <1>4

\* Nobody has pushed since the lock was taken: push_back appends.
LEMMA PushBackInv == ASSUME MemoryIInv, NEW t \in Team, PushBack(t) PROVE MemoryIInv'
<1> USE DEF MemoryIInv
<1> DEFINE nm == Request(t).name
           q == pool[stage]
<1>1. /\ at[t] = "push"
      /\ pool' = [pool EXCEPT ![stage] = [i \in DOMAIN q \cup {seen[t] + 1} |->
                                             IF i = seen[t] + 1 THEN nm ELSE q[i]]]
      /\ lock' = None /\ at' = [at EXCEPT ![t] = "take"]
      /\ UNCHANGED <<isNode2vec, stage, messageNum, todo, memories, seen, mapped, startNum, rest>>
  BY DEF PushBack
<1>2. at'[t] = "take" /\ \A u \in Team : u # t => at'[u] = at[u]
  BY <1>1 DEF MemoryTypeOK
<1>3. Busy(t) /\ Busy(t)' /\ Loose(t)
  BY <1>1, <1>2 DEF Busy, Loose
<1>4. /\ stage \in Pools /\ nm \in AllNames /\ nm = todo[t][1].name
      /\ \A u \in Team : \A i \in DOMAIN todo[u] : todo[u][i].name = nm => u = t /\ i = 1
  BY <1>3, RequestFacts DEF RequestsOnce
<1>5. q \in Seq(AllNames) /\ seen[t] = Len(q)
  BY <1>1, <1>4 DEF PushedOnce
<1>6. pool'[stage] = Append(q, nm) /\ \A p \in Pools : p # stage => pool'[p] = pool[p]
  <2>1. DOMAIN q \cup {seen[t] + 1} = 1 .. Len(q) + 1
    BY <1>5
  <2>2. Append(q, nm) = [i \in 1 .. Len(q) + 1 |-> IF i = Len(q) + 1 THEN nm ELSE q[i]]
    <3> DEFINE n == Len(q) + 1
               f == [i \in 1 .. n |-> IF i = n THEN nm ELSE q[i]]
    <3>1. n \in Nat /\ f \in [1 .. n -> AllNames]
      BY <1>4, <1>5
    <3> HIDE DEF f
    <3>2. f \in Seq(AllNames) /\ Len(f) = n
      BY <3>1, FunctionIsSeq
    <3>3. Append(q, nm) \in Seq(AllNames) /\ Len(Append(q, nm)) = n
      BY <1>4, <1>5
    <3>4. \A i \in 1 .. n : f[i] = Append(q, nm)[i]
      BY <1>4, <1>5 DEF f
    <3> QED
      BY <3>2, <3>3, <3>4, SeqEqual DEF f
  <2>3. pool'[stage] = [i \in DOMAIN q \cup {seen[t] + 1} |-> IF i = seen[t] + 1 THEN nm ELSE q[i]]
    BY <1>1, <1>4 DEF PushedOnce
  <2> QED
    BY <1>1, <1>4, <1>5, <2>1, <2>2, <2>3 DEF PushedOnce
<1> HIDE DEF nm, q
<1>7. MemoryTypeOK' /\ MapsAddUp' /\ RequestsOnce' /\ MemoriesFilled'
  <2>1. seen' \in [Team -> Nat]
    BY <1>1 DEF MemoryTypeOK
  <2> QED
    BY <1>1, <1>3, <2>1, LockSteps
<1>8. DOMAIN pool'[stage] = DOMAIN q \cup {Len(q) + 1} /\ Len(q) + 1 \notin DOMAIN q
  BY <1>5, <1>6
<1>9. pool'[stage][Len(q) + 1] = nm /\ \A i \in DOMAIN q : pool'[stage][i] = q[i]
  BY <1>5, <1>6
<1>10. InPools' = InPools \cup {nm}
  <2> DEFINE In(p) == {pool[p][i] : i \in DOMAIN pool[p]}
             InNext(p) == {pool'[p][i] : i \in DOMAIN pool'[p]}
  <2>1. \A p \in Pools : p # stage => InNext(p) = In(p)
    BY <1>6
  <2>2. InNext(stage) = In(stage) \cup {nm}
    BY <1>8, <1>9 DEF q
  <2>3. InPools = UNION {In(p) : p \in Pools} /\ InPools' = UNION {InNext(p) : p \in Pools}
    BY DEF InPools
  <2> HIDE DEF In, InNext
  <2>4. ASSUME NEW m PROVE m \in InPools' <=> m \in InPools \/ m = nm
    <3>1. m \in InPools' <=> \E p \in Pools : m \in InNext(p)
      BY <2>3
    <3>2. m \in InPools <=> \E p \in Pools : m \in In(p)
      BY <2>3
    <3> QED
      BY <1>4, <2>1, <2>2, <3>1, <3>2
  <2> QED
    BY <2>4
<1>11. nm \notin InPools
  BY <1>3 DEF PushedOnce, nm
<1>12. \A u \in Team : Loose(u)' <=> Loose(u) /\ u # t
  BY <1>1, <1>2 DEF Loose
<1>13. \A u \in Team : Request(u)' = Request(u)
  BY <1>1 DEF Request
<1>14. \A u \in Team : Loose(u)' => Request(u).name # nm /\ Request(u).name \notin InPools
  <2> SUFFICES ASSUME NEW u \in Team, Loose(u)' PROVE Request(u).name # nm /\ Request(u).name \notin InPools
    OBVIOUS
  <2>1. Loose(u) /\ u # t
    BY <1>12
  <2>2. todo[u] # << >>
    BY <2>1 DEF RequestsOnce, Busy, Loose
  <2>3. 1 \in DOMAIN todo[u] /\ Request(u) = todo[u][1]
    BY <2>2, RequestFacts
  <2> QED
    BY <1>4, <2>1, <2>3 DEF PushedOnce
<1>15. PushedOnce'
  <2>1. pool' \in [Pools -> Seq(AllNames)]
    <3>1. Append(q, nm) \in Seq(AllNames)
      BY <1>4, <1>5
    <3>2. \A p \in Pools : pool'[p] \in Seq(AllNames)
      BY <1>6, <3>1 DEF PushedOnce
    <3>3. pool' = [p \in Pools |-> pool'[p]]
      BY <1>1 DEF PushedOnce
    <3> QED
      BY <3>2, <3>3
  <2>2. \A u \in Team : at'[u] # "push" /\ lock' # u
    BY <1>1, <1>2, ThreadsAssumption DEF PushedOnce, None, Team
  <2>3. DOMAIN memories' = InPools' \cup {Request(u).name' : u \in {v \in Team : Loose(v)'}}
    <3>1. {v \in Team : Loose(v)} = {v \in Team : Loose(v)'} \cup {t}
      BY <1>3, <1>12
    <3>2. {Request(u).name : u \in {v \in Team : Loose(v)}} = {Request(u).name' : u \in {v \in Team : Loose(v)'}} \cup {nm}
      BY <1>13, <3>1 DEF nm
    <3> QED
      BY <1>1, <1>10, <3>2 DEF PushedOnce
  <2>4. \A u \in Team : Loose(u)' => Request(u)'.name \notin InPools'
    BY <1>10, <1>13, <1>14
  <2>5. ASSUME NEW p \in Pools, NEW i \in DOMAIN pool'[p], NEW j \in DOMAIN pool'[p], pool'[p][i] = pool'[p][j]
        PROVE  i = j
    <3>1. CASE p # stage
      BY <1>6, <2>5, <3>1 DEF PushedOnce
    <3>2. CASE p = stage
      <4>1. \A k \in DOMAIN q : q[k] # nm
        BY <1>4, <1>11 DEF InPools, q
      <4>2. \A k, l \in DOMAIN q : q[k] = q[l] => k = l
        BY <1>4 DEF PushedOnce, q
      <4> QED
        BY <1>8, <1>9, <2>5, <3>2, <4>1, <4>2
    <3> QED
      BY <3>1, <3>2
  <2> QED
    BY <1>1, <2>1, <2>2, <2>3, <2>4, <2>5 DEF PushedOnce
<1> QED
  BY <1>7, <1>15

\* All that was counted is taken.
LEMMA TakeBlocksInv == ASSUME MemoryIInv, NEW t \in Team, TakeBlocks(t) PROVE MemoryIInv'
<1> USE DEF MemoryIInv
<1> DEFINE nm == Request(t).name
           size == Counter(0, Request(t).counted)
<1>1. /\ at[t] = "take"
      /\ memories' = [memories EXCEPT ![nm].taken = Counter(@, Request(t).taken)]
      /\ todo' = [todo EXCEPT ![t] = Tail(@)] /\ at' = [at EXCEPT ![t] = "request"]
      /\ UNCHANGED <<isNode2vec, stage, messageNum, pool, lock, seen, mapped, startNum, rest>>
  BY DEF TakeBlocks
<1>2. at'[t] = "request" /\ \A u \in Team : u # t => at'[u] = at[u]
  BY <1>1 DEF MemoryTypeOK
<1>3. Busy(t) /\ todo[t] # << >>
  BY <1>1 DEF Busy, RequestsOnce
<1>4. /\ stage \in Pools /\ nm = todo[t][1].name /\ 1 \in DOMAIN todo[t]
      /\ Request(t).taken = Request(t).counted /\ size \in Nat
      /\ \A u \in Team : \A i \in DOMAIN todo[u] : todo[u][i].name = nm => u = t /\ i = 1
  BY <1>3, RequestFacts, CounterType
<1>5. nm \in DOMAIN memories /\ memories[nm] = [size |-> size, taken |-> 0]
  BY <1>3 DEF MemoriesFilled
<1>6. /\ DOMAIN memories' = DOMAIN memories /\ memories'[nm] = [size |-> size, taken |-> size]
      /\ \A m \in DOMAIN memories : m # nm => memories'[m] = memories[m]
  BY <1>1, <1>4, <1>5
<1>7. /\ DOMAIN todo' = Team /\ todo'[t] = Tail(todo[t])
      /\ \A u \in Team : u # t => todo'[u] = todo[u]
  BY <1>1 DEF RequestsOnce
<1>8. /\ todo'[t] \in Seq(Requests(Tags(stage) \X Int))
      /\ \A i \in DOMAIN todo'[t] : /\ i \in Nat \ {0} /\ i + 1 \in DOMAIN todo[t]
                                    /\ todo'[t][i] = todo[t][i + 1]
  <2> DEFINE R == Requests(Tags(stage) \X Int)
  <2>1. todo[t] \in Seq(R)
    BY DEF RequestsOnce
  <2> HIDE DEF R
  <2>2. /\ Tail(todo[t]) \in Seq(R)
        /\ \A i \in DOMAIN Tail(todo[t]) : /\ i \in Nat \ {0} /\ i + 1 \in DOMAIN todo[t]
                                           /\ Tail(todo[t])[i] = todo[t][i + 1]
    BY <1>3, <2>1
  <2> QED
    BY <1>7, <2>2 DEF R
<1>9. \A u \in Team : Busy(u)' <=> Busy(u) /\ u # t
  BY <1>2 DEF Busy
<1>10. \A u \in Team : u # t => Request(u)' = Request(u)
  BY <1>7 DEF Request
<1>11. \A u \in Team : Busy(u)' => Request(u).name # nm
  <2> SUFFICES ASSUME NEW u \in Team, Busy(u)' PROVE Request(u).name # nm
    OBVIOUS
  <2>1. Busy(u) /\ u # t
    BY <1>9
  <2>2. todo[u] # << >>
    BY <2>1 DEF RequestsOnce
  <2>3. 1 \in DOMAIN todo[u] /\ Request(u) = todo[u][1]
    BY <2>2, RequestFacts
  <2> QED
    BY <1>4, <2>1, <2>3
<1>12. MapsAddUp' /\ MaxEpoch' = MaxEpoch
  BY <1>1, <1>4, MapsKept
<1> HIDE DEF nm, size
<1>13. MemoryTypeOK'
  <2>1. \A m \in DOMAIN memories' : memories'[m].taken \in 0 .. memories'[m].size
    BY <1>4, <1>6 DEF MemoryTypeOK
  <2>2. at' \in [Team -> {"request", "lock", "push", "take"}]
    BY <1>1 DEF MemoryTypeOK
  <2> QED
    BY <1>1, <1>12, <2>1, <2>2 DEF MemoryTypeOK
<1>14. RequestsOnce'
  <2>1. todo' \in [Team -> Seq(Requests(Tags(stage') \X Int))]
    <3>1. \A u \in Team : todo'[u] \in Seq(Requests(Tags(stage) \X Int))
      BY <1>7, <1>8 DEF RequestsOnce
    <3>2. todo' = [u \in Team |-> todo'[u]]
      BY <1>1 DEF RequestsOnce
    <3> QED
      BY <1>1, <3>1, <3>2
  <2>2. ASSUME NEW u \in Team, NEW v \in Team, NEW i \in DOMAIN todo'[u], NEW j \in DOMAIN todo'[v],
               todo'[u][i].name = todo'[v][j].name
        PROVE  u = v /\ i = j
    <3>1. CASE u = t /\ v = t
      <4>1. i + 1 = j + 1
        BY <1>8, <2>2, <3>1 DEF RequestsOnce
      <4> QED
        BY <1>8, <3>1, <4>1
    <3>2. CASE u = t /\ v # t
      BY <1>7, <1>8, <2>2, <3>2 DEF RequestsOnce
    <3>3. CASE u # t /\ v = t
      BY <1>7, <1>8, <2>2, <3>3 DEF RequestsOnce
    <3>4. CASE u # t /\ v # t
      BY <1>7, <2>2, <3>4 DEF RequestsOnce
    <3> QED
      BY <3>1, <3>2, <3>3, <3>4
  <2>3. \A u \in Team : Busy(u)' => todo'[u] # << >>
    BY <1>7, <1>9 DEF RequestsOnce
  <2> QED
    BY <1>1, <1>4, <2>1, <2>2, <2>3 DEF RequestsOnce
<1>15. MemoriesFilled'
  <2>1. \A m \in DOMAIN memories' : m[1] \in MadeTags(stage')
    BY <1>1, <1>6 DEF MemoriesFilled
  <2>2. ASSUME NEW u \in Team, NEW i \in DOMAIN todo'[u], todo'[u][i].name \in DOMAIN memories'
        PROVE  i = 1 /\ Busy(u)'
    <3>1. CASE u = t
      <4>1. i + 1 = 1 /\ i \in Nat \ {0}
        BY <1>6, <1>8, <2>2, <3>1 DEF MemoriesFilled
      <4> QED
        BY <4>1
    <3>2. CASE u # t
      BY <1>6, <1>7, <1>9, <2>2, <3>2 DEF MemoriesFilled
    <3> QED
      BY <3>1, <3>2
  <2>3. \A m \in DOMAIN memories' : memories'[m] \in [size : Nat, taken : Nat]
    BY <1>4, <1>6 DEF MemoriesFilled
  <2>4. ASSUME NEW u \in Team, Busy(u)'
        PROVE  /\ Request(u)'.name \in DOMAIN memories'
               /\ memories'[Request(u)'.name] = [size |-> Counter(0, Request(u)'.counted), taken |-> 0]
    <3>1. Request(u)' = Request(u) /\ Busy(u) /\ Request(u).name # nm
      BY <1>9, <1>10, <1>11, <2>4
    <3> QED
      BY <1>6, <3>1 DEF MemoriesFilled
  <2>5. ASSUME NEW m \in DOMAIN memories', \A u \in Team : Busy(u)' => Request(u)'.name # m
        PROVE  memories'[m].taken = memories'[m].size
    <3>1. CASE m = nm
      BY <1>6, <3>1
    <3>2. CASE m # nm
      <4>1. \A u \in Team : Busy(u) => Request(u).name # m
        BY <1>9, <1>10, <2>5, <3>2 DEF nm
      <4> QED
        BY <1>6, <3>2, <4>1 DEF MemoriesFilled
    <3> QED
      BY <3>1, <3>2
  <2> QED
    BY <2>1, <2>2, <2>3, <2>4, <2>5 DEF MemoriesFilled
<1>16. PushedOnce'
  <2>1. \A u \in Team : Loose(u)' <=> Loose(u)
    BY <1>1, <1>2 DEF Loose
  <2>2. \A u \in Team : Loose(u) => u # t
    BY <1>1 DEF Loose
  <2>3. InPools' = InPools
    BY <1>1 DEF InPools
  <2>4. {Request(u).name' : u \in {v \in Team : Loose(v)'}} = {Request(u).name : u \in {v \in Team : Loose(v)}}
    <3>1. {v \in Team : Loose(v)'} = {v \in Team : Loose(v)}
      BY <2>1
    <3>2. \A u \in {v \in Team : Loose(v)} : Request(u)' = Request(u)
      BY <1>10, <2>2
    <3> QED
      BY <3>1, <3>2
  <2>5. DOMAIN memories' = InPools' \cup {Request(u).name' : u \in {v \in Team : Loose(v)'}}
    BY <1>6, <2>3, <2>4 DEF PushedOnce
  <2>6. \A u \in Team : Loose(u)' => Request(u)'.name \notin InPools'
    BY <1>10, <2>1, <2>2, <2>3 DEF PushedOnce
  <2>7. \A u \in Team : (at'[u] = "push" <=> lock' = u) /\ (at'[u] = "push" => seen'[u] = Len(pool'[stage']))
    BY <1>1, <1>2 DEF PushedOnce
  <2> QED
    BY <1>1, <2>5, <2>6, <2>7 DEF PushedOnce
<1> QED
  BY <1>12, <1>13, <1>14, <1>15, <1>16
-----------------------------------------------------------------------------
LEMMA MemoryStep == ASSUME MemoryIInv, [MemoryNext]_memoryVars PROVE MemoryIInv'
<1>1. CASE UNCHANGED memoryVars
  <2> USE <1>1 DEF memoryVars
  <2>1. MaxEpoch' = MaxEpoch /\ InPools' = InPools
    BY DEF MaxEpoch, Estimated, InPools
  <2>2. /\ \A t \in Team : (Busy(t)' <=> Busy(t)) /\ (Loose(t)' <=> Loose(t)) /\ Request(t)' = Request(t)
        /\ \A x, y : ArraySize(x, y)' = ArraySize(x, y)
        /\ AllMade' <=> AllMade
    BY <2>1 DEF Busy, Loose, Request, ArraySize, AllMade
  <2>3. MemoryTypeOK' /\ MapsAddUp'
    BY <2>1, <2>2 DEF MemoryIInv, MemoryTypeOK, MapsAddUp
  <2>4. RequestsOnce'
    BY <2>2, SameRequests DEF MemoryIInv, RequestsOnce
  <2>5. MemoriesFilled'
    BY <2>2 DEF MemoryIInv, MemoriesFilled
  <2>6. PushedOnce'
    <3>1. {t \in Team : Loose(t)'} = {t \in Team : Loose(t)}
      BY <2>2
    <3>2. {Request(t).name' : t \in {u \in Team : Loose(u)'}} = {Request(t).name : t \in {u \in Team : Loose(u)}}
      BY <2>2, <3>1
    <3> QED
      BY <2>1, <2>2, <3>2 DEF MemoryIInv, PushedOnce
  <2> QED
    BY <2>3, <2>4, <2>5, <2>6 DEF MemoryIInv
<1>2. CASE PrepareRands
  BY <1>2, PrepareRandsInv
<1>3. CASE InitSamplers
  BY <1>3, InitSamplersInv
<1>4. CASE InitWalkers
  BY <1>4, InitWalkersInv
<1>5. CASE InitMessages
  BY <1>5, InitMessagesInv
<1>6. CASE InitWalks
  BY <1>6, InitWalksInv
<1>7. CASE \E t \in Team : MemoryThread(t)
  <2>1. PICK t \in Team : MemoryThread(t)
    BY <1>7
  <2> QED
    BY <2>1, NewMemoryInv, LockPoolInv, PushBackInv, TakeBlocksInv DEF MemoryThread
<1>8. CASE AllocOutput
  BY <1>8, AllocOutputInv
<1>9. CASE WalkEpoch
  BY <1>9, WalkEpochInv
<1>10. CASE DeallocOutput
  BY <1>10, DeallocOutputInv
<1>11. CASE Destroy
  BY <1>11, DestroyInv
<1> QED
  BY <1>1, <1>2, <1>3, <1>4, <1>5, <1>6, <1>7, <1>8, <1>9, <1>10, <1>11 DEF MemoryNext

\* The invariant by which the properties below follow.
THEOREM MemoryInvariant == MemorySpec => []MemoryIInv
<1>1. MemoryInit => MemoryIInv
  BY MemoryInitInv
<1>2. MemoryIInv /\ [MemoryNext]_memoryVars => MemoryIInv'
  BY MemoryStep
<1> QED
  BY <1>1, <1>2, PTL DEF MemorySpec

\* No block goes past the end of its memory, as Memory::align CHECKs.
THEOREM MemoryTypeCorrect == MemorySpec => []MemoryTypeOK
<1>1. MemoryIInv => MemoryTypeOK
  BY DEF MemoryIInv
<1> QED
  BY <1>1, MemoryInvariant, PTL

(***************************************************************************)
(* Behind each region that asks for memories every one that was made is in *)
(* a pool, at one place, and all of it was taken: whatever the order of    *)
(* the threads at the lock of MemoryPool::get_memory, none is lost by two  *)
(* that push_back to the same place, and ~Memory's CHECK holds.            *)
(***************************************************************************)
THEOREM PoolsAreComplete == MemorySpec => []PoolsComplete
<1>1. ASSUME MemoryIInv PROVE PoolsComplete
  <2> SUFFICES ASSUME AllMade
               PROVE  /\ DOMAIN memories = InPools
                      /\ \A p \in Pools : \A i, j \in DOMAIN pool[p] : pool[p][i] = pool[p][j] => i = j
                      /\ \A m \in InPools : memories[m].taken = memories[m].size
    BY DEF PoolsComplete
  <2>1. \A t \in Team : ~Busy(t) /\ ~Loose(t)
    BY <1>1, NobodyBusy DEF MemoryIInv, Busy, Loose
  <2>2. DOMAIN memories = InPools
    <3>1. {Request(t).name : t \in {u \in Team : Loose(u)}} = {}
      BY <2>1
    <3> QED
      BY <1>1, <3>1 DEF MemoryIInv, PushedOnce
  <2>3. \A m \in InPools : memories[m].taken = memories[m].size
    BY <1>1, <2>1, <2>2 DEF MemoryIInv, MemoriesFilled
  <2> QED
    BY <1>1, <2>2, <2>3 DEF MemoryIInv, PushedOnce
<1> QED
  BY <1>1, MemoryInvariant, PTL

(***************************************************************************)
(* Whatever the number of epochs and the size of the last, the solver that *)
(* is destroyed leaves no memory and nothing mapped: each user of          *)
(* dealloc_walker_array knows the length its array was mapped with.        *)
(***************************************************************************)
THEOREM NothingIsLeaked == MemorySpec => []NothingLeaked
<1>1. ASSUME MemoryIInv PROVE NothingLeaked
  <2> DEFINE P == ArraySize(SizeOfPid, 1)
             B == ArraySize(SizeOfId, 1)
             W == WalkLen * B
  <2>1. MapsAddUp
    BY <1>1 DEF MemoryIInv
  <2>2. stage = "destroyed" => memories = << >> /\ mapped = 0
    BY <2>1 DEF MapsAddUp
  <2>3. ASSUME stage = "walked" PROVE mapped = P + (WalkLen + 1) * B
    <3>1. startNum # 0
      BY <2>1, <2>3, EpochsAssumption DEF MapsAddUp
    <3>2. mapped = P + W + 0 + B
      BY <2>1, <2>3, <3>1 DEF MapsAddUp
    <3>3. WalkLen \in Nat /\ B \in Nat /\ P \in Nat
      <4>1. MaxEpoch \in Nat /\ WalkLen \in Nat
        BY <1>1, MaxEpochType, EpochsAssumption DEF MemoryIInv, MemoryTypeOK
      <4> QED
        BY <4>1 DEF ArraySize, SizeOfId, SizeOfPid
    <3> HIDE DEF P, B
    <3>4. (WalkLen + 1) * B = W + B
      BY <3>3, Z3
    <3>5. W \in Nat
      BY <3>3
    <3> HIDE DEF W
    <3> QED
      BY <3>2, <3>3, <3>4, <3>5
  <2> QED
    BY <2>2, <2>3 DEF NothingLeaked
<1> QED
  BY <1>1, MemoryInvariant, PTL
=============================================================================
