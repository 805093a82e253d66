-------------------------- MODULE PartitionProofs --------------------------
(***************************************************************************)
(* The partitions: how make lays out the graph (GraphLayout), and that dp  *)
(* finds the best sizes for them (PartitionPlan); for every graph, team    *)
(* and limit, as long as the vertices round up to whole groups within      *)
(* vertex_id_t.  Both rest on the lemmas about groups.                     *)
(*                                                                         *)
(* The layout has three inductive invariants, each of which needs those    *)
(* before it.  LayoutIInv: every name has one id, and the partitions of    *)
(* the groups stand behind one another; from it follows the lookup.        *)
(* OrderInv: an id that counting_sort has placed is at its rank, and a     *)
(* vertex that was dealt out is in the place of its turn; from it follow   *)
(* the order of the degrees and the balance of the shuffle.  FillInv: each *)
(* half edge that was claimed has a place of its own in the list of its    *)
(* vertex, and what is written is written there; from it follow the        *)
(* threads' exclusive entries and the graph that is read back in the end.  *)
(***************************************************************************)
EXTENDS PartitionPlan, GraphLayout, CommonProofs, FiniteSetTheorems

-----------------------------------------------------------------------------
(* Groups                                                                  *)

LEMMA CeilDivIs ==
    ASSUME NEW a \in Nat, NEW b \in Nat \ {0}
    PROVE  /\ CeilDiv(a, b) \in Nat
           /\ a <= b * CeilDiv(a, b) /\ b * CeilDiv(a, b) < a + b
<1> DEFINE m == a + b - 1
           q == m \div b
<1>1. m \in Nat
  OBVIOUS
<1>2. q \in Nat /\ m % b \in 0 .. b - 1 /\ m = b * q + (m % b)
  BY <1>1, DivMod
<1>3. CeilDiv(a, b) = q
  BY DEF CeilDiv
<1> HIDE DEF q
<1>4. b * q \in Nat
  BY <1>2, Z3
<1> QED
  BY <1>2, <1>3, <1>4

\* Rounded up, it is the least number of whole bs that a fits into.
LEMMA CeilDivLeast ==
    ASSUME NEW a \in Nat, NEW b \in Nat \ {0}, NEW c \in Nat, a <= b * c
    PROVE  CeilDiv(a, b) <= c
<1> DEFINE q == CeilDiv(a, b)
<1>1. q \in Nat /\ b * q < a + b
  BY CeilDivIs
<1> HIDE DEF q
<1>2. SUFFICES ASSUME q > c PROVE FALSE
  BY <1>1 DEF q
<1>3. PICK d \in Nat : q = c + 1 + d
  <2>1. q - c - 1 \in Nat /\ q = c + 1 + (q - c - 1)
    BY <1>1, <1>2
  <2> QED
    BY <2>1
<1>4. b * q = b * c + b + b * d /\ b * d \in Nat /\ b * c \in Nat
  BY <1>1, <1>3, Z3
<1>5. b * q >= a + b
  BY <1>4
<1> QED
  BY <1>1, <1>4, <1>5

\* The size of the groups of n vertices.
LEMMA GroupBitsType ==
    ASSUME NEW n \in Nat \ {0}
    PROVE  /\ GroupBits(n) \in 0 .. n /\ TwoTo[GroupBits(n)] \in Nat \ {0}
           /\ TwoTo[GroupBits(n)] <= n
<1> DEFINE Fits(b) == n \div TwoTo[b] <= MaxGroupNum
           T == {b \in 0 .. n : Fits(b)}
<1>1. \A b \in Nat : TwoTo[b] \in Nat \ {0}
  BY TwoToType
<1>2. n \in T
  <2>1. n < TwoTo[n] * 1
    BY TwoToType
  <2>2. n \div TwoTo[n] < 1 /\ n \div TwoTo[n] \in Nat
    BY <1>1, <2>1, DivLess, DivMod
  <2> QED
    BY <2>2, GroupsAssumption
<1>3. PICK b \in T : \A c \in T : b <= c
  <2>1. T \in SUBSET Nat /\ T # {}
    BY <1>2
  <2> HIDE DEF T
  <2> QED
    BY <2>1, LeastNumber
<1>4. \A c \in 0 .. b - 1 : n \div TwoTo[c] > MaxGroupNum
  <2> SUFFICES ASSUME NEW c \in 0 .. b - 1 PROVE n \div TwoTo[c] > MaxGroupNum
    OBVIOUS
  <2>1. c \in 0 .. n /\ ~(b <= c)
    BY <1>3
  <2>2. ~Fits(c)
    BY <1>3, <2>1
  <2>3. n \div TwoTo[c] \in Nat
    <3>1. TwoTo[c] \in Nat \ {0}
      BY <1>1
    <3> QED
      BY <3>1, DivMod
  <2> QED
    BY <2>2, <2>3, GroupsAssumption
<1>5. \E x \in 0 .. n : Fits(x) /\ \A c \in 0 .. x - 1 : n \div TwoTo[c] > MaxGroupNum
  BY <1>3, <1>4
<1>6. GroupBits(n) \in 0 .. n /\ \A c \in 0 .. GroupBits(n) - 1 : n \div TwoTo[c] > MaxGroupNum
  BY <1>5, Zenon DEF GroupBits
<1>7. TwoTo[GroupBits(n)] <= n
  <2> DEFINE k == GroupBits(n)
  <2> SUFFICES TwoTo[k] <= n
    OBVIOUS
  <2> HIDE DEF k
  <2>1. CASE k = 0
    BY <2>1, TwoToStep
  <2>2. CASE k # 0
    <3>1. PICK c \in Nat : k = c + 1 /\ c \in 0 .. k - 1
      <4>1. k - 1 \in Nat /\ k = (k - 1) + 1 /\ k - 1 \in 0 .. k - 1
        BY <1>6, <2>2 DEF k
      <4> QED
        BY <4>1
    <3> DEFINE smaller == TwoTo[c]
               q == n \div smaller
    <3>2. smaller \in Nat \ {0} /\ TwoTo[k] = 2 * smaller
      BY <1>1, <3>1, TwoToStep
    <3>3. q > MaxGroupNum
      BY <1>6, <3>1 DEF k
    <3> HIDE DEF smaller
    <3>4. q \in Nat /\ n % smaller \in 0 .. smaller - 1 /\ n = smaller * q + (n % smaller)
      BY <3>2, DivMod
    <3> HIDE DEF q
    <3>5. PICK d \in Nat : q = 2 + d
      <4>1. q - 2 \in Nat /\ q = 2 + (q - 2)
        BY <3>3, <3>4, GroupsAssumption
      <4> QED
        BY <4>1
    <3>6. smaller * q = 2 * smaller + smaller * d /\ smaller * d \in Nat
      BY <3>2, <3>5, Z3
    <3> QED
      BY <3>2, <3>4, <3>6
  <2> QED
    BY <1>6, <2>1, <2>2 DEF k
<1> QED
  BY <1>1, <1>6, <1>7

\* Where the groups of n vertices begin and end, when they fit.
LEMMA GroupEnds ==
    ASSUME NEW n \in Nat \ {0}, WholeGroupsFit(n),
           NEW g \in 0 .. GroupNum(n) - 1
    PROVE  LET whole == TwoTo[GroupBits(n)] IN
           /\ GroupBegin(n, g) = g * whole /\ GroupBegin(n, g) \in 0 .. n - 1
           /\ GroupEnd(n, g) = Least(n, g * whole + whole)
           /\ GroupEnd(n, g) - GroupBegin(n, g) \in 1 .. whole
           /\ g # GroupNum(n) - 1 => GroupEnd(n, g) - GroupBegin(n, g) = whole
<1> DEFINE whole == TwoTo[GroupBits(n)]
           num == GroupNum(n)
<1>1. whole \in Nat \ {0}
  BY GroupBitsType
<1>2. num \in Nat /\ n <= whole * num /\ whole * num < n + whole /\ num * whole < Word
  <2>1. num = CeilDiv(n, whole)
    BY DEF GroupNum
  <2> HIDE DEF num, whole
  <2>2. num \in Nat /\ n <= whole * num /\ whole * num < n + whole
    BY <1>1, <2>1, CeilDivIs
  <2> QED
    BY <2>2 DEF num, whole, WholeGroupsFit
<1>3. GroupBegin(n, g) = g * whole /\ GroupEnd(n, g) = Least(n, ((g + 1) * whole) % Word)
  BY DEF GroupBegin, GroupEnd
<1> HIDE DEF num
<1>4. PICK d \in Nat : num = g + 1 + d
  <2>1. num - g - 1 \in Nat /\ num = g + 1 + (num - g - 1)
    BY <1>2 DEF num
  <2> QED
    BY <2>1
<1> HIDE DEF whole
<1>5. /\ g \in Nat /\ g * whole \in Nat /\ d * whole \in Nat /\ num * whole = whole * num
      /\ (g + 1) * whole = g * whole + whole
      /\ num * whole = g * whole + whole + d * whole
  BY <1>1, <1>2, <1>4, Z3
<1>6. ((g + 1) * whole) % Word = g * whole + whole
  <2> DEFINE m == g * whole + whole
  <2>1. m \in Nat /\ m < Word /\ (g + 1) * whole = m
    BY <1>1, <1>2, <1>5, GroupsAssumption
  <2> HIDE DEF m
  <2>2. Word \in Nat \ {0} /\ m = Word * 0 + m /\ m \in 0 .. Word - 1
    BY <2>1, GroupsAssumption
  <2>3. m % Word = m
    <3>1. PICK w \in Nat \ {0} : w = Word
      BY <2>2
    <3>2. m % w = m
      BY <2>1, <2>2, <3>1, DivUnique
    <3> QED
      BY <3>1, <3>2
  <2> QED
    BY <2>1, <2>3 DEF m
<1>7. g * whole < n
  BY <1>1, <1>2, <1>5
<1>8. ASSUME g # num - 1 PROVE g * whole + whole <= n
  <2>1. d # 0
    BY <1>2, <1>4, <1>8
  <2>2. d * whole >= whole
    BY <1>1, <2>1, Z3
  <2> QED
    BY <1>1, <1>2, <1>5, <2>2
<1> QED
  BY <1>1, <1>3, <1>5, <1>6, <1>7, <1>8 DEF Least, whole, num

\* A group has no more partitions than whole ones of its size fit into a whole group.
LEMMA PartitionsOfGroup ==
    ASSUME NEW n \in Nat \ {0}, WholeGroupsFit(n),
           NEW g \in 0 .. GroupNum(n) - 1, NEW b \in PartitionBits(n)
    PROVE  LET whole == TwoTo[GroupBits(n)]
               most  == TwoTo[GroupBits(n) - b]
           IN  /\ b \in Nat /\ TwoTo[b] \in Nat \ {0} /\ most \in Nat \ {0}
               /\ whole = TwoTo[b] * most
               /\ PartitionsOf(n, g, b) \in Nat
               /\ GroupEnd(n, g) - GroupBegin(n, g) <= TwoTo[b] * PartitionsOf(n, g, b)
               /\ PartitionsOf(n, g, b) <= most
               /\ g # GroupNum(n) - 1 => PartitionsOf(n, g, b) = most
<1> DEFINE K == GroupBits(n)
           whole == TwoTo[K]
           most == TwoTo[K - b]
           size == TwoTo[b]
           length == GroupEnd(n, g) - GroupBegin(n, g)
<1>1. K \in Nat /\ b \in Nat /\ K - b \in Nat
  BY GroupBitsType, GroupsAssumption DEF PartitionBits, Least
<1>2. whole = size * most
  <2>1. K = b + (K - b)
    BY <1>1
  <2>2. TwoTo[b + (K - b)] = size * most
    BY <1>1, TwoToSum
  <2> QED
    BY <2>1, <2>2
<1>3. size \in Nat \ {0} /\ most \in Nat \ {0}
  <2>1. \A m \in Nat : TwoTo[m] \in Nat \ {0}
    BY TwoToType
  <2> QED
    BY <1>1, <2>1
<1>4. length \in 1 .. whole /\ (g # GroupNum(n) - 1 => length = whole)
  BY GroupEnds
<1>5. PartitionsOf(n, g, b) = CeilDiv(length, size)
  BY DEF PartitionsOf
<1> DEFINE c == CeilDiv(length, size)
<1> HIDE DEF length, size, most, whole
<1>6. length \in Nat /\ length <= size * most
  BY <1>2, <1>3, <1>4, GroupBitsType DEF whole
<1>7. c \in Nat /\ length <= size * c
  BY <1>3, <1>6, CeilDivIs
<1>8. c <= most
  BY <1>3, <1>6, CeilDivLeast
<1>9. ASSUME g # GroupNum(n) - 1 PROVE c = most
  <2> HIDE DEF c
  <2>1. size * most <= size * c
    BY <1>2, <1>4, <1>7, <1>9
  <2>2. most <= c
    <3> SUFFICES ASSUME c < most PROVE FALSE
      BY <1>3, <1>7
    <3>1. PICK d \in Nat : most = c + 1 + d
      <4>1. most - c - 1 \in Nat /\ most = c + 1 + (most - c - 1)
        BY <1>3, <1>7
      <4> QED
        BY <4>1
    <3>2. size * most = size * c + size + size * d /\ size * d \in Nat /\ size * c \in Nat
      BY <1>3, <1>7, <3>1, Z3
    <3> QED
      BY <1>3, <2>1, <3>2
  <2> QED
    BY <1>3, <1>7, <1>8, <2>2
<1> QED
  BY <1>1, <1>2, <1>3, <1>5, <1>7, <1>8, <1>9 DEF whole, size, most, length
-----------------------------------------------------------------------------
(* The layout: the inductive invariant                                     *)

\* The names in a list.
InList(list) == {list[i] : i \in DOMAIN list}

\* The names on the first k edges.
NamesUpTo(k) == UNION {{graph.edges[i][1], graph.edges[i][2]} : i \in 1 .. k}

\* Every vertex that was read has one id.
NamesRead ==
    /\ names \in Seq(Nat)
    /\ \A i, j \in DOMAIN names : names[i] = names[j] => i = j
    /\ phase = "load" => next \in 1 .. Len(graph.edges) + 1 /\ InList(names) = NamesUpTo(next - 1)
    /\ phase # "load" => InList(names) = NamesOf(graph)

\* The first m groups have their partitions, behind one another.
LaidUpTo(m) ==
    /\ parts \in Seq([begin : Int, end : Int])
    /\ DOMAIN offsets = 0 .. m - 1
    /\ \A g \in 0 .. m - 1 : offsets[g] \in Nat
    /\ Len(parts) = IF m = 0 THEN 0 ELSE offsets[m - 1] + PartitionsOf(VNum, m - 1, bits[m - 1])
    /\ \A g \in 0 .. m - 1 : \A i \in 1 .. PartitionsOf(VNum, g, bits[g]) :
          offsets[g] + i \in DOMAIN parts /\ parts[offsets[g] + i] = PartsOf(g)[i]
    /\ \A q \in DOMAIN parts : \E g \in 0 .. m - 1 : \E i \in 1 .. PartitionsOf(VNum, g, bits[g]) :
          q = offsets[g] + i

GroupsLaid ==
    /\ phase \in {"load", "sort"} => parts = << >> /\ offsets = << >>
    /\ Sorted => bits \in [0 .. GroupNum(VNum) - 1 -> PartitionBits(VNum)]
    /\ phase = "groups" => next \in 0 .. GroupNum(VNum) /\ LaidUpTo(next)
    /\ phase \in {"shuffle", "fill", "done"} => LaidUpTo(GroupNum(VNum))

LayoutIInv ==
    /\ graph \in RawGraphs
    /\ phase \in {"load", "sort", "groups", "shuffle", "fill", "done"}
    /\ NamesRead
    /\ GroupsLaid
-----------------------------------------------------------------------------
(* The layout: the vertices                                                *)

\* A name is entered unless it is there.
LEMMA NamedIs ==
    ASSUME NEW list \in Seq(Nat), \A i, j \in DOMAIN list : list[i] = list[j] => i = j, NEW name \in Nat
    PROVE  /\ Named(list, name) \in Seq(Nat)
           /\ \A i, j \in DOMAIN Named(list, name) : Named(list, name)[i] = Named(list, name)[j] => i = j
           /\ InList(Named(list, name)) = InList(list) \cup {name}
<1>1. CASE \E i \in DOMAIN list : list[i] = name
  BY <1>1 DEF Named, InList
<1>2. CASE ~ \E i \in DOMAIN list : list[i] = name
  <2> DEFINE longer == Append(list, name)
             n == Len(list)
  <2>1. Named(list, name) = longer
    BY <1>2 DEF Named
  <2>2. /\ longer \in Seq(Nat) /\ n \in Nat /\ DOMAIN list = 1 .. n /\ DOMAIN longer = 1 .. n + 1
        /\ longer[n + 1] = name /\ \A i \in 1 .. n : longer[i] = list[i]
    OBVIOUS
  <2> HIDE DEF longer, n
  <2>3. \A i, j \in DOMAIN longer : longer[i] = longer[j] => i = j
    <3> SUFFICES ASSUME NEW i \in 1 .. n + 1, NEW j \in 1 .. n + 1, longer[i] = longer[j] PROVE i = j
      BY <2>2
    <3>1. CASE i \in 1 .. n /\ j \in 1 .. n
      BY <2>2, <3>1
    <3>2. CASE i = n + 1 /\ j \in 1 .. n
      BY <1>2, <2>2, <3>2
    <3>3. CASE i \in 1 .. n /\ j = n + 1
      BY <1>2, <2>2, <3>3
    <3> QED
      BY <2>2, <3>1, <3>2, <3>3
  <2>4. InList(longer) = InList(list) \cup {name}
    <3>1. \A x : x \in InList(longer) <=> \E i \in 1 .. n + 1 : longer[i] = x
      BY <2>2 DEF InList
    <3>2. \A x : x \in InList(list) <=> \E i \in 1 .. n : list[i] = x
      BY <2>2 DEF InList
    <3>3. ASSUME NEW x PROVE x \in InList(longer) <=> x \in InList(list) \/ x = name
      <4>1. ASSUME NEW i \in 1 .. n + 1, longer[i] = x PROVE x = name \/ \E j \in 1 .. n : list[j] = x
        <5>1. CASE i = n + 1
          BY <2>2, <4>1, <5>1
        <5>2. CASE i # n + 1
          <6>1. i \in 1 .. n
            BY <2>2, <5>2
          <6> QED
            BY <2>2, <4>1, <6>1
        <5> QED
          BY <5>1, <5>2
      <4>2. ASSUME NEW j \in 1 .. n, list[j] = x PROVE \E i \in 1 .. n + 1 : longer[i] = x
        <5>1. j \in 1 .. n + 1 /\ longer[j] = x
          BY <2>2, <4>2
        <5> QED
          BY <5>1
      <4>3. n + 1 \in 1 .. n + 1
        BY <2>2
      <4> QED
        BY <2>2, <3>1, <3>2, <4>1, <4>2, <4>3
    <3> QED
      BY <3>3
  <2> QED
    BY <2>1, <2>2, <2>3, <2>4
<1> QED
  BY <1>1, <1>2

\* There are as many ids as vertices, and there is one.
LEMMA VNumIs ==
    ASSUME graph \in RawGraphs, NamesRead, phase # "load"
    PROVE  VNum \in Nat \ {0} /\ VNum = Cardinality(NamesOf(graph))
<1>1. names \in Seq(Nat) /\ VNum \in Nat /\ DOMAIN names = 1 .. VNum
  BY DEF NamesRead, VNum
<1>2. InList(names) = NamesOf(graph) /\ \A i, j \in 1 .. VNum : names[i] = names[j] => i = j
  BY <1>1 DEF NamesRead
<1>3. names \in Bijection(1 .. VNum, NamesOf(graph))
  <2>1. \A i \in 1 .. VNum : names[i] \in NamesOf(graph)
    BY <1>1, <1>2 DEF InList
  <2>2. \A x \in NamesOf(graph) : \E i \in 1 .. VNum : names[i] = x
    BY <1>1, <1>2 DEF InList
  <2>3. names \in [1 .. VNum -> NamesOf(graph)]
    BY <1>1, <2>1
  <2>4. names \in Injection(1 .. VNum, NamesOf(graph))
    BY <1>2, <2>3 DEF Injection, IsInjective
  <2>5. names \in Surjection(1 .. VNum, NamesOf(graph))
    BY <2>2, <2>3 DEF Surjection
  <2> QED
    BY <2>4, <2>5 DEF Bijection
<1>4. IsFiniteSet(1 .. VNum) /\ Cardinality(1 .. VNum) = VNum
  BY <1>1, FS_Interval
<1>5. VNum = Cardinality(NamesOf(graph))
  BY <1>3, <1>4, FS_Bijection DEF ExistsBijection
<1>6. VNum # 0
  <2>1. graph.edges \in Seq(Nat \X Nat) /\ graph.edges # << >>
    BY GraphAssumption
  <2>2. 1 \in DOMAIN graph.edges
    BY <2>1
  <2>3. graph.edges[1][1] \in NamesOf(graph)
    BY <2>2 DEF NamesOf
  <2>4. PICK i \in 1 .. VNum : names[i] = graph.edges[1][1]
    BY <1>1, <1>2, <2>3 DEF InList
  <2> QED
    BY <1>1, <2>4
<1> QED
  BY <1>1, <1>5, <1>6

LEMMA ReadEdgeNames == ASSUME LayoutIInv, ReadEdge PROVE NamesRead'
<1> USE DEF LayoutIInv
<1> DEFINE e == graph.edges[next]
           first == Named(names, e[1])
<1>1. /\ phase = "load" /\ next <= Len(graph.edges) /\ names' = Named(first, e[2])
      /\ next' = next + 1 /\ phase' = phase /\ graph' = graph
  BY DEF ReadEdge
<1>2. graph.edges \in Seq(Nat \X Nat)
  BY GraphAssumption
<1>3. /\ next \in 1 .. Len(graph.edges) + 1 /\ InList(names) = NamesUpTo(next - 1)
      /\ names \in Seq(Nat) /\ \A i, j \in DOMAIN names : names[i] = names[j] => i = j
  BY <1>1 DEF NamesRead
<1>4. next \in 1 .. Len(graph.edges) /\ next \in DOMAIN graph.edges
  BY <1>1, <1>2, <1>3
<1>5. e[1] \in Nat /\ e[2] \in Nat
  BY <1>2, <1>4
<1> HIDE DEF e
<1>6. /\ first \in Seq(Nat) /\ \A i, j \in DOMAIN first : first[i] = first[j] => i = j
      /\ InList(first) = InList(names) \cup {e[1]}
  BY <1>3, <1>5, NamedIs
<1> HIDE DEF first
<1>7. /\ names' \in Seq(Nat) /\ \A i, j \in DOMAIN names' : names'[i] = names'[j] => i = j
      /\ InList(names') = InList(names) \cup {e[1], e[2]}
  <2>1. /\ Named(first, e[2]) \in Seq(Nat)
        /\ \A i, j \in DOMAIN Named(first, e[2]) : Named(first, e[2])[i] = Named(first, e[2])[j] => i = j
        /\ InList(Named(first, e[2])) = InList(first) \cup {e[2]}
    BY <1>5, <1>6, NamedIs
  <2> QED
    BY <1>1, <1>6, <2>1
<1>8. NamesUpTo(next) = NamesUpTo(next - 1) \cup {e[1], e[2]}
  <2>1. 1 .. next = 1 .. next - 1 \cup {next}
    BY <1>4
  <2> QED
    BY <2>1 DEF NamesUpTo, e
<1>9. InList(names)' = NamesUpTo(next - 1)'
  <2>1. NamesUpTo(next - 1)' = NamesUpTo(next)
    <3>1. next' - 1 = next
      BY <1>1, <1>4
    <3> QED
      BY <1>1, <3>1 DEF NamesUpTo
  <2>2. InList(names)' = InList(names')
    BY DEF InList
  <2> QED
    BY <1>3, <1>7, <1>8, <2>1, <2>2
<1>10. next' \in 1 .. Len(graph'.edges) + 1
  BY <1>1, <1>2, <1>4
<1> QED
  BY <1>1, <1>7, <1>9, <1>10 DEF NamesRead

\* After load nobody changes the names.
LEMMA NamesKept ==
    ASSUME NamesRead, phase # "load", phase' # "load", UNCHANGED <<names, graph>>
    PROVE  NamesRead'
<1>1. InList(names)' = InList(names) /\ NamesOf(graph)' = NamesOf(graph)
  BY DEF InList, NamesOf
<1> QED
  BY <1>1 DEF NamesRead

LEMMA CountDegreesNames == ASSUME LayoutIInv, CountDegrees PROVE NamesRead'
<1> USE DEF LayoutIInv
<1>1. phase = "load" /\ next > Len(graph.edges) /\ phase' = "sort" /\ names' = names /\ graph' = graph
  BY DEF CountDegrees
<1>2. graph.edges \in Seq(Nat \X Nat)
  BY GraphAssumption
<1>3. next - 1 = Len(graph.edges) /\ InList(names) = NamesUpTo(next - 1)
  BY <1>1, <1>2 DEF NamesRead
<1>4. DOMAIN graph.edges = 1 .. next - 1
  BY <1>2, <1>3
<1>5. InList(names) = NamesOf(graph)
  BY <1>3, <1>4 DEF NamesUpTo, NamesOf
<1>6. InList(names)' = InList(names) /\ NamesOf(graph)' = NamesOf(graph)
  BY <1>1 DEF InList, NamesOf
<1> QED
  BY <1>1, <1>5, <1>6 DEF NamesRead
-----------------------------------------------------------------------------
(* The layout: the partitions                                              *)

\* What is computed from the number of vertices stays the same with the names.
LEMMA LaidKept ==
    ASSUME NEW m, LaidUpTo(m), UNCHANGED <<names, bits, offsets, parts>>
    PROVE  LaidUpTo(m)'
<1>1. VNum' = VNum
  BY DEF VNum
<1>2. \A g : PartsOf(g)' = PartsOf(g)
  BY <1>1 DEF PartsOf
<1> QED
  BY <1>1, <1>2 DEF LaidUpTo

\* A group's partitions, as make cuts them.
LEMMA PartsOfIs ==
    ASSUME VNum \in Nat \ {0}, WholeGroupsFit(VNum),
           bits \in [0 .. GroupNum(VNum) - 1 -> PartitionBits(VNum)],
           NEW g \in 0 .. GroupNum(VNum) - 1
    PROVE  /\ PartsOf(g) \in Seq([begin : Int, end : Int])
           /\ Len(PartsOf(g)) = PartitionsOf(VNum, g, bits[g])
           /\ DOMAIN PartsOf(g) = 1 .. PartitionsOf(VNum, g, bits[g])
<1> DEFINE S == [begin : Int, end : Int]
           n == PartitionsOf(VNum, g, bits[g])
<1>1. bits[g] \in PartitionBits(VNum)
  OBVIOUS
<1>2. n \in Nat /\ TwoTo[bits[g]] \in Nat
  BY <1>1, PartitionsOfGroup
<1>3. GroupBegin(VNum, g) \in Int
  BY GroupEnds
<1>4. ASSUME NEW i \in 1 .. n
      PROVE  [begin |-> GroupBegin(VNum, g) + (i - 1) * TwoTo[bits[g]],
              end   |-> Least(GroupBegin(VNum, g) + i * TwoTo[bits[g]], VNum)] \in S
  <2>1. (i - 1) * TwoTo[bits[g]] \in Int /\ i * TwoTo[bits[g]] \in Int
    BY <1>2
  <2> QED
    BY <1>3, <2>1 DEF Least
<1>5. PartsOf(g) \in [1 .. n -> S]
  BY <1>4 DEF PartsOf
<1> HIDE DEF n, S
<1>6. PartsOf(g) \in Seq(S) /\ Len(PartsOf(g)) = n /\ DOMAIN PartsOf(g) = 1 .. n
  BY <1>2, <1>5, FunctionIsSeq
<1> QED
  BY <1>6 DEF n, S

\* The partitions of the next group go where its offset says.
LEMMA AddGroupLaid ==
    ASSUME LayoutIInv, AddGroup, VNum \in Nat \ {0}, WholeGroupsFit(VNum)
    PROVE  next' \in 0 .. GroupNum(VNum) /\ LaidUpTo(next)'
<1> USE DEF LayoutIInv
<1> DEFINE num == GroupNum(VNum)
           S == [begin : Int, end : Int]
           m == next
           Count(g) == PartitionsOf(VNum, g, bits[g])
           new == PartsOf(m)
<1>1. /\ phase = "groups" /\ next < num
      /\ offsets' = [g \in 0 .. m |-> IF g = m THEN Offset(g) ELSE offsets[g]]
      /\ parts' = parts \o new /\ next' = next + 1
      /\ UNCHANGED <<names, bits>>
  BY DEF AddGroup
<1>2. next \in 0 .. num /\ LaidUpTo(m) /\ bits \in [0 .. num - 1 -> PartitionBits(VNum)]
  BY <1>1 DEF GroupsLaid, Sorted
<1>3. num \in Nat
  BY GroupBitsType, CeilDivIs DEF GroupNum
<1>4. m \in 0 .. num - 1 /\ next' \in 0 .. num
  BY <1>1, <1>2, <1>3
<1>5. new \in Seq(S) /\ Len(new) = Count(m) /\ Count(m) \in Nat /\ DOMAIN new = 1 .. Count(m)
  <2>1. new \in Seq(S) /\ Len(new) = Count(m) /\ DOMAIN new = 1 .. Count(m)
    BY <1>2, <1>4, PartsOfIs
  <2> QED
    BY <2>1
<1>6. Len(parts) = Offset(m) /\ Offset(m) \in Nat
  <2>1. CASE m = 0
    BY <1>2, <2>1 DEF LaidUpTo, Offset
  <2>2. CASE m # 0
    <3>1. m - 1 \in 0 .. num - 1 /\ m - 1 # num - 1
      BY <1>3, <1>4, <2>2
    <3>2. bits[m - 1] \in PartitionBits(VNum)
      BY <1>2, <3>1
    <3>3. Count(m - 1) = TwoTo[GroupBits(VNum) - bits[m - 1]] /\ Count(m - 1) \in Nat
      BY <3>1, <3>2, PartitionsOfGroup
    <3>4. m - 1 \in 0 .. m - 1
      BY <1>4, <2>2
    <3>5. offsets[m - 1] \in Nat /\ Len(parts) = offsets[m - 1] + Count(m - 1)
      BY <1>2, <2>2, <3>4 DEF LaidUpTo
    <3> QED
      BY <2>2, <3>3, <3>5 DEF Offset
  <2> QED
    BY <2>1, <2>2
<1>7. /\ DOMAIN offsets' = 0 .. m /\ offsets'[m] = Offset(m)
      /\ \A g \in 0 .. m - 1 : offsets'[g] = offsets[g]
  BY <1>1, <1>4
<1>8. \A g : PartitionsOf(VNum, g, bits[g])' = Count(g) /\ PartsOf(g)' = PartsOf(g)
  BY <1>1 DEF VNum, PartsOf
<1> DEFINE k == Offset(m)
<1> HIDE DEF new, Count, num, S, k
<1>9. /\ parts \in Seq(S) /\ DOMAIN parts = 1 .. k
      /\ parts' \in Seq(S) /\ Len(parts') = k + Count(m) /\ DOMAIN parts' = 1 .. k + Count(m)
      /\ \A q \in 1 .. k : parts'[q] = parts[q]
      /\ \A i \in 1 .. Count(m) : parts'[k + i] = new[i]
  <2>1. parts \in Seq(S) /\ Len(parts) = k /\ k \in Nat
    BY <1>2, <1>6 DEF LaidUpTo, S, k
  <2> DEFINE n == Count(m)
  <2>2. n \in Nat /\ Len(new) = n
    BY <1>5
  <2> HIDE DEF m, n
  <2>3. /\ parts \o new \in Seq(S) /\ Len(parts \o new) = k + n
        /\ \A q \in 1 .. k + n : (parts \o new)[q] = IF q <= k THEN parts[q] ELSE new[q - k]
    BY <1>5, <2>1, <2>2, ConcatProperties
  <2>4. \A i \in 1 .. n : k + i \in 1 .. k + n /\ ~(k + i <= k) /\ (k + i) - k = i
    BY <2>1, <2>2
  <2>5. \A i \in 1 .. n : parts'[k + i] = new[i]
    BY <1>1, <2>3, <2>4
  <2>6. \A q \in 1 .. k : q \in 1 .. k + n /\ q <= k
    BY <2>1, <2>2
  <2>7. \A q \in 1 .. k : parts'[q] = parts[q]
    BY <1>1, <2>3, <2>6
  <2> QED
    BY <1>1, <2>1, <2>2, <2>3, <2>5, <2>7 DEF n
<1>10. ASSUME NEW g \in 0 .. m, NEW i \in 1 .. Count(g)
       PROVE  offsets'[g] + i \in DOMAIN parts' /\ parts'[offsets'[g] + i] = PartsOf(g)[i]
  <2>1. CASE g = m
    BY <1>5, <1>6, <1>7, <1>9, <1>10, <2>1 DEF new, k
  <2>2. CASE g # m
    <3>1. g \in 0 .. m - 1
      BY <1>4, <2>2
    <3>2. offsets[g] + i \in DOMAIN parts /\ parts[offsets[g] + i] = PartsOf(g)[i]
      BY <1>2, <1>10, <3>1 DEF LaidUpTo, Count
    <3> QED
      BY <1>5, <1>6, <1>7, <1>9, <3>1, <3>2 DEF k
  <2> QED
    BY <2>1, <2>2
<1>11. ASSUME NEW q \in DOMAIN parts'
       PROVE  \E g \in 0 .. m : \E i \in 1 .. Count(g) : q = offsets'[g] + i
  <2>1. CASE q \in 1 .. k
    <3>1. PICK g \in 0 .. m - 1 : \E i \in 1 .. Count(g) : q = offsets[g] + i
      BY <1>2, <1>9, <2>1 DEF LaidUpTo, Count
    <3>2. g \in 0 .. m
      BY <1>4
    <3> QED
      BY <1>7, <3>1, <3>2
  <2>2. CASE q \notin 1 .. k
    <3>1. q \in 1 .. k + Count(m) /\ k \in Nat
      BY <1>6, <1>9 DEF k
    <3>2. q - k \in 1 .. Count(m) /\ q = k + (q - k) /\ m \in 0 .. m
      BY <1>4, <1>5, <2>2, <3>1
    <3> QED
      BY <1>7, <3>2 DEF k
  <2> QED
    BY <2>1, <2>2
<1>12. LaidUpTo(next)'
  <2>1. next' - 1 = m /\ next' # 0
    BY <1>1, <1>4
  <2>2. \A g \in 0 .. m : offsets'[g] \in Nat
    <3> SUFFICES ASSUME NEW g \in 0 .. m PROVE offsets'[g] \in Nat
      OBVIOUS
    <3>1. g = m \/ g \in 0 .. m - 1
      BY <1>4
    <3> QED
      BY <1>2, <1>6, <1>7, <3>1 DEF LaidUpTo
  <2>3. Len(parts') = offsets'[m] + Count(m)
    BY <1>7, <1>9 DEF k
  <2>4. VNum' = VNum /\ bits' = bits
    BY <1>1 DEF VNum
  <2> QED
    <3>1. parts' \in Seq([begin : Int, end : Int])
      BY <1>9 DEF S
    <3>2. DOMAIN offsets' = 0 .. next' - 1 /\ \A g \in 0 .. next' - 1 : offsets'[g] \in Nat
      BY <1>7, <2>1, <2>2
    <3>3. Len(parts') = IF next' = 0 THEN 0
                        ELSE offsets'[next' - 1] + PartitionsOf(VNum', next' - 1, bits'[next' - 1])
      BY <2>1, <2>3, <2>4 DEF Count
    <3>4. \A g \in 0 .. next' - 1 : \A i \in 1 .. PartitionsOf(VNum', g, bits'[g]) :
             offsets'[g] + i \in DOMAIN parts' /\ parts'[offsets'[g] + i] = PartsOf(g)'[i]
      BY <1>8, <1>10, <2>1, <2>4 DEF Count
    <3>5. \A q \in DOMAIN parts' :
             \E g \in 0 .. next' - 1 : \E i \in 1 .. PartitionsOf(VNum', g, bits'[g]) : q = offsets'[g] + i
      BY <1>11, <2>1, <2>4 DEF Count
    <3> QED
      BY <3>1, <3>2, <3>3, <3>4, <3>5 DEF LaidUpTo
<1> QED
  BY <1>4, <1>12 DEF num
-----------------------------------------------------------------------------
(* The layout: the steps                                                   *)

\* After load there are vertices, and they fit.
LEMMA VerticesFit ==
    ASSUME GroupsFit, LayoutIInv, phase # "load"
    PROVE  VNum \in Nat \ {0} /\ WholeGroupsFit(VNum)
<1>1. graph \in RawGraphs /\ VNum \in Nat \ {0} /\ VNum = Cardinality(NamesOf(graph))
  BY VNumIs DEF LayoutIInv
<1> QED
  BY <1>1 DEF GroupsFit

\* What comes after the groups leaves the partitions alone.
LEMMA LaterKept ==
    ASSUME LayoutIInv, phase \in {"shuffle", "fill", "done"}, phase' \in {"shuffle", "fill", "done"},
           UNCHANGED <<graph, names, bits, offsets, parts>>
    PROVE  LayoutIInv'
<1> USE DEF LayoutIInv
<1>1. NamesRead'
  BY NamesKept
<1>2. VNum' = VNum
  BY DEF VNum
<1>3. LaidUpTo(GroupNum(VNum)) /\ bits \in [0 .. GroupNum(VNum) - 1 -> PartitionBits(VNum)]
  BY DEF GroupsLaid, Sorted
<1> DEFINE m == GroupNum(VNum)
<1>4. m' = m
  BY <1>2
<1> HIDE DEF m
<1>5. LaidUpTo(m)'
  <2>1. \A k : LaidUpTo(k) => LaidUpTo(k)'
    BY LaidKept
  <2>2. LaidUpTo(m)
    BY <1>3 DEF m
  <2> QED
    BY <1>4, <2>1, <2>2 DEF LaidUpTo
<1>6. GroupsLaid'
  BY <1>2, <1>3, <1>5 DEF GroupsLaid, m
<1> QED
  BY <1>1, <1>6

LEMMA LayoutInit == ASSUME GraphInit PROVE LayoutIInv
<1> USE DEF GraphInit
<1>1. Len(graph.edges) \in Nat
  BY GraphAssumption
<1>2. InList(names) = {} /\ NamesUpTo(next - 1) = {}
  BY DEF InList, NamesUpTo
<1>3. NamesRead
  <2>1. names \in Seq(Nat) /\ DOMAIN names = {} /\ next \in 1 .. Len(graph.edges) + 1
    BY <1>1
  <2> QED
    BY <1>2, <2>1 DEF NamesRead
<1>4. GroupsLaid
  BY DEF GroupsLaid, Sorted
<1> QED
  BY <1>3, <1>4 DEF LayoutIInv

LEMMA LayoutStep == ASSUME GroupsFit, LayoutIInv, [GraphNext]_graphVars PROVE LayoutIInv'
<1> USE DEF LayoutIInv
<1>1. CASE ReadEdge
  <2>1. NamesRead'
    BY <1>1, ReadEdgeNames
  <2>2. phase' = "load" /\ phase = "load" /\ UNCHANGED <<graph, parts, offsets>>
    BY <1>1 DEF ReadEdge, makeVars
  <2> QED
    BY <2>1, <2>2 DEF GroupsLaid, Sorted
<1>2. CASE CountDegrees
  <2>1. NamesRead'
    BY <1>2, CountDegreesNames
  <2>2. phase' = "sort" /\ phase = "load" /\ UNCHANGED <<graph, parts, offsets>>
    BY <1>2 DEF CountDegrees, makeVars
  <2> QED
    BY <2>1, <2>2 DEF GroupsLaid, Sorted
<1>3. CASE SortVertex
  <2>1. phase = "sort" /\ phase' = "sort" /\ UNCHANGED <<graph, names, parts, offsets>>
    BY <1>3 DEF SortVertex, makeVars
  <2>2. NamesRead'
    BY <2>1, NamesKept
  <2> QED
    BY <2>1, <2>2 DEF GroupsLaid, Sorted
<1>4. CASE TakeHints
  <2>1. /\ phase = "sort" /\ phase' = "groups" /\ next' = 0
        /\ bits' \in [0 .. GroupNum(VNum) - 1 -> PartitionBits(VNum)]
        /\ UNCHANGED <<graph, names, parts, offsets>>
    BY <1>4 DEF TakeHints
  <2>2. NamesRead'
    BY <2>1, NamesKept
  <2>3. VNum' = VNum /\ parts' = << >> /\ offsets' = << >>
    BY <2>1 DEF VNum, GroupsLaid
  <2>4. LaidUpTo(next)'
    <3>1. DOMAIN offsets' = 0 .. next' - 1 /\ next' = 0 /\ 0 .. next' - 1 = {}
      BY <2>1, <2>3
    <3>2. parts' \in Seq([begin : Int, end : Int]) /\ Len(parts') = 0 /\ DOMAIN parts' = {}
      BY <2>3
    <3> QED
      BY <3>1, <3>2 DEF LaidUpTo
  <2>5. GroupNum(VNum) \in Nat
    <3>1. VNum \in Nat \ {0}
      BY <2>1, VNumIs
    <3> QED
      BY <3>1, GroupBitsType, CeilDivIs DEF GroupNum
  <2>6. next' \in 0 .. GroupNum(VNum)
    BY <2>1, <2>5
  <2>7. GroupsLaid'
    BY <2>1, <2>3, <2>4, <2>6 DEF GroupsLaid, Sorted
  <2> QED
    BY <2>1, <2>2, <2>7
<1>5. CASE AddGroup
  <2>1. phase = "groups" /\ phase' = "groups" /\ UNCHANGED <<graph, names, bits>>
    BY <1>5 DEF AddGroup
  <2>2. NamesRead'
    BY <2>1, NamesKept
  <2>3. next' \in 0 .. GroupNum(VNum) /\ LaidUpTo(next)'
    BY <1>5, <2>1, VerticesFit, AddGroupLaid
  <2>4. VNum' = VNum
    BY <2>1 DEF VNum
  <2>5. bits \in [0 .. GroupNum(VNum) - 1 -> PartitionBits(VNum)]
    BY <2>1 DEF GroupsLaid, Sorted
  <2>6. GroupsLaid'
    BY <2>1, <2>3, <2>4, <2>5 DEF GroupsLaid, Sorted
  <2> QED
    BY <2>1, <2>2, <2>6
<1>6. CASE StartShuffle
  <2>1. /\ phase = "groups" /\ next = GroupNum(VNum) /\ phase' = "shuffle"
        /\ UNCHANGED <<graph, names, bits, offsets, parts>>
    BY <1>6 DEF StartShuffle
  <2>2. NamesRead'
    BY <2>1, NamesKept
  <2>3. VNum' = VNum
    BY <2>1 DEF VNum
  <2>4. LaidUpTo(GroupNum(VNum)) /\ bits \in [0 .. GroupNum(VNum) - 1 -> PartitionBits(VNum)]
    BY <2>1 DEF GroupsLaid, Sorted
  <2> DEFINE m == GroupNum(VNum)
  <2>5. m' = m
    BY <2>3
  <2> HIDE DEF m
  <2>6. LaidUpTo(m)'
    <3>1. PICK k : k = m /\ LaidUpTo(k)
      BY <2>4 DEF m
    <3>2. LaidUpTo(k)'
      BY <2>1, <3>1, LaidKept
    <3>3. k = m'
      BY <2>5, <3>1
    <3> QED
      BY <3>2, <3>3
  <2>7. GroupsLaid'
    BY <2>1, <2>3, <2>4, <2>6 DEF GroupsLaid, m
  <2> QED
    BY <2>1, <2>2, <2>7
<1>7. CASE PlaceVertex
  <2>1. /\ phase = "shuffle" /\ phase' = "shuffle"
        /\ UNCHANGED <<graph, names, bits, offsets, parts>>
    BY <1>7 DEF PlaceVertex
  <2> QED
    BY <2>1, LaterKept
<1>8. CASE StartFill
  <2>1. /\ phase = "shuffle" /\ phase' = "fill"
        /\ UNCHANGED <<graph, names, bits, offsets, parts>>
    BY <1>8 DEF StartFill, makeVars
  <2> QED
    BY <2>1, LaterKept
<1>9. CASE EndFill
  <2>1. /\ phase = "fill" /\ phase' = "done"
        /\ UNCHANGED <<graph, names, bits, offsets, parts>>
    BY <1>9 DEF EndFill, makeVars
  <2> QED
    BY <2>1, LaterKept
<1>10. ASSUME NEW t \in Team, FillStep(t) PROVE LayoutIInv'
  <2>1. /\ phase = "fill" /\ phase' = "fill"
        /\ UNCHANGED <<graph, names, bits, offsets, parts>>
    BY <1>10 DEF FillStep, ClaimSlot, WriteSlot, makeVars
  <2> QED
    BY <2>1, LaterKept
<1>11. CASE UNCHANGED graphVars
  <2>1. UNCHANGED <<phase, next, graph, names, bits, offsets, parts>>
    BY <1>11 DEF graphVars
  <2>2. InList(names)' = InList(names) /\ NamesUpTo(next - 1)' = NamesUpTo(next - 1)
        /\ NamesOf(graph)' = NamesOf(graph)
    BY <2>1 DEF InList, NamesUpTo, NamesOf
  <2>3. NamesRead'
    BY <2>1, <2>2 DEF NamesRead
  <2>4. CASE phase = "groups"
    <3>1. VNum' = VNum /\ LaidUpTo(next)
      BY <2>1, <2>4 DEF VNum, GroupsLaid
    <3>2. LaidUpTo(next)'
      <4>1. PICK k : k = next /\ LaidUpTo(k)
        BY <3>1
      <4>2. LaidUpTo(k)'
        BY <2>1, <4>1, LaidKept
      <4>3. k = next'
        BY <2>1, <4>1
      <4> QED
        BY <4>2, <4>3
    <3> QED
      BY <2>1, <2>3, <2>4, <3>1, <3>2 DEF GroupsLaid, Sorted
  <2>5. CASE phase \in {"shuffle", "fill", "done"}
    BY <2>1, <2>5, LaterKept
  <2>6. CASE phase \in {"load", "sort"}
    BY <2>1, <2>3, <2>6 DEF GroupsLaid, Sorted
  <2> QED
    BY <2>4, <2>5, <2>6
<1> QED
  BY <1>1, <1>2, <1>3, <1>4, <1>5, <1>6, <1>7, <1>8, <1>9, <1>10, <1>11
  DEF GraphNext, Serial, Finished
-----------------------------------------------------------------------------
(* The layout: the lookup                                                  *)

\* A partition of a group holds the vertices for which its number is computed, and no other.
LEMMA HoldsIs ==
    ASSUME VNum \in Nat \ {0}, WholeGroupsFit(VNum),
           LaidUpTo(GroupNum(VNum)), bits \in [0 .. GroupNum(VNum) - 1 -> PartitionBits(VNum)],
           NEW g \in 0 .. GroupNum(VNum) - 1, NEW i \in 1 .. PartitionsOf(VNum, g, bits[g]),
           NEW v \in Ids
    PROVE  /\ offsets[g] + i - 1 \in Partitions
           /\ Holds(offsets[g] + i - 1, v) <=>
                /\ v \div TwoTo[GroupBits(VNum)] = g
                /\ (v % TwoTo[GroupBits(VNum)]) \div TwoTo[bits[g]] = i - 1
<1> DEFINE whole == TwoTo[GroupBits(VNum)]
           size == TwoTo[bits[g]]
           most == TwoTo[GroupBits(VNum) - bits[g]]
           n == VNum
           p == offsets[g] + i - 1
<1>1. bits[g] \in PartitionBits(VNum)
  OBVIOUS
<1>2. /\ size \in Nat \ {0} /\ most \in Nat \ {0} /\ whole = size * most
      /\ PartitionsOf(VNum, g, bits[g]) \in Nat /\ PartitionsOf(VNum, g, bits[g]) <= most
  BY <1>1, PartitionsOfGroup
<1>3. GroupBegin(VNum, g) = g * whole
  BY GroupEnds
<1>4. offsets[g] \in Nat /\ offsets[g] + i \in DOMAIN parts /\ parts[offsets[g] + i] = PartsOf(g)[i]
  BY DEF LaidUpTo
<1>5. PartsOf(g)[i] = [begin |-> g * whole + (i - 1) * size, end |-> Least(g * whole + i * size, n)]
  BY <1>3 DEF PartsOf
<1>6. Len(parts) \in Nat /\ DOMAIN parts = 1 .. Len(parts)
  BY DEF LaidUpTo
<1>7. p \in Partitions /\ p + 1 = offsets[g] + i
  <2>1. PICK o \in Nat : o = offsets[g]
    BY <1>4
  <2>2. i \in Int /\ o + i \in 1 .. Len(parts) /\ Len(parts) \in Nat
    BY <1>2, <1>4, <1>6, <2>1
  <2>3. o + i - 1 \in 0 .. Len(parts) - 1 /\ (o + i - 1) + 1 = o + i
    BY <2>2
  <2> QED
    BY <2>1, <2>3 DEF Partitions
<1>8. i \in Nat /\ i - 1 \in Nat /\ i <= most /\ v \in Nat /\ v < n /\ n \in Nat /\ g \in Nat /\ whole \in Nat \ {0}
  <2>1. whole \in Nat \ {0}
    BY GroupBitsType
  <2> QED
    BY <1>2, <2>1 DEF Ids
<1> HIDE DEF size, whole, most
<1>9. /\ g * whole \in Nat /\ g * whole = whole * g
      /\ (i - 1) * size \in Nat /\ (i - 1) * size = size * (i - 1) /\ i * size = (i - 1) * size + size
  BY <1>2, <1>8, Z3
<1>10. i * size <= whole
  <2>1. PICK d \in Nat : most = i + d
    BY <1>2, <1>8
  <2>2. size * most = i * size + d * size /\ d * size \in Nat
    BY <1>2, <1>8, <2>1, Z3
  <2> QED
    BY <1>2, <1>9, <2>2
<1>11. Holds(p, v) <=> g * whole + (i - 1) * size <= v /\ v < g * whole + (i - 1) * size + size
  <2>1. parts[p + 1].begin = g * whole + (i - 1) * size
    BY <1>4, <1>5, <1>7
  <2>2. parts[p + 1].end = Least(g * whole + i * size, n)
    BY <1>4, <1>5, <1>7
  <2>3. v < Least(g * whole + i * size, n) <=> v < g * whole + i * size
    <3>1. g * whole + i * size \in Nat
      BY <1>2, <1>8, <1>9
    <3> QED
      BY <1>8, <3>1 DEF Least
  <2>4. Holds(p, v) <=> g * whole + (i - 1) * size <= v /\ v < g * whole + i * size
    BY <2>1, <2>2, <2>3 DEF Holds
  <2>5. g * whole + i * size = g * whole + (i - 1) * size + size
    BY <1>2, <1>8, <1>9
  <2> QED
    BY <2>4, <2>5
<1>12. ASSUME Holds(p, v) PROVE v \div whole = g /\ (v % whole) \div size = i - 1
  <2> DEFINE r == v - g * whole
             r2 == r - (i - 1) * size
  <2>1. r \in 0 .. whole - 1 /\ v = whole * g + r /\ r2 \in 0 .. size - 1 /\ r = size * (i - 1) + r2
    BY <1>2, <1>8, <1>9, <1>10, <1>11, <1>12
  <2> HIDE DEF r, r2
  <2>2. v \div whole = g /\ v % whole = r
    <3>1. r \in 0 .. whole - 1 /\ v = whole * g + r
      BY <2>1
    <3>2. v \in Nat /\ g \in Nat /\ whole \in Nat \ {0}
      BY <1>8
    <3> QED
      BY <3>1, <3>2, DivUnique
  <2>3. r \in Nat
    BY <1>8, <2>1
  <2>4. r \div size = i - 1
    BY <1>2, <1>8, <2>1, <2>3, DivUnique
  <2> QED
    BY <2>2, <2>4
<1>13. ASSUME v \div whole = g, (v % whole) \div size = i - 1 PROVE Holds(p, v)
  <2> DEFINE r == v % whole
             r2 == r % size
  <2>1. r \in 0 .. whole - 1 /\ v = whole * g + r
    BY <1>8, <1>13, DivMod
  <2>2. r \in Nat
    BY <1>8, <2>1
  <2>3. r2 \in 0 .. size - 1 /\ r = size * (i - 1) + r2
    BY <1>2, <1>13, <2>2, DivMod
  <2> HIDE DEF r, r2
  <2> QED
    BY <1>2, <1>8, <1>9, <1>11, <2>1, <2>3
<1> QED
  BY <1>7, <1>12, <1>13 DEF whole, size

\* A vertex lies in one of its group's partitions.
LEMMA PartitionOfVertex ==
    ASSUME VNum \in Nat \ {0}, WholeGroupsFit(VNum),
           bits \in [0 .. GroupNum(VNum) - 1 -> PartitionBits(VNum)],
           NEW v \in Ids
    PROVE  LET g == v \div TwoTo[GroupBits(VNum)]
               j == (v % TwoTo[GroupBits(VNum)]) \div TwoTo[bits[g]]
           IN  /\ g \in 0 .. GroupNum(VNum) - 1
               /\ j \in Nat /\ j + 1 \in 1 .. PartitionsOf(VNum, g, bits[g])
<1> DEFINE whole == TwoTo[GroupBits(VNum)]
           num == GroupNum(VNum)
           g == v \div whole
           r == v % whole
           size == TwoTo[bits[g]]
           n == VNum
           c == PartitionsOf(VNum, g, bits[g])
           j == r \div size
           length == GroupEnd(VNum, g) - GroupBegin(VNum, g)
<1>1. whole \in Nat \ {0} /\ v \in Nat /\ v < n /\ n \in Nat
  <2>1. whole \in Nat \ {0}
    BY GroupBitsType
  <2> QED
    BY <2>1 DEF Ids
<1>2. g \in Nat /\ r \in 0 .. whole - 1 /\ v = whole * g + r
  <2> HIDE DEF whole
  <2> QED
    BY <1>1, DivMod
<1>3. num \in Nat /\ n <= whole * num
  <2>1. num = CeilDiv(n, whole)
    BY DEF GroupNum
  <2> HIDE DEF num, whole
  <2> QED
    BY <1>1, <2>1, CeilDivIs
<1>4. g < num
  <2> HIDE DEF num, whole
  <2>1. whole * num \in Nat
    BY <1>1, <1>3, Z3
  <2>2. v < whole * num
    BY <1>1, <1>3, <2>1
  <2> QED
    BY <1>1, <1>3, <2>2, DivLess
<1>5. g \in 0 .. num - 1
  <2> HIDE DEF num, g
  <2> QED
    BY <1>2, <1>3, <1>4
<1>6. bits[g] \in PartitionBits(VNum)
  <2> HIDE DEF g
  <2> QED
    BY <1>5
<1>7. size \in Nat \ {0} /\ c \in Nat /\ length <= size * c
  <2> HIDE DEF g
  <2> QED
    BY <1>5, <1>6, PartitionsOfGroup
<1>8. length = Least(n, g * whole + whole) - g * whole
  <2> HIDE DEF g
  <2> QED
    BY <1>5, GroupEnds
<1> HIDE DEF g, r, size, whole, c, length
<1>9. r < length
  <2>1. g * whole \in Nat /\ whole * g = g * whole
    BY <1>1, <1>2, Z3
  <2> QED
    BY <1>1, <1>2, <1>8, <2>1 DEF Least
<1>10. r \in Nat /\ r < size * c
  <2>1. size * c \in Nat
    BY <1>7, Z3
  <2>2. length \in Int
    <3>1. g * whole \in Nat
      BY <1>1, <1>2, Z3
    <3> QED
      BY <1>1, <1>8, <3>1 DEF Least
  <2> QED
    BY <1>1, <1>2, <1>7, <1>9, <2>1, <2>2
<1>11. j \in Nat /\ j < c
  BY <1>7, <1>10, DivLess, DivMod
<1>12. j + 1 \in 1 .. c
  BY <1>7, <1>11
<1> QED
  BY <1>5, <1>11, <1>12 DEF g, r, size, whole, c

LEMMA LookupFollows == ASSUME GroupsFit, LayoutIInv PROVE LookupAgrees
<1> SUFFICES ASSUME phase \in {"shuffle", "fill", "done"}, NEW v \in Ids
             PROVE  {p \in Partitions : Holds(p, v)} = {GetVertexPartitionId(v)}
  BY DEF LookupAgrees
<1> DEFINE num == GroupNum(VNum)
           g == v \div TwoTo[GroupBits(VNum)]
           j == (v % TwoTo[GroupBits(VNum)]) \div TwoTo[bits[g]]
           Count(x) == PartitionsOf(VNum, x, bits[x])
<1>1. /\ VNum \in Nat \ {0} /\ WholeGroupsFit(VNum)
      /\ LaidUpTo(num) /\ bits \in [0 .. num - 1 -> PartitionBits(VNum)]
  <2>1. phase # "load"
    OBVIOUS
  <2> QED
    BY <2>1, VerticesFit DEF LayoutIInv, GroupsLaid, Sorted
<1>2. g \in 0 .. num - 1 /\ j \in Nat /\ j + 1 \in 1 .. Count(g)
  BY <1>1, PartitionOfVertex
<1>3. GetVertexPartitionId(v) = j + offsets[g]
  BY DEF GetVertexPartitionId
<1>4. ASSUME NEW x \in 0 .. num - 1, NEW i \in 1 .. Count(x)
      PROVE  /\ offsets[x] + i - 1 \in Partitions
             /\ Holds(offsets[x] + i - 1, v) <=>
                  g = x /\ (v % TwoTo[GroupBits(VNum)]) \div TwoTo[bits[x]] = i - 1
  <2> HIDE DEF num
  <2> QED
    BY <1>1, <1>4, HoldsIs DEF num
<1>5. \A x \in 0 .. num - 1 : offsets[x] \in Nat
  BY <1>1 DEF LaidUpTo
<1> HIDE DEF Count, num
<1>6. ASSUME NEW p \in Partitions, Holds(p, v) PROVE p = j + offsets[g]
  <2>1. p + 1 \in DOMAIN parts /\ p \in Int
    BY <1>1 DEF Partitions, LaidUpTo
  <2>2. PICK x \in 0 .. num - 1 : \E i \in 1 .. Count(x) : p + 1 = offsets[x] + i
    BY <1>1, <2>1 DEF LaidUpTo, Count
  <2>3. PICK i \in 1 .. Count(x) : p + 1 = offsets[x] + i
    BY <2>2
  <2>4. offsets[x] \in Nat /\ i \in Int
    BY <1>5
  <2>5. p = offsets[x] + i - 1
    BY <2>1, <2>3, <2>4
  <2>6. g = x /\ (v % TwoTo[GroupBits(VNum)]) \div TwoTo[bits[x]] = i - 1
    BY <1>4, <1>6, <2>5
  <2>7. j = i - 1
    BY <2>6
  <2> HIDE DEF j, g
  <2> QED
    BY <2>4, <2>5, <2>6, <2>7
<1>7. j + offsets[g] \in Partitions /\ Holds(j + offsets[g], v)
  <2>1. offsets[g] + (j + 1) - 1 = j + offsets[g]
    <3> HIDE DEF g, j
    <3> QED
      BY <1>2, <1>5
  <2>2. j = (j + 1) - 1
    <3> HIDE DEF j, g
    <3> QED
      BY <1>2
  <2>3. /\ offsets[g] + (j + 1) - 1 \in Partitions
        /\ Holds(offsets[g] + (j + 1) - 1, v) <=> g = g /\ j = (j + 1) - 1
    <3>1. PICK i : i = j + 1
      OBVIOUS
    <3>2. /\ offsets[g] + i - 1 \in Partitions
          /\ Holds(offsets[g] + i - 1, v) <=> g = g /\ j = i - 1
      BY <1>2, <1>4, <3>1
    <3> QED
      BY <3>1, <3>2
  <2> HIDE DEF g, j
  <2> QED
    BY <2>1, <2>2, <2>3
<1> HIDE DEF g, j
<1> QED
  BY <1>3, <1>6, <1>7

(***************************************************************************)
(* In every state of the layout the names that were read have one id each, *)
(* and the partitions of the groups laid so far stand behind one another,  *)
(* from the group's offset on.  When the vertices did not fit, the end of  *)
(* a group and with it the number of its partitions would wrap around.     *)
(***************************************************************************)
THEOREM LayoutInvariant ==
    ASSUME GroupsFit PROVE GraphSpec => []LayoutIInv
<1>1. GraphInit => LayoutIInv
  BY LayoutInit
<1>2. LayoutIInv /\ [GraphNext]_graphVars => LayoutIInv'
  BY LayoutStep
<1> QED
  BY <1>1, <1>2, PTL DEF GraphSpec

(***************************************************************************)
(* get_vertex_partition_id names, for every vertex, the one partition that *)
(* make gave it to, whatever sizes of partitions the hints chose.          *)
(***************************************************************************)
THEOREM LookupIsRight ==
    ASSUME GroupsFit PROVE GraphSpec => []LookupAgrees
<1>1. LayoutIInv => LookupAgrees
  BY LookupFollows
<1> QED
  BY <1>1, LayoutInvariant, PTL
-----------------------------------------------------------------------------
(* The layout: the inductive invariant of sorting, shuffling and filling   *)

\* counting_sort counts the ids that precede one: by degree, and as they come among equals.
Precedes(i, id) == degree[i] < degree[id] \/ (degree[i] = degree[id] /\ i < id)
Rank(id)        == Cardinality({i \in Ids : Precedes(i, id)})

\* The ids of less degree than id, and those before next of the same degree.
Smaller(id) == {i \in Ids : degree[i] < degree[id]}
Passed(id)  == {i \in Ids : i < next /\ degree[i] = degree[id]}

DegreesCounted ==
    /\ degree = [id \in Ids |-> DegreeOf(id)]
    /\ degree \in [Ids -> Nat \ {0}]
    /\ \A id \in Ids : degree[id] - 1 \in DOMAIN counters
    /\ \A d \in DOMAIN counters : counters[d] \in 0 .. VNum

\* Every id up to next has its place, counted from the end.
SortedSoFar ==
    /\ next \in 0 .. VNum
    /\ \A id \in Ids : counters[degree[id] - 1] = Cardinality(Smaller(id)) + Cardinality(Passed(id))
    /\ \A id \in 0 .. next - 1 : units[VNum - 1 - Rank(id)] = id

\* All ids in the order of their degrees, the greatest first.
Falling(list) ==
    /\ list \in [Ids -> Ids]
    /\ \A u, v \in Ids : list[u] = list[v] => u = v
    /\ \A id \in Ids : \E v \in Ids : list[v] = id
    /\ \A u, v \in Ids : u < v => degree[list[u]] >= degree[list[v]]

\* The partitions of the first group are of one size; the shuffled ones are among them.
FirstSize   == TwoTo[bits[0]]
FirstGroup  == PartitionsOf(VNum, 0, bits[0])
ShuffledAll == shuffleNum = Least(ThreadNum, FirstGroup) /\ offsets[0] = 0

\* The vertex at position v was the Turn(v)-th to be dealt out.
Dealt     == shuffleNum * FirstSize
Turn(v)   == LET p == v \div FirstSize
                 r == v % FirstSize
             IN  shuffleNum * r + (IF r % 2 = 0 THEN p ELSE shuffleNum - 1 - p)
Source(v) == IF v < Dealt THEN Turn(v) ELSE v

\* Partition p had its turn in the round of vertex k already.
HadTurn(p, k) ==
    IF (k \div shuffleNum) % 2 = 0 THEN p <= k % shuffleNum ELSE p > shuffleNum - (k % shuffleNum)

ShuffledSoFar ==
    /\ next \in 0 .. Dealt
    /\ room = [p \in 1 .. shuffleNum |->
                  (p - 1) * FirstSize + (next \div shuffleNum) + (IF HadTurn(p, next) THEN 1 ELSE 0)]
    /\ \A v \in Ids : v >= Dealt \/ Turn(v) < next => units[v] = sorted[Source(v)]

OrderInv ==
    /\ phase # "load" => DegreesCounted /\ units \in [Ids -> Ids]
    /\ phase = "sort" => SortedSoFar
    /\ phase \in {"load", "sort"} => shuffleNum = 0
    /\ phase = "groups" => Falling(units) /\ (IF next = 0 THEN shuffleNum = 0 ELSE ShuffledAll)
    /\ phase \in {"shuffle", "fill", "done"} => Falling(sorted) /\ ShuffledAll
    /\ phase = "shuffle" => ShuffledSoFar
    /\ Laid => \A v \in Ids : units[v] = sorted[Source(v)]

\* The half edges, and those that are in the lists or on their way there.
HalfEdges == 0 .. Halves * Len(graph.edges) - 1
Written   == UNION {FirstHalf(t) .. half[t] - 1 : t \in Team}
Claimed   == Written \cup {half[t] : t \in {r \in Team : slot[r] # None}}

\* Each thread works off its half edges.
OwnHalves ==
    \A t \in Team : /\ half[t] \in FirstHalf(t) .. FirstHalf(t + 1)
                    /\ slot[t] # None => half[t] < FirstHalf(t + 1)

\* place is where each claimed half edge goes.
PlacedIn(place) ==
    /\ \A v \in Ids : cursor[v] = ListBegin(v) + Cardinality({h \in Claimed : From(h) = v})
    /\ \A h \in Claimed : place[h] \in ListBegin(From(h)) .. cursor[From(h)] - 1
    /\ \A g, h \in Claimed : From(g) = From(h) /\ place[g] = place[h] => g = h
    /\ \A t \in Team : slot[t] # None => slot[t] = place[half[t]]
    /\ \A h \in Written : edges[VertexSocket(From(h))][place[h]] = To(h)
    /\ \A s \in Sockets : \A i \in DOMAIN edges[s] :
          \/ edges[s][i] = None
          \/ \E h \in Written : VertexSocket(From(h)) = s /\ place[h] = i

FillInv ==
    /\ half \in [Team -> Nat] /\ slot \in [Team -> Nat \cup {None}]
    /\ ~Laid => \A t \in Team : slot[t] = None
    /\ Laid => /\ next \in Nat
               /\ OwnHalves
               /\ cursor \in [Ids -> Nat]
               /\ DOMAIN edges = Sockets
               /\ \A s \in Sockets : edges[s] \in [0 .. EdgesAt(s, VNum) - 1 -> Ids \cup {None}]
               /\ \E place \in [HalfEdges -> Nat] : PlacedIn(place)
    /\ phase = "done" => \A t \in Team : slot[t] = None /\ half[t] = FirstHalf(t + 1)
-----------------------------------------------------------------------------
(* The layout: finite sets of numbers                                      *)

\* A finite set of integers has a greatest one.
LEMMA MaxIs ==
    ASSUME NEW S \in SUBSET Int, IsFiniteSet(S), S # {}
    PROVE  Max(S) \in S /\ \A x \in S : x <= Max(S)
<1> DEFINE Good(T) == \E m \in T : \A x \in T : x <= m
           Sizes == {n \in Nat : \A T \in SUBSET Int :
                        IsFiniteSet(T) /\ Cardinality(T) = n + 1 => Good(T)}
<1>1. 0 \in Sizes
  <2> SUFFICES ASSUME NEW T \in SUBSET Int, IsFiniteSet(T), Cardinality(T) = 0 + 1 PROVE Good(T)
    OBVIOUS
  <2>1. Cardinality(T) = 1
    OBVIOUS
  <2>2. PICK x : T = {x}
    BY <2>1, FS_Singleton
  <2>3. x \in T /\ x \in Int /\ \A z \in T : z = x
    BY <2>2
  <2> QED
    BY <2>3
<1>2. ASSUME NEW n \in Nat, n \in Sizes PROVE n + 1 \in Sizes
  <2> SUFFICES ASSUME NEW T \in SUBSET Int, IsFiniteSet(T), Cardinality(T) = (n + 1) + 1 PROVE Good(T)
    OBVIOUS
  <2>1. PICK y \in T : TRUE
    <3>1. Cardinality(T) # 0
      OBVIOUS
    <3>2. T # {}
      BY <3>1, FS_EmptySet
    <3> QED
      BY <3>2
  <2> DEFINE R == T \ {y}
  <2>2. IsFiniteSet(R) /\ Cardinality(R) = n + 1 /\ R \in SUBSET Int
    <3>1. IsFiniteSet(R) /\ Cardinality(R) = Cardinality(T) - 1
      BY <2>1, FS_RemoveElement
    <3>2. (n + 1) + 1 - 1 = n + 1
      OBVIOUS
    <3> QED
      BY <3>1, <3>2
  <2>3. PICK m \in R : \A x \in R : x <= m
    BY <1>2, <2>2
  <2>4. m \in T /\ m \in Int /\ y \in Int /\ \A x \in T : x \in Int /\ (x = y \/ x <= m)
    BY <2>1, <2>3
  <2>5. CASE y <= m
    BY <2>4, <2>5
  <2>6. CASE y > m
    <3>1. \A x \in T : x <= y
      BY <2>4, <2>6
    <3> QED
      BY <2>1, <3>1
  <2> QED
    BY <2>4, <2>5, <2>6
<1> HIDE DEF Sizes
<1>3. Nat \subseteq Sizes
  BY <1>1, <1>2, Induction
<1>4. Cardinality(S) \in Nat /\ Cardinality(S) # 0
  BY FS_CardinalityType, FS_EmptySet
<1>5. PICK n \in Nat : Cardinality(S) = n + 1
  <2>1. Cardinality(S) - 1 \in Nat /\ Cardinality(S) = (Cardinality(S) - 1) + 1
    BY <1>4
  <2> QED
    BY <2>1
<1>6. PICK m \in S : \A x \in S : x <= m
  BY <1>3, <1>5 DEF Sizes
<1>7. m >= m /\ \A x \in S : m >= x
  BY <1>6
<1>8. Max(S) \in S /\ \A x \in S : Max(S) >= x
  BY <1>7, Zenon DEF Max
<1> QED
  BY <1>8

\* What maps the first n numbers to each other and merges none of them leaves none out.
LEMMA OntoInterval ==
    ASSUME NEW n \in Nat, NEW q \in [0 .. n - 1 -> 0 .. n - 1],
           \A u, v \in 0 .. n - 1 : q[u] = q[v] => u = v
    PROVE  \A x \in 0 .. n - 1 : \E v \in 0 .. n - 1 : q[v] = x
<1> DEFINE S == 0 .. n - 1
<1>1. IsFiniteSet(S)
  BY FS_Interval
<1>2. q \in Injection(S, S)
  BY DEF Injection, IsInjective
<1> HIDE DEF S
<1>3. q \in Surjection(S, S)
  BY <1>1, <1>2, FS_Injection
<1> QED
  BY <1>3 DEF Surjection, S
-----------------------------------------------------------------------------
(* The layout: counting_sort                                               *)

LEMMA IdsFinite == ASSUME VNum \in Nat PROVE IsFiniteSet(Ids) /\ Cardinality(Ids) = VNum
  BY FS_Interval DEF Ids

LEMMA RankType ==
    ASSUME VNum \in Nat, degree \in [Ids -> Nat], NEW id \in Ids
    PROVE  Rank(id) \in 0 .. VNum - 1
<1> DEFINE S == {i \in Ids : Precedes(i, id)}
<1>1. S \subseteq Ids \ {id}
  BY DEF Precedes, Ids
<1>2. IsFiniteSet(Ids \ {id}) /\ Cardinality(Ids \ {id}) = VNum - 1
  BY IdsFinite, FS_RemoveElement
<1>3. IsFiniteSet(S) /\ Cardinality(S) <= VNum - 1
  BY <1>1, <1>2, FS_Subset
<1>4. Cardinality(S) \in Nat
  BY <1>3, FS_CardinalityType
<1> HIDE DEF S
<1>5. Rank(id) = Cardinality(S)
  BY DEF Rank, S
<1> QED
  BY <1>3, <1>4, <1>5

LEMMA RankRises ==
    ASSUME VNum \in Nat, degree \in [Ids -> Nat], NEW i \in Ids, NEW id \in Ids, Precedes(i, id)
    PROVE  Rank(i) < Rank(id)
<1> DEFINE S == {j \in Ids : Precedes(j, i)}
           T == {j \in Ids : Precedes(j, id)}
<1>1. S \subseteq T \ {i}
  <2> SUFFICES ASSUME NEW j \in Ids, Precedes(j, i) PROVE Precedes(j, id) /\ j # i
    OBVIOUS
  <2>1. degree[i] \in Nat /\ degree[j] \in Nat /\ degree[id] \in Nat /\ i \in Int /\ j \in Int /\ id \in Int
    BY DEF Ids
  <2> QED
    BY <2>1 DEF Precedes
<1>2. IsFiniteSet(T)
  BY IdsFinite, FS_Subset
<1>3. i \in T
  OBVIOUS
<1>4. IsFiniteSet(T \ {i}) /\ Cardinality(T \ {i}) = Cardinality(T) - 1
  BY <1>2, <1>3, FS_RemoveElement
<1>5. IsFiniteSet(S) /\ Cardinality(S) <= Cardinality(T) - 1
  BY <1>1, <1>4, FS_Subset
<1>6. Cardinality(S) \in Nat /\ Cardinality(T) \in Nat
  BY <1>2, <1>5, FS_CardinalityType
<1>7. Rank(i) = Cardinality(S) /\ Rank(id) = Cardinality(T)
  BY DEF Rank
<1> HIDE DEF S, T
<1> QED
  BY <1>5, <1>6, <1>7

LEMMA RankUnique ==
    ASSUME VNum \in Nat, degree \in [Ids -> Nat], NEW i \in Ids, NEW id \in Ids, Rank(i) = Rank(id)
    PROVE  i = id
<1>1. degree[i] \in Nat /\ degree[id] \in Nat /\ i \in Int /\ id \in Int
  BY DEF Ids
<1>2. Rank(i) \in Int /\ Rank(id) \in Int
  BY RankType
<1>3. ~Precedes(i, id) /\ ~Precedes(id, i)
  BY <1>2, RankRises
<1> QED
  BY <1>1, <1>3 DEF Precedes

\* The counter that next goes by is the number of ids that precede it.
LEMMA CounterIsRank ==
    ASSUME VNum \in Nat, degree \in [Ids -> Nat], next \in Ids
    PROVE  Cardinality(Smaller(next)) + Cardinality(Passed(next)) = Rank(next)
<1> DEFINE S == Smaller(next)
           T == Passed(next)
           R == {i \in Ids : Precedes(i, next)}
<1>1. R = S \cup T /\ S \cap T = {}
  <2>1. \A i \in Ids : degree[i] \in Nat
    OBVIOUS
  <2> QED
    BY <2>1 DEF Precedes, Smaller, Passed
<1>2. S \subseteq Ids /\ T \subseteq Ids
  BY DEF Smaller, Passed
<1> HIDE DEF S, T
<1>3. IsFiniteSet(S) /\ IsFiniteSet(T)
  BY <1>2, IdsFinite, FS_Subset
<1>4. Cardinality(S) \in Nat /\ Cardinality(T) \in Nat
  BY <1>3, FS_CardinalityType
<1>5. Cardinality(R) = Cardinality(S) + Cardinality(T) - Cardinality({})
  BY <1>1, <1>3, FS_Union
<1>6. Cardinality({}) = 0
  BY FS_EmptySet
<1>7. Rank(next) = Cardinality(R)
  BY DEF Rank
<1> QED
  BY <1>4, <1>5, <1>6, <1>7 DEF S, T

\* The id of a name is where it stands in the list of names.
LEMMA IdOfName ==
    ASSUME names \in Seq(Nat), \A i, j \in DOMAIN names : names[i] = names[j] => i = j,
           NEW name \in InList(names)
    PROVE  /\ IdOf(name) \in Ids /\ names[IdOf(name) + 1] = name
           /\ \A id \in Ids : names[id + 1] = name => IdOf(name) = id
<1>1. PICK i \in DOMAIN names : names[i] = name
  BY DEF InList
<1> DEFINE j == CHOOSE k \in DOMAIN names : names[k] = name
<1>2. j \in DOMAIN names /\ names[j] = name
  BY <1>1, Zenon
<1>3. IdOf(name) = j - 1
  BY DEF IdOf
<1> HIDE DEF j
<1>4. DOMAIN names = 1 .. VNum /\ VNum \in Nat
  BY DEF VNum
<1>5. IdOf(name) \in Ids /\ IdOf(name) + 1 = j
  BY <1>2, <1>3, <1>4 DEF Ids
<1>6. ASSUME NEW id \in Ids, names[id + 1] = name PROVE IdOf(name) = id
  <2>1. id + 1 \in DOMAIN names /\ id \in Int
    BY <1>4 DEF Ids
  <2>2. id + 1 = j
    BY <1>2, <1>6, <2>1
  <2> QED
    BY <1>3, <2>1, <2>2
<1> QED
  BY <1>2, <1>5, <1>6

\* Every vertex has an edge that counts.
LEMMA DegreeType ==
    ASSUME graph \in RawGraphs, InList(names) = NamesOf(graph),
           names \in Seq(Nat), \A i, j \in DOMAIN names : names[i] = names[j] => i = j,
           NEW id \in Ids
    PROVE  DegreeOf(id) \in Nat \ {0}
<1> DEFINE E == DOMAIN graph.edges
           name == names[id + 1]
           S == {e \in E : IdOf(graph.edges[e][1]) = id}
           T == {e \in E : IdOf(graph.edges[e][2]) = id}
<1>1. graph.edges \in Seq(Nat \X Nat) /\ graph.undirected \in BOOLEAN
  BY GraphAssumption
<1>2. IsFiniteSet(E)
  <2>1. E = 1 .. Len(graph.edges) /\ Len(graph.edges) \in Nat
    BY <1>1
  <2> QED
    BY <2>1, FS_Interval
<1>3. IsFiniteSet(S) /\ IsFiniteSet(T)
  BY <1>2, FS_Subset
<1>4. Cardinality(S) \in Nat /\ Cardinality(T) \in Nat
  BY <1>3, FS_CardinalityType
<1>5. S # {} => Cardinality(S) # 0
  BY <1>3, FS_EmptySet
<1>6. T # {} => Cardinality(T) # 0
  BY <1>3, FS_EmptySet
<1>7. id + 1 \in DOMAIN names
  BY DEF Ids, VNum
<1>8. name \in NamesOf(graph)
  BY <1>7 DEF InList
<1>9. PICK i \in E : name \in {graph.edges[i][1], graph.edges[i][2]}
  BY <1>8 DEF NamesOf
<1>10. PICK j \in E : name = graph.edges[j][1] \/ (graph.undirected /\ name = graph.edges[j][2])
  BY <1>9, GraphAssumption
<1>11. IdOf(name) = id
  BY <1>8, IdOfName
<1>12. j \in S \/ (graph.undirected /\ j \in T)
  BY <1>10, <1>11
<1>13. DegreeOf(id) = Cardinality(S) + (IF graph.undirected THEN Cardinality(T) ELSE 0)
  BY DEF DegreeOf
<1> HIDE DEF S, T
<1>14. CASE graph.undirected
  <2>1. DegreeOf(id) = Cardinality(S) + Cardinality(T)
    BY <1>13, <1>14
  <2>2. Cardinality(S) # 0 \/ Cardinality(T) # 0
    BY <1>5, <1>6, <1>12
  <2> QED
    BY <1>4, <2>1, <2>2
<1>15. CASE ~graph.undirected
  <2>1. DegreeOf(id) = Cardinality(S) + 0
    BY <1>13, <1>15
  <2>2. Cardinality(S) # 0
    BY <1>5, <1>12, <1>15
  <2> QED
    BY <1>4, <2>1, <2>2
<1> QED
  BY <1>14, <1>15

\* What is counted stays the same with the names and the file.
LEMMA DegreesKept ==
    ASSUME DegreesCounted, UNCHANGED <<graph, names, degree, counters>>
    PROVE  DegreesCounted'
<1>1. Ids' = Ids /\ VNum' = VNum
  BY DEF Ids, VNum
<1>2. \A name : IdOf(name)' = IdOf(name)
  BY DEF IdOf
<1>3. \A id : DegreeOf(id)' = DegreeOf(id)
  BY <1>2 DEF DegreeOf
<1> QED
  BY <1>1, <1>3 DEF DegreesCounted

LEMMA CountDegreesOrder == ASSUME LayoutIInv, OrderInv, CountDegrees PROVE OrderInv'
<1>1. /\ phase = "load" /\ next > Len(graph.edges) /\ phase' = "sort" /\ next' = 0
      /\ degree' = [id \in Ids |-> DegreeOf(id)]
      /\ counters' = [d \in 0 .. Max({DegreeOf(id) : id \in Ids}) |->
                         Cardinality({id \in Ids : DegreeOf(id) <= d})]
      /\ units' = [p \in Ids |-> p]
      /\ graph' = graph /\ names' = names /\ shuffleNum' = shuffleNum
  BY DEF CountDegrees, makeVars
<1>2. /\ graph \in RawGraphs /\ InList(names) = NamesOf(graph) /\ names \in Seq(Nat)
      /\ \A i, j \in DOMAIN names : names[i] = names[j] => i = j
  <2>1. NamesRead' /\ graph \in RawGraphs
    BY CountDegreesNames DEF LayoutIInv
  <2>2. InList(names)' = InList(names) /\ NamesOf(graph)' = NamesOf(graph)
    BY <1>1 DEF InList, NamesOf
  <2> QED
    BY <1>1, <2>1, <2>2 DEF NamesRead
<1>3. VNum \in Nat /\ VNum' = VNum /\ Ids' = Ids /\ Ids = 0 .. VNum - 1
  BY <1>1, <1>2 DEF VNum, Ids
<1>4. \A id \in Ids : DegreeOf(id) \in Nat \ {0}
  BY <1>2, DegreeType
<1>5. degree' \in [Ids -> Nat \ {0}] /\ \A id \in Ids : degree'[id] = DegreeOf(id)
  BY <1>1, <1>4
<1> DEFINE D == {DegreeOf(id) : id \in Ids}
<1>6. \A id \in Ids : Max(D) \in Int /\ DegreeOf(id) <= Max(D)
  <2>1. D \in SUBSET Int
    BY <1>4
  <2>2. IsFiniteSet(D)
    <3> DEFINE deg == [id \in Ids |-> DegreeOf(id)]
    <3>1. deg \in Surjection(Ids, D)
      BY DEF Surjection
    <3>2. IsFiniteSet(Ids)
      BY <1>3, IdsFinite
    <3> HIDE DEF deg, D
    <3> QED
      BY <3>1, <3>2, FS_Surjection
  <2> SUFFICES ASSUME NEW id \in Ids PROVE Max(D) \in Int /\ DegreeOf(id) <= Max(D)
    OBVIOUS
  <2>3. DegreeOf(id) \in D
    OBVIOUS
  <2> HIDE DEF D
  <2>4. Max(D) \in D /\ \A d \in D : d <= Max(D)
    BY <2>1, <2>2, <2>3, MaxIs
  <2> QED
    BY <2>1, <2>3, <2>4
<1>7. \A d \in DOMAIN counters' :
         counters'[d] = Cardinality({id \in Ids : DegreeOf(id) <= d}) /\ counters'[d] \in 0 .. VNum
  <2> SUFFICES ASSUME NEW d \in DOMAIN counters' PROVE Cardinality({id \in Ids : DegreeOf(id) <= d}) \in 0 .. VNum
    BY <1>1
  <2> DEFINE T == {id \in Ids : DegreeOf(id) <= d}
  <2>1. T \in SUBSET Ids
    OBVIOUS
  <2> HIDE DEF T
  <2>2. IsFiniteSet(T) /\ Cardinality(T) <= VNum
    BY <1>3, <2>1, IdsFinite, FS_Subset
  <2>3. Cardinality(T) \in Nat
    BY <2>2, FS_CardinalityType
  <2> QED
    BY <1>3, <2>2, <2>3 DEF T
<1>8. \A id \in Ids : degree'[id] - 1 \in DOMAIN counters'
  <2> SUFFICES ASSUME NEW id \in Ids PROVE degree'[id] - 1 \in DOMAIN counters'
    OBVIOUS
  <2>1. DOMAIN counters' = 0 .. Max(D)
    BY <1>1
  <2> HIDE DEF D
  <2> QED
    BY <1>4, <1>5, <1>6, <2>1
<1>9. DegreesCounted'
  <2>1. \A name : IdOf(name)' = IdOf(name)
    BY <1>1 DEF IdOf
  <2>2. \A id : DegreeOf(id)' = DegreeOf(id)
    BY <1>1, <2>1 DEF DegreeOf
  <2> QED
    BY <1>1, <1>3, <1>5, <1>7, <1>8, <2>2 DEF DegreesCounted
<1>10. SortedSoFar'
  <2>1. ASSUME NEW id \in Ids
        PROVE  counters'[degree'[id] - 1] = Cardinality(Smaller(id)') + Cardinality(Passed(id)')
    <3>1. Passed(id)' = {}
      BY <1>1, <1>3 DEF Passed
    <3>2. Smaller(id)' = {i \in Ids : DegreeOf(i) <= degree'[id] - 1}
      <4>1. ASSUME NEW i \in Ids PROVE degree'[i] < degree'[id] <=> DegreeOf(i) <= degree'[id] - 1
        BY <1>4, <1>5
      <4> QED
        BY <1>3, <4>1 DEF Smaller
    <3>3. counters'[degree'[id] - 1] = Cardinality(Smaller(id)') /\ counters'[degree'[id] - 1] \in Int
      BY <1>7, <1>8, <3>2
    <3>4. Cardinality({}) = 0
      BY FS_EmptySet
    <3> QED
      BY <3>1, <3>3, <3>4
  <2>2. 0 .. next' - 1 = {} /\ next' \in 0 .. VNum
    BY <1>1, <1>3
  <2> QED
    BY <1>3, <2>1, <2>2 DEF SortedSoFar
<1>11. units' \in [Ids -> Ids] /\ shuffleNum' = 0
  BY <1>1 DEF OrderInv
<1> QED
  BY <1>1, <1>3, <1>9, <1>10, <1>11 DEF OrderInv, Laid

LEMMA SortVertexOrder == ASSUME LayoutIInv, OrderInv, SortVertex PROVE OrderInv'
<1> DEFINE d == degree[next] - 1
           pos == counters[d]
<1>1. /\ phase = "sort" /\ phase' = "sort" /\ next < VNum /\ next' = next + 1
      /\ units' = [units EXCEPT ![VNum - pos - 1] = next]
      /\ counters' = [counters EXCEPT ![d] = @ + 1]
      /\ graph' = graph /\ names' = names /\ degree' = degree /\ shuffleNum' = shuffleNum
  BY DEF SortVertex, makeVars
<1>2. DegreesCounted /\ SortedSoFar /\ units \in [Ids -> Ids] /\ shuffleNum = 0
  BY <1>1 DEF OrderInv
<1>3. VNum \in Nat /\ VNum' = VNum /\ Ids' = Ids /\ Ids = 0 .. VNum - 1
  BY <1>1 DEF VNum, Ids, LayoutIInv, NamesRead
<1>4. degree \in [Ids -> Nat \ {0}] /\ degree \in [Ids -> Nat] /\ next \in Ids
  <2>1. degree \in [Ids -> Nat \ {0}]
    BY <1>2 DEF DegreesCounted
  <2>2. next \in 0 .. VNum
    BY <1>2 DEF SortedSoFar
  <2> QED
    BY <1>1, <1>3, <2>1, <2>2
<1>5. pos = Rank(next) /\ pos \in 0 .. VNum - 1
  BY <1>2, <1>3, <1>4, CounterIsRank, RankType DEF SortedSoFar
<1>6. d \in DOMAIN counters
  BY <1>2, <1>4 DEF DegreesCounted
<1>7. DOMAIN counters' = DOMAIN counters /\ counters'[d] = pos + 1
      /\ \A e \in DOMAIN counters : e # d => counters'[e] = counters[e]
  BY <1>1, <1>6
<1> HIDE DEF pos, d
<1>8. DegreesCounted'
  <2>1. \A name : IdOf(name)' = IdOf(name)
    BY <1>1 DEF IdOf
  <2>2. \A id : DegreeOf(id)' = DegreeOf(id)
    BY <1>1, <2>1 DEF DegreeOf
  <2>3. \A e \in DOMAIN counters' : counters'[e] \in 0 .. VNum
    <3> SUFFICES ASSUME NEW e \in DOMAIN counters PROVE counters'[e] \in 0 .. VNum
      BY <1>7
    <3>1. counters[e] \in 0 .. VNum
      BY <1>2 DEF DegreesCounted
    <3>2. CASE e = d
      BY <1>3, <1>5, <1>7, <3>2
    <3>3. CASE e # d
      BY <1>7, <3>1, <3>3
    <3> QED
      BY <3>2, <3>3
  <2> QED
    BY <1>1, <1>2, <1>3, <1>7, <2>2, <2>3 DEF DegreesCounted
<1>9. ASSUME NEW id \in Ids
      PROVE  counters'[degree[id] - 1] = Cardinality(Smaller(id)') + Cardinality(Passed(id)')
  <2>1. Smaller(id)' = Smaller(id)
    BY <1>1, <1>3 DEF Smaller
  <2>2. counters[degree[id] - 1] = Cardinality(Smaller(id)) + Cardinality(Passed(id))
        /\ degree[id] - 1 \in DOMAIN counters
    BY <1>2 DEF SortedSoFar, DegreesCounted
  <2>3. Passed(id)' = {i \in Ids : i < next + 1 /\ degree[i] = degree[id]}
    BY <1>1, <1>3 DEF Passed
  <2>4. \A i \in Ids : i < next + 1 <=> i < next \/ i = next
    BY <1>3, <1>4
  <2>5. degree[id] \in Nat /\ degree[next] \in Nat
    BY <1>4
  <2>6. CASE degree[id] # degree[next]
    <3>1. Passed(id)' = Passed(id)
      BY <2>3, <2>4, <2>6 DEF Passed
    <3>2. degree[id] - 1 # d
      BY <2>5, <2>6 DEF d
    <3> QED
      BY <1>7, <2>1, <2>2, <3>1, <3>2
  <2>7. CASE degree[id] = degree[next]
    <3>1. Passed(id)' = Passed(id) \cup {next}
      BY <1>4, <2>3, <2>4, <2>7 DEF Passed
    <3>2. next \notin Passed(id) /\ Passed(id) \in SUBSET Ids
      BY <1>4, <1>3 DEF Passed
    <3>3. IsFiniteSet(Passed(id))
      BY <1>3, <3>2, IdsFinite, FS_Subset
    <3>4. Cardinality(Passed(id)') = Cardinality(Passed(id)) + 1 /\ Cardinality(Passed(id)) \in Nat
      BY <3>1, <3>2, <3>3, FS_AddElement, FS_CardinalityType
    <3>5. degree[id] - 1 = d /\ counters[d] = pos
      BY <2>7 DEF d, pos
    <3>6. Smaller(id) \in SUBSET Ids
      BY DEF Smaller
    <3>7. Cardinality(Smaller(id)) \in Nat
      BY <1>3, <3>6, IdsFinite, FS_Subset, FS_CardinalityType
    <3> QED
      BY <1>7, <2>1, <2>2, <3>4, <3>5, <3>7
  <2> QED
    BY <2>6, <2>7
<1>10. ASSUME NEW id \in 0 .. next PROVE units'[VNum - 1 - Rank(id)] = id
  <2>1. id \in Ids /\ next \in Nat
    BY <1>3, <1>4
  <2>2. Rank(id) \in 0 .. VNum - 1
    BY <1>3, <1>4, <2>1, RankType
  <2>3. VNum - 1 - Rank(id) \in Ids /\ VNum - pos - 1 \in Ids
    BY <1>3, <1>5, <2>2
  <2>4. CASE id = next
    <3>1. VNum - 1 - Rank(id) = VNum - pos - 1
      BY <1>3, <1>5, <2>4
    <3> QED
      BY <1>1, <1>2, <2>3, <2>4, <3>1
  <2>5. CASE id # next
    <3>1. Rank(id) # pos
      BY <1>3, <1>4, <1>5, <2>1, <2>5, RankUnique
    <3>2. VNum - 1 - Rank(id) # VNum - pos - 1
      BY <1>3, <1>5, <2>2, <3>1
    <3>3. id \in 0 .. next - 1
      BY <1>3, <1>4, <2>5
    <3>4. units[VNum - 1 - Rank(id)] = id
      BY <1>2, <3>3 DEF SortedSoFar
    <3> QED
      BY <1>1, <1>2, <2>3, <3>2, <3>4
  <2> QED
    BY <2>4, <2>5
<1>11. SortedSoFar'
  <2>1. \A id : Rank(id)' = Rank(id)
    BY <1>1, <1>3 DEF Rank, Precedes
  <2>2. next' \in 0 .. VNum /\ next' - 1 = next
    BY <1>1, <1>3, <1>4
  <2> QED
    BY <1>1, <1>3, <1>9, <1>10, <2>1, <2>2 DEF SortedSoFar
<1>12. units' \in [Ids -> Ids]
  BY <1>1, <1>2, <1>4
<1> QED
  BY <1>1, <1>2, <1>3, <1>8, <1>11, <1>12 DEF OrderInv, Laid

\* When every id has its place the vertices are in order.
LEMMA SortEnds ==
    ASSUME VNum \in Nat, DegreesCounted, units \in [Ids -> Ids], SortedSoFar, next = VNum
    PROVE  Falling(units)
<1>1. Ids = 0 .. VNum - 1 /\ degree \in [Ids -> Nat]
  BY DEF Ids, DegreesCounted
<1> DEFINE place == [id \in Ids |-> VNum - 1 - Rank(id)]
<1>2. ASSUME NEW id \in Ids PROVE place[id] \in Ids /\ place[id] = VNum - 1 - Rank(id) /\ Rank(id) \in Int
  <2>1. Rank(id) \in 0 .. VNum - 1
    BY <1>1, RankType
  <2>2. place[id] = VNum - 1 - Rank(id)
    OBVIOUS
  <2> HIDE DEF place
  <2>3. VNum - 1 - Rank(id) \in 0 .. VNum - 1 /\ Rank(id) \in Int
    BY <2>1
  <2> QED
    BY <1>1, <2>2, <2>3
<1>3. place \in [0 .. VNum - 1 -> 0 .. VNum - 1]
  BY <1>1, <1>2
<1> HIDE DEF place
<1>4. \A id \in Ids : units[place[id]] = id
  BY <1>1, <1>2 DEF SortedSoFar
<1> DEFINE S == 0 .. VNum - 1
<1>5. \A v \in Ids : \E id \in Ids : place[id] = v
  <2>1. \A i, j \in 0 .. VNum - 1 : place[i] = place[j] => i = j
    <3> SUFFICES ASSUME NEW i \in Ids, NEW j \in Ids, place[i] = place[j] PROVE i = j
      BY <1>1
    <3>1. Rank(i) = Rank(j)
      BY <1>2
    <3> QED
      BY <1>1, <3>1, RankUnique
  <2>2. Ids = S /\ \A v \in S : \E id \in S : place[id] = v
    BY <1>1, <1>3, <2>1, OntoInterval
  <2> HIDE DEF S
  <2> QED
    BY <2>2
<1>6. \A v \in Ids : place[units[v]] = v
  BY <1>4, <1>5
<1>7. ASSUME NEW u \in Ids, NEW v \in Ids, u < v PROVE degree[units[u]] >= degree[units[v]]
  <2>1. units[u] \in Ids /\ units[v] \in Ids
    OBVIOUS
  <2>2. Rank(units[v]) < Rank(units[u])
    <3>1. u = VNum - 1 - Rank(units[u]) /\ v = VNum - 1 - Rank(units[v])
          /\ Rank(units[u]) \in Int /\ Rank(units[v]) \in Int
      BY <1>2, <1>6, <2>1
    <3> QED
      BY <1>7, <3>1
  <2>3. ~Precedes(units[u], units[v])
    <3> SUFFICES ASSUME Precedes(units[u], units[v]) PROVE FALSE
      OBVIOUS
    <3>1. Rank(units[u]) < Rank(units[v])
      BY <1>1, <2>1, RankRises
    <3> QED
      BY <1>2, <2>1, <2>2, <3>1
  <2>4. degree[units[u]] \in Nat /\ degree[units[v]] \in Nat
    BY <1>1, <2>1
  <2> QED
    BY <2>3, <2>4 DEF Precedes
<1>8. \A id \in Ids : \E v \in Ids : units[v] = id
  BY <1>2, <1>4
<1>9. \A u, v \in Ids : units[u] = units[v] => u = v
  BY <1>6
<1> QED
  BY <1>7, <1>8, <1>9 DEF Falling

LEMMA TakeHintsOrder == ASSUME LayoutIInv, OrderInv, TakeHints PROVE OrderInv'
<1>1. /\ phase = "sort" /\ phase' = "groups" /\ next = VNum /\ next' = 0
      /\ UNCHANGED <<graph, names, degree, counters, units, shuffleNum>>
  BY DEF TakeHints
<1>2. DegreesCounted /\ SortedSoFar /\ units \in [Ids -> Ids] /\ shuffleNum = 0
  BY <1>1 DEF OrderInv
<1>3. VNum \in Nat /\ VNum' = VNum /\ Ids' = Ids
  BY <1>1 DEF VNum, Ids, LayoutIInv, NamesRead
<1>4. Falling(units)
  BY <1>1, <1>2, <1>3, SortEnds
<1>5. Falling(units)'
  BY <1>1, <1>3, <1>4 DEF Falling
<1>6. DegreesCounted'
  BY <1>1, <1>2, DegreesKept
<1> QED
  BY <1>1, <1>2, <1>3, <1>5, <1>6 DEF OrderInv, Laid
-----------------------------------------------------------------------------
(* The layout: the partitions of the first group                           *)

\* The first group is a whole one; its partitions tile it.
LEMMA FirstGroupIs ==
    ASSUME VNum \in Nat \ {0}, WholeGroupsFit(VNum),
           bits \in [0 .. GroupNum(VNum) - 1 -> PartitionBits(VNum)]
    PROVE  /\ 0 \in 0 .. GroupNum(VNum) - 1
           /\ FirstSize \in Nat \ {0} /\ FirstGroup \in Nat \ {0}
           /\ FirstGroup * FirstSize <= VNum
           /\ \A i \in 1 .. FirstGroup :
                 PartsOf(0)[i] = [begin |-> (i - 1) * FirstSize, end |-> i * FirstSize]
<1> DEFINE n == VNum
           whole == TwoTo[GroupBits(n)]
           num == GroupNum(n)
<1>1. whole \in Nat \ {0} /\ whole <= n
  BY GroupBitsType
<1>2. num \in Nat /\ n <= whole * num
  <2>1. num = CeilDiv(n, whole)
    BY DEF GroupNum
  <2> HIDE DEF num, whole
  <2> QED
    BY <1>1, <2>1, CeilDivIs
<1>3. 0 \in 0 .. num - 1
  <2> HIDE DEF num, whole
  <2>1. num # 0
    BY <1>1, <1>2
  <2> QED
    BY <1>2, <2>1
<1>4. bits[0] \in PartitionBits(n)
  BY <1>3
<1> DEFINE most == TwoTo[GroupBits(n) - bits[0]]
<1>5. GroupBegin(n, 0) = 0 * whole /\ GroupEnd(n, 0) = Least(n, 0 * whole + whole)
  BY <1>3, GroupEnds
<1>6. GroupBegin(n, 0) = 0 /\ GroupEnd(n, 0) = whole
  <2> HIDE DEF whole
  <2> QED
    BY <1>1, <1>5 DEF Least
<1>7. /\ FirstSize \in Nat \ {0} /\ most \in Nat \ {0} /\ whole = FirstSize * most
      /\ FirstGroup \in Nat /\ FirstGroup <= most
      /\ GroupEnd(n, 0) - GroupBegin(n, 0) <= FirstSize * FirstGroup
  BY <1>3, <1>4, PartitionsOfGroup DEF FirstSize, FirstGroup
<1>8. PartsOf(0) = [i \in 1 .. FirstGroup |->
                      [begin |-> GroupBegin(n, 0) + (i - 1) * FirstSize,
                       end   |-> Least(GroupBegin(n, 0) + i * FirstSize, n)]]
  BY DEF PartsOf, FirstSize, FirstGroup
<1> DEFINE L == FirstSize
           c == FirstGroup
<1> HIDE DEF whole, most, num, L, c
<1>9. c \in Nat \ {0} /\ c * L <= whole /\ L \in Nat \ {0}
  <2>1. L \in Nat \ {0} /\ c \in Nat /\ most \in Nat /\ c <= most /\ whole = L * most
    BY <1>7 DEF L, c
  <2>2. whole <= L * c
    BY <1>1, <1>6, <1>7 DEF L, c
  <2>3. PICK d \in Nat : most = c + d
    BY <2>1
  <2>4. L * most = c * L + d * L /\ d * L \in Nat /\ c * L \in Nat
    BY <2>1, <2>3, Z3
  <2>5. c # 0
    <3> SUFFICES ASSUME c = 0 PROVE FALSE
      OBVIOUS
    <3>1. L * c = 0
      BY <2>1
    <3> QED
      BY <1>1, <2>2, <3>1
  <2> QED
    BY <2>1, <2>4, <2>5
<1>10. c * L <= n
  <2>1. c * L \in Nat
    BY <1>9, Z3
  <2> QED
    BY <1>1, <1>9, <2>1
<1>11. ASSUME NEW i \in 1 .. c
       PROVE  GroupBegin(n, 0) + (i - 1) * L = (i - 1) * L /\ Least(GroupBegin(n, 0) + i * L, n) = i * L
  <2>1. PICK d \in Nat : c = i + d
    BY <1>9
  <2>2. c * L = i * L + d * L /\ d * L \in Nat /\ i * L \in Nat /\ (i - 1) * L \in Int
    <3>1. i \in Nat
      BY <1>9
    <3> QED
      BY <1>9, <2>1, <3>1, Z3
  <2> QED
    BY <1>6, <1>10, <2>2 DEF Least
<1>12. \A i \in 1 .. c : PartsOf(0)[i] = [begin |-> (i - 1) * L, end |-> i * L]
  <2> SUFFICES ASSUME NEW i \in 1 .. c
               PROVE  PartsOf(0)[i] = [begin |-> (i - 1) * L, end |-> i * L]
    OBVIOUS
  <2>1. PartsOf(0)[i] = [begin |-> GroupBegin(n, 0) + (i - 1) * L, end |-> Least(GroupBegin(n, 0) + i * L, n)]
    BY <1>8 DEF L, c
  <2> QED
    BY <1>11, <2>1
<1> QED
  BY <1>3, <1>9, <1>10, <1>12 DEF L, c, num

\* They are the first ones of all.
LEMMA FirstParts ==
    ASSUME VNum \in Nat \ {0}, WholeGroupsFit(VNum),
           bits \in [0 .. GroupNum(VNum) - 1 -> PartitionBits(VNum)],
           NEW m \in Nat \ {0}, LaidUpTo(m), offsets[0] = 0,
           NEW p \in 1 .. FirstGroup
    PROVE  p \in DOMAIN parts /\ parts[p] = [begin |-> (p - 1) * FirstSize, end |-> p * FirstSize]
<1>1. 0 \in 0 .. m - 1 /\ p \in 1 .. PartitionsOf(VNum, 0, bits[0]) /\ 0 + p = p
  BY FirstGroupIs DEF FirstGroup
<1>2. offsets[0] + p \in DOMAIN parts /\ parts[offsets[0] + p] = PartsOf(0)[p]
  BY <1>1 DEF LaidUpTo
<1> QED
  BY <1>1, <1>2, FirstGroupIs

LEMMA AddGroupOrder == ASSUME GroupsFit, LayoutIInv, OrderInv, AddGroup PROVE OrderInv'
<1>1. /\ phase = "groups" /\ phase' = "groups" /\ next < GroupNum(VNum) /\ next' = next + 1
      /\ offsets' = [g \in 0 .. next |-> IF g = next THEN Offset(g) ELSE offsets[g]]
      /\ parts' = parts \o PartsOf(next)
      /\ shuffleNum' = IF next = 0 THEN Least(ThreadNum, Len(parts')) ELSE shuffleNum
      /\ UNCHANGED <<graph, names, degree, counters, units, bits>>
  BY DEF AddGroup
<1>2. DegreesCounted /\ Falling(units) /\ (IF next = 0 THEN shuffleNum = 0 ELSE ShuffledAll)
  BY <1>1 DEF OrderInv
<1>3. VNum \in Nat \ {0} /\ WholeGroupsFit(VNum) /\ VNum' = VNum /\ Ids' = Ids
  BY <1>1, VerticesFit DEF VNum, Ids
<1>4. bits \in [0 .. GroupNum(VNum) - 1 -> PartitionBits(VNum)] /\ LaidUpTo(next) /\ next \in Nat
  BY <1>1 DEF LayoutIInv, GroupsLaid, Sorted
<1>5. FirstGroup' = FirstGroup
  BY <1>1, <1>3 DEF FirstGroup
<1>6. ShuffledAll'
  <2>1. CASE next = 0
    <3>1. offsets'[0] = 0
      BY <1>1, <2>1 DEF Offset
    <3>2. Len(parts) = 0 /\ parts \in Seq([begin : Int, end : Int])
      BY <1>4, <2>1 DEF LaidUpTo
    <3>3. 0 \in 0 .. GroupNum(VNum) - 1
      BY <1>3, <1>4, FirstGroupIs
    <3>4. Len(PartsOf(0)) = FirstGroup /\ PartsOf(0) \in Seq([begin : Int, end : Int])
      BY <1>3, <1>4, <3>3, PartsOfIs DEF FirstGroup
    <3>5. FirstGroup \in Nat
      BY <1>3, <1>4, FirstGroupIs
    <3> DEFINE q == PartsOf(0)
    <3>6. parts' = parts \o q
      BY <1>1, <2>1
    <3> HIDE DEF q
    <3>7. Len(parts') = FirstGroup
      BY <3>2, <3>4, <3>5, <3>6 DEF q
    <3> QED
      BY <1>1, <1>5, <2>1, <3>1, <3>7 DEF ShuffledAll
  <2>2. CASE next # 0
    <3>1. offsets'[0] = offsets[0]
      BY <1>1, <1>4, <2>2
    <3> QED
      BY <1>1, <1>2, <1>5, <2>2, <3>1 DEF ShuffledAll
  <2> QED
    BY <2>1, <2>2
<1>7. Falling(units)'
  BY <1>1, <1>2, <1>3 DEF Falling
<1>8. DegreesCounted'
  BY <1>1, <1>2, DegreesKept
<1>9. units' \in [Ids -> Ids] /\ next' # 0
  BY <1>1, <1>2, <1>4 DEF Falling
<1> QED
  BY <1>1, <1>3, <1>6, <1>7, <1>8, <1>9 DEF OrderInv, Laid
-----------------------------------------------------------------------------
(* The layout: the shuffle                                                 *)

\* There and back: to partition 1, 2, ... in even rounds, ..., 2, 1 in odd ones.
LEMMA SnakeIs ==
    ASSUME shuffleNum \in Nat \ {0}, NEW k \in Nat
    PROVE  Snake(k) = IF (k \div shuffleNum) % 2 = 0 THEN (k % shuffleNum) + 1
                                                     ELSE shuffleNum - (k % shuffleNum)
<1> DEFINE n == shuffleNum
           r == k \div n
           c == k % n
           q == r \div 2
           b == r % 2
<1>1. r \in Nat /\ c \in 0 .. n - 1 /\ k = n * r + c
  BY DivMod
<1> HIDE DEF r, c
<1>2. q \in Nat /\ b \in 0 .. 1 /\ r = 2 * q + b
  BY <1>1, DivMod
<1> HIDE DEF q, b
<1>3. k = (2 * n) * q + (n * b + c) /\ 2 * n \in Nat \ {0}
  <2>1. n * (2 * q + b) = (2 * n) * q + n * b
    BY <1>2, Z3
  <2>2. n * b \in Nat /\ (2 * n) * q \in Nat
    BY <1>2
  <2> QED
    BY <1>1, <1>2, <2>1, <2>2
<1>4. CASE b = 0
  <2>1. k = (2 * n) * q + c /\ c \in 0 .. 2 * n - 1
    BY <1>1, <1>3, <1>4
  <2>2. k % (2 * n) = c
    BY <1>2, <1>3, <2>1, DivUnique
  <2> QED
    BY <1>1, <1>4, <2>2 DEF Snake, n, r, c, b
<1>5. CASE b = 1
  <2>1. k = (2 * n) * q + (n + c) /\ n + c \in 0 .. 2 * n - 1
    BY <1>1, <1>3, <1>5
  <2>2. k % (2 * n) = n + c
    BY <1>2, <1>3, <2>1, DivUnique
  <2>3. Snake(k) = 2 * n - (n + c)
    BY <1>1, <2>2 DEF Snake
  <2>4. 2 * n - (n + c) = n - c
    BY <1>1
  <2> QED
    BY <1>5, <2>3, <2>4 DEF n, r, c, b
<1> QED
  BY <1>2, <1>4, <1>5

\* From the place of a vertex to its turn.
LEMMA TurnIs ==
    ASSUME shuffleNum \in Nat \ {0}, FirstSize \in Nat \ {0}, NEW v \in 0 .. Dealt - 1
    PROVE  /\ v \div FirstSize \in 0 .. shuffleNum - 1 /\ v % FirstSize \in 0 .. FirstSize - 1
           /\ v = FirstSize * (v \div FirstSize) + (v % FirstSize)
           /\ Turn(v) \in 0 .. Dealt - 1
           /\ Turn(v) \div shuffleNum = v % FirstSize
           /\ Snake(Turn(v)) = (v \div FirstSize) + 1
<1> DEFINE n == shuffleNum
           size == FirstSize
           p == v \div size
           r == v % size
           c == IF r % 2 = 0 THEN p ELSE n - 1 - p
<1>1. n * size \in Nat /\ n * size = size * n /\ Dealt = n * size
  BY DEF Dealt
<1>2. v \in Nat /\ v < size * n
  BY <1>1
<1>3. p \in Nat /\ p < n /\ r \in 0 .. size - 1 /\ v = size * p + r
  <2> HIDE DEF size
  <2>1. size \in Nat \ {0}
    BY DEF size
  <2> QED
    BY <1>2, <2>1, DivMod, DivLess
<1>4. Turn(v) = n * r + c
  BY DEF Turn
<1> HIDE DEF size, p, r, n
<1>5. c \in 0 .. n - 1 /\ r \in Nat /\ n \in Nat \ {0} /\ size \in Nat \ {0}
  BY <1>3 DEF n, size
<1> HIDE DEF c
<1>6. n * r \in Nat /\ n * r + c \in Nat /\ n * r + c < n * size
  <2>1. PICK d \in Nat : size = r + 1 + d
    <3>1. size - r - 1 \in Nat /\ size = r + 1 + (size - r - 1)
      BY <1>3, <1>5
    <3> QED
      BY <3>1
  <2>2. n * size = n * r + n + n * d /\ n * d \in Nat /\ n * r \in Nat
    BY <1>5, <2>1, Z3
  <2> QED
    BY <1>5, <2>2
<1>7. Turn(v) \div n = r /\ Turn(v) % n = c
  BY <1>4, <1>5, <1>6, DivUnique
<1>8. Snake(Turn(v)) = IF r % 2 = 0 THEN c + 1 ELSE n - c
  <2>1. Turn(v) \in Nat
    BY <1>4, <1>6
  <2>2. shuffleNum \in Nat \ {0} => Snake(Turn(v)) = IF r % 2 = 0 THEN c + 1 ELSE n - c
    BY <1>7, <2>1, SnakeIs DEF n
  <2> QED
    BY <1>5, <2>2 DEF n
<1>9. Snake(Turn(v)) = p + 1
  BY <1>3, <1>5, <1>8 DEF c
<1>10. p \in 0 .. n - 1 /\ Turn(v) \in 0 .. n * size - 1
  BY <1>1, <1>3, <1>4, <1>5, <1>6 DEF n, size
<1> QED
  BY <1>1, <1>3, <1>7, <1>9, <1>10 DEF n, size, p, r

\* Vertices have turns of their own.
LEMMA TurnUnique ==
    ASSUME shuffleNum \in Nat \ {0}, FirstSize \in Nat \ {0},
           NEW u \in 0 .. Dealt - 1, NEW v \in 0 .. Dealt - 1, Turn(u) = Turn(v)
    PROVE  u = v
<1>1. /\ u = FirstSize * (u \div FirstSize) + (u % FirstSize)
      /\ Turn(u) \div shuffleNum = u % FirstSize
      /\ Snake(Turn(u)) = (u \div FirstSize) + 1 /\ u \div FirstSize \in Int
  BY TurnIs
<1>2. /\ v = FirstSize * (v \div FirstSize) + (v % FirstSize)
      /\ Turn(v) \div shuffleNum = v % FirstSize
      /\ Snake(Turn(v)) = (v \div FirstSize) + 1 /\ v \div FirstSize \in Int
  BY TurnIs
<1>3. u % FirstSize = v % FirstSize
  BY <1>1, <1>2
<1>4. u \div FirstSize = v \div FirstSize
  BY <1>1, <1>2
<1> QED
  BY <1>1, <1>2, <1>3, <1>4

\* From the turn of a vertex to its place.
LEMMA SpotIs ==
    ASSUME shuffleNum \in Nat \ {0}, FirstSize \in Nat \ {0}, NEW k \in 0 .. Dealt - 1
    PROVE  LET spot == (Snake(k) - 1) * FirstSize + (k \div shuffleNum) IN
           /\ Snake(k) \in 1 .. shuffleNum /\ k \div shuffleNum \in 0 .. FirstSize - 1
           /\ spot \in 0 .. Dealt - 1 /\ Turn(spot) = k
<1> DEFINE n == shuffleNum
           size == FirstSize
           r == k \div n
           c == k % n
           p == Snake(k) - 1
           spot == p * size + r
<1>1. n * size \in Nat /\ Dealt = n * size
  BY DEF Dealt
<1>2. k \in Nat /\ k < n * size
  BY <1>1
<1>3. r \in Nat /\ r < size /\ c \in 0 .. n - 1 /\ k = n * r + c
  <2> HIDE DEF size
  <2>1. size \in Nat \ {0}
    BY DEF size
  <2> QED
    BY <1>2, <2>1, DivMod, DivLess
<1>4. Snake(k) = IF r % 2 = 0 THEN c + 1 ELSE n - c
  BY <1>2, SnakeIs
<1> HIDE DEF r, c, n, size
<1>5. p \in 0 .. n - 1 /\ p = IF r % 2 = 0 THEN c ELSE n - 1 - c
  BY <1>3, <1>4 DEF n
<1> HIDE DEF p
<1>6. n \in Nat \ {0} /\ size \in Nat \ {0} /\ r \in 0 .. size - 1 /\ p \in Nat /\ r \in Nat
  BY <1>3, <1>5 DEF n, size
<1>7. p * size \in Nat /\ p * size = size * p /\ p * size + r < n * size
  <2>1. PICK d \in Nat : n = p + 1 + d
    <3>1. n - p - 1 \in Nat /\ n = p + 1 + (n - p - 1)
      BY <1>5, <1>6
    <3> QED
      BY <3>1
  <2>2. n * size = p * size + size + d * size /\ d * size \in Nat /\ p * size \in Nat /\ p * size = size * p
    BY <1>6, <2>1, Z3
  <2> QED
    BY <1>6, <2>2
<1>8. spot \in Nat /\ spot < n * size /\ spot = size * p + r
  BY <1>6, <1>7
<1> HIDE DEF spot
<1>9. spot \div size = p /\ spot % size = r
  BY <1>6, <1>8, DivUnique
<1>10. Turn(spot) = n * r + (IF r % 2 = 0 THEN p ELSE n - 1 - p)
  BY <1>9 DEF Turn, n, size
<1>11. Turn(spot) = k
  BY <1>3, <1>5, <1>6, <1>10
<1>12. spot \in 0 .. Dealt - 1 /\ Snake(k) \in 1 .. n
  <2>1. Snake(k) = p + 1
    BY <1>4, <1>6, <1>5, <1>3
  <2> QED
    BY <1>1, <1>5, <1>6, <1>8, <2>1 DEF n, size
<1> QED
  BY <1>6, <1>11, <1>12 DEF n, size, p, r, spot

\* In which state the shuffle is, whatever the number of threads.
LEMMA ShuffledIs ==
    ASSUME GroupsFit, LayoutIInv, OrderInv, phase \in {"shuffle", "fill", "done"}
    PROVE  /\ VNum \in Nat \ {0} /\ Ids = 0 .. VNum - 1
           /\ shuffleNum \in Nat \ {0} /\ FirstSize \in Nat \ {0}
           /\ Dealt \in Nat \ {0} /\ Dealt <= VNum
           /\ \A p \in 1 .. shuffleNum :
                 p \in DOMAIN parts /\ parts[p] = [begin |-> (p - 1) * FirstSize, end |-> p * FirstSize]
<1>1. /\ VNum \in Nat \ {0} /\ WholeGroupsFit(VNum) /\ LaidUpTo(GroupNum(VNum))
      /\ bits \in [0 .. GroupNum(VNum) - 1 -> PartitionBits(VNum)]
  <2>1. phase # "load"
    OBVIOUS
  <2> QED
    BY <2>1, VerticesFit DEF LayoutIInv, GroupsLaid, Sorted
<1>2. shuffleNum = Least(ThreadNum, FirstGroup) /\ offsets[0] = 0
  BY DEF OrderInv, ShuffledAll
<1>3. /\ 0 \in 0 .. GroupNum(VNum) - 1
      /\ FirstSize \in Nat \ {0} /\ FirstGroup \in Nat \ {0} /\ FirstGroup * FirstSize <= VNum
  BY <1>1, FirstGroupIs
<1>4. shuffleNum \in Nat \ {0} /\ shuffleNum <= FirstGroup
  BY <1>2, <1>3, ThreadsAssumption DEF Least
<1>5. Dealt \in Nat \ {0} /\ Dealt <= VNum
  <2> DEFINE n == shuffleNum
             size == FirstSize
             c == FirstGroup
  <2>1. n \in Nat \ {0} /\ size \in Nat \ {0} /\ c \in Nat /\ n <= c /\ c * size <= VNum
    BY <1>3, <1>4
  <2>2. Dealt = n * size
    BY DEF Dealt
  <2> HIDE DEF n, size, c
  <2>3. PICK d \in Nat : c = n + d
    BY <2>1
  <2>4. c * size = n * size + d * size /\ d * size \in Nat /\ n * size \in Nat /\ n * size # 0
    BY <2>1, <2>3, Z3
  <2> QED
    BY <1>1, <2>1, <2>2, <2>4
<1>6. GroupNum(VNum) \in Nat \ {0}
  <2>1. GroupNum(VNum) = CeilDiv(VNum, TwoTo[GroupBits(VNum)])
    BY DEF GroupNum
  <2>2. TwoTo[GroupBits(VNum)] \in Nat \ {0}
    BY <1>1, GroupBitsType
  <2>3. GroupNum(VNum) \in Nat
    BY <1>1, <2>1, <2>2, CeilDivIs
  <2> QED
    BY <1>3, <2>3
<1>7. ASSUME NEW p \in 1 .. shuffleNum
      PROVE  p \in DOMAIN parts /\ parts[p] = [begin |-> (p - 1) * FirstSize, end |-> p * FirstSize]
  <2>1. p \in 1 .. FirstGroup
    BY <1>3, <1>4
  <2> QED
    BY <1>1, <1>2, <1>6, <2>1, FirstParts
<1> QED
  BY <1>1, <1>3, <1>4, <1>5, <1>7 DEF Ids

LEMMA StartShuffleOrder == ASSUME GroupsFit, LayoutIInv, OrderInv, StartShuffle PROVE OrderInv'
<1>1. /\ phase = "groups" /\ next = GroupNum(VNum) /\ phase' = "shuffle" /\ next' = 0
      /\ sorted' = units /\ room' = [p \in 1 .. shuffleNum |-> parts[p].begin]
      /\ UNCHANGED <<graph, names, degree, counters, units, bits, offsets, parts, shuffleNum>>
  BY DEF StartShuffle
<1>2. DegreesCounted /\ Falling(units) /\ (IF next = 0 THEN shuffleNum = 0 ELSE ShuffledAll)
  BY <1>1 DEF OrderInv
<1>3. /\ VNum \in Nat \ {0} /\ WholeGroupsFit(VNum) /\ VNum' = VNum /\ Ids' = Ids
      /\ bits \in [0 .. GroupNum(VNum) - 1 -> PartitionBits(VNum)] /\ LaidUpTo(next)
  BY <1>1, VerticesFit DEF VNum, Ids, LayoutIInv, GroupsLaid, Sorted
<1>4. next # 0 /\ FirstSize \in Nat \ {0} /\ FirstGroup \in Nat \ {0} /\ next \in Nat
  <2>1. 0 \in 0 .. GroupNum(VNum) - 1 /\ FirstSize \in Nat \ {0} /\ FirstGroup \in Nat \ {0}
    BY <1>3, FirstGroupIs
  <2>2. next \in 0 .. GroupNum(VNum)
    BY <1>1 DEF LayoutIInv, GroupsLaid
  <2> QED
    BY <1>1, <2>1, <2>2
<1>5. ShuffledAll /\ shuffleNum \in Nat \ {0} /\ shuffleNum <= FirstGroup
  BY <1>2, <1>4, ThreadsAssumption DEF ShuffledAll, Least
<1>6. /\ FirstGroup' = FirstGroup /\ FirstSize' = FirstSize /\ Dealt' = Dealt
      /\ \A v : Turn(v)' = Turn(v) /\ Source(v)' = Source(v)
      /\ \A p, k : HadTurn(p, k)' = HadTurn(p, k)
  BY <1>1, <1>3 DEF FirstGroup, FirstSize, Dealt, Turn, Source, HadTurn
<1>7. ShuffledAll'
  BY <1>1, <1>5, <1>6 DEF ShuffledAll
<1>8. Falling(sorted)'
  BY <1>1, <1>2, <1>3 DEF Falling
<1>9. DegreesCounted'
  BY <1>1, <1>2, DegreesKept
<1>10. Dealt \in Nat
  BY <1>4, <1>5 DEF Dealt
<1>11. ASSUME NEW p \in 1 .. shuffleNum
       PROVE  room'[p] = (p - 1) * FirstSize + (0 \div shuffleNum) + (IF HadTurn(p, 0) THEN 1 ELSE 0)
  <2>1. p \in 1 .. FirstGroup
    BY <1>4, <1>5
  <2>2. parts[p].begin = (p - 1) * FirstSize
    <3>1. offsets[0] = 0 /\ next \in Nat \ {0}
      BY <1>4, <1>5 DEF ShuffledAll
    <3>2. parts[p] = [begin |-> (p - 1) * FirstSize, end |-> p * FirstSize]
      BY <1>3, <2>1, <3>1, FirstParts
    <3> QED
      BY <3>2
  <2>3. 0 \div shuffleNum = 0 /\ 0 % shuffleNum = 0
    BY <1>5, DivUnique
  <2>4. 0 % 2 = 0
    OBVIOUS
  <2>5. ~HadTurn(p, 0)
    BY <2>3, <2>4 DEF HadTurn
  <2> DEFINE begin == (p - 1) * FirstSize
  <2>6. begin \in Nat /\ room'[p] = begin
    BY <1>1, <1>4, <2>2
  <2> HIDE DEF begin
  <2>7. begin = begin + 0 + 0
    BY <2>6
  <2> QED
    BY <2>3, <2>5, <2>6, <2>7 DEF begin
<1>12. ASSUME NEW v \in Ids, v >= Dealt \/ Turn(v) < 0 PROVE units[v] = sorted'[Source(v)]
  <2>1. ASSUME v < Dealt PROVE FALSE
    <3>1. v \in 0 .. Dealt - 1
      BY <1>10, <2>1 DEF Ids
    <3>2. Turn(v) \in 0 .. Dealt - 1
      BY <1>4, <1>5, <3>1, TurnIs
    <3> QED
      BY <1>10, <1>12, <2>1, <3>1, <3>2
  <2> QED
    BY <1>1, <2>1 DEF Source
<1>13. ShuffledSoFar'
  BY <1>1, <1>3, <1>6, <1>10, <1>11, <1>12 DEF ShuffledSoFar
<1>14. units' \in [Ids -> Ids]
  BY <1>1, <1>2 DEF Falling
<1> QED
  BY <1>1, <1>3, <1>7, <1>8, <1>9, <1>13, <1>14 DEF OrderInv, Laid

\* What the shuffle goes by stays the same.
LEMMA TurnsKept ==
    ASSUME UNCHANGED <<names, bits, offsets, shuffleNum>>
    PROVE  /\ VNum' = VNum /\ Ids' = Ids
           /\ FirstGroup' = FirstGroup /\ FirstSize' = FirstSize /\ Dealt' = Dealt
           /\ \A v : Turn(v)' = Turn(v) /\ Source(v)' = Source(v)
           /\ \A p, k : HadTurn(p, k)' = HadTurn(p, k)
           /\ ShuffledAll' = ShuffledAll
<1>1. VNum' = VNum
  BY DEF VNum
<1> QED
  BY <1>1 DEF Ids, FirstGroup, FirstSize, Dealt, Turn, Source, HadTurn, ShuffledAll

\* A partition that has its turn did not have it in this round yet, and has so many vertices as rounds.
LEMMA RoomIs ==
    ASSUME GroupsFit, LayoutIInv, OrderInv, phase = "shuffle", next \in 0 .. Dealt - 1
    PROVE  LET p == Snake(next) IN
           /\ p \in 1 .. shuffleNum /\ ~HadTurn(p, next)
           /\ next \div shuffleNum \in 0 .. FirstSize - 1
           /\ room[p] = (p - 1) * FirstSize + (next \div shuffleNum)
<1> DEFINE n == shuffleNum
           p == Snake(next)
           r == next \div n
           c == next % n
           spot == (p - 1) * FirstSize + r
<1>1. n \in Nat \ {0} /\ FirstSize \in Nat \ {0} /\ Dealt \in Nat /\ ShuffledSoFar
  BY ShuffledIs DEF OrderInv
<1>2. next \in Nat
  BY <1>1
<1>3. p \in 1 .. n /\ r \in 0 .. FirstSize - 1 /\ spot \in 0 .. Dealt - 1
  BY <1>1, SpotIs
<1>4. c \in 0 .. n - 1 /\ p = (IF r % 2 = 0 THEN c + 1 ELSE n - c)
  <2>1. c \in 0 .. n - 1
    BY <1>1, <1>2, DivMod
  <2>2. p = (IF r % 2 = 0 THEN c + 1 ELSE n - c)
    BY <1>1, <1>2, SnakeIs
  <2> QED
    BY <2>1, <2>2
<1>5. ~HadTurn(p, next)
  <2> HIDE DEF p, c
  <2> QED
    BY <1>1, <1>4 DEF HadTurn, c
<1>6. room[p] = spot
  <2>1. room[p] = (p - 1) * FirstSize + (next \div n) + 0
    BY <1>1, <1>3, <1>5 DEF ShuffledSoFar
  <2>2. spot \in Int /\ spot = spot + 0
    BY <1>3
  <2> QED
    BY <2>1, <2>2
<1> QED
  BY <1>3, <1>5, <1>6

LEMMA PlaceVertexOrder == ASSUME GroupsFit, LayoutIInv, OrderInv, PlaceVertex PROVE OrderInv'
<1> DEFINE p == Snake(next)
           n == shuffleNum
           r == next \div n
           c == next % n
           spot == (p - 1) * FirstSize + r
<1>1. /\ phase = "shuffle" /\ phase' = "shuffle" /\ next < parts[shuffleNum].end
      /\ units' = [units EXCEPT ![room[p]] = sorted[next]]
      /\ room' = [room EXCEPT ![p] = @ + 1]
      /\ next' = next + 1
      /\ UNCHANGED <<graph, names, degree, counters, bits, offsets, parts, shuffleNum, sorted>>
  BY DEF PlaceVertex
<1>2. DegreesCounted /\ Falling(sorted) /\ ShuffledAll /\ ShuffledSoFar /\ units \in [Ids -> Ids]
  BY <1>1 DEF OrderInv
<1>3. /\ VNum \in Nat \ {0} /\ Ids = 0 .. VNum - 1
      /\ n \in Nat \ {0} /\ FirstSize \in Nat \ {0}
      /\ Dealt \in Nat \ {0} /\ Dealt <= VNum
      /\ parts[n] = [begin |-> (n - 1) * FirstSize, end |-> n * FirstSize]
  <2>1. shuffleNum \in Nat \ {0} => n \in 1 .. shuffleNum
    OBVIOUS
  <2> QED
    BY <1>1, <2>1, ShuffledIs
<1>4. next \in 0 .. Dealt - 1
  <2>1. next < Dealt
    BY <1>1, <1>3 DEF Dealt
  <2> QED
    BY <1>2, <1>3, <2>1 DEF ShuffledSoFar
<1>5. p \in 1 .. n /\ r \in 0 .. FirstSize - 1 /\ spot \in 0 .. Dealt - 1 /\ Turn(spot) = next
  BY <1>3, <1>4, SpotIs
<1>6. c \in 0 .. n - 1 /\ p = (IF r % 2 = 0 THEN c + 1 ELSE n - c) /\ next = n * r + c /\ next \in Nat
  <2>1. next \in Nat
    BY <1>3, <1>4
  <2>2. c \in 0 .. n - 1 /\ next = n * r + c
    BY <1>3, <2>1, DivMod
  <2>3. p = (IF r % 2 = 0 THEN c + 1 ELSE n - c)
    BY <1>3, <2>1, SnakeIs
  <2> QED
    BY <2>1, <2>2, <2>3
<1>7. ~HadTurn(p, next)
  BY <1>1, <1>4, RoomIs
<1>8. room[p] = spot
  BY <1>1, <1>4, RoomIs
<1> HIDE DEF p, c, r, spot
<1>9. \A q \in 1 .. n :
         r + (IF HadTurn(q, next) \/ q = p THEN 1 ELSE 0)
         = ((next + 1) \div n) + (IF HadTurn(q, next + 1) THEN 1 ELSE 0)
  <2> SUFFICES ASSUME NEW q \in 1 .. n
               PROVE  r + (IF HadTurn(q, next) \/ q = p THEN 1 ELSE 0)
                      = ((next + 1) \div n) + (IF HadTurn(q, next + 1) THEN 1 ELSE 0)
    OBVIOUS
  <2>1. HadTurn(q, next) <=> IF r % 2 = 0 THEN q <= c ELSE q > n - c
    BY DEF HadTurn, r, c
  <2>2. r \in Nat
    BY <1>3, <1>5
  <2>3. CASE c + 1 < n
    <3>1. next + 1 = n * r + (c + 1) /\ c + 1 \in 0 .. n - 1 /\ next + 1 \in Nat
      BY <1>3, <1>6, <2>2, <2>3
    <3>2. (next + 1) \div n = r /\ (next + 1) % n = c + 1
      BY <1>3, <2>2, <3>1, DivUnique
    <3>3. HadTurn(q, next + 1) <=> IF r % 2 = 0 THEN q <= c + 1 ELSE q > n - (c + 1)
      BY <3>2 DEF HadTurn
    <3>4. HadTurn(q, next + 1) <=> HadTurn(q, next) \/ q = p
      BY <1>3, <1>6, <2>1, <3>3
    <3> QED
      BY <3>2, <3>4
  <2>4. CASE c + 1 = n
    <3>1. next + 1 = n * (r + 1) + 0 /\ 0 \in 0 .. n - 1 /\ next + 1 \in Nat /\ r + 1 \in Nat
      <4>1. n * (r + 1) = n * r + n
        BY <1>3, <2>2, Z3
      <4>2. n * r \in Nat
        BY <1>3, <2>2
      <4> QED
        BY <1>3, <1>6, <2>2, <2>4, <4>1, <4>2
    <3>2. (next + 1) \div n = r + 1 /\ (next + 1) % n = 0
      BY <1>3, <3>1, DivUnique
    <3>3. ~HadTurn(q, next + 1)
      BY <1>3, <3>2 DEF HadTurn
    <3>4. HadTurn(q, next) \/ q = p
      BY <1>3, <1>6, <2>1, <2>4
    <3> QED
      BY <2>2, <3>2, <3>3, <3>4
  <2> QED
    BY <1>3, <1>6, <2>3, <2>4
<1>10. \A v : Turn(v)' = Turn(v) /\ Source(v)' = Source(v)
  BY <1>1, TurnsKept
<1>11. room' = [q \in 1 .. n |->
                  (q - 1) * FirstSize + ((next + 1) \div n) + (IF HadTurn(q, next + 1) THEN 1 ELSE 0)]
  <2>1. room = [q \in 1 .. n |-> (q - 1) * FirstSize + r + (IF HadTurn(q, next) THEN 1 ELSE 0)]
    BY <1>2 DEF ShuffledSoFar, r
  <2>2. ASSUME NEW q \in 1 .. n
        PROVE  room'[q] = (q - 1) * FirstSize + ((next + 1) \div n)
                          + (IF HadTurn(q, next + 1) THEN 1 ELSE 0)
    <3> DEFINE begin == (q - 1) * FirstSize
    <3>1. begin \in Int /\ r \in Int /\ (next + 1) \div n \in Int
      <4>1. next + 1 \in Nat
        BY <1>6
      <4> QED
        BY <1>3, <1>5, <4>1, DivMod
    <3>2. room[q] = begin + r + (IF HadTurn(q, next) THEN 1 ELSE 0)
      BY <2>1
    <3>3. room'[q] = begin + r + (IF HadTurn(q, next) \/ q = p THEN 1 ELSE 0)
      <4>1. CASE q = p
        <5>1. room'[q] = room[q] + 1
          BY <1>1, <2>1, <4>1 DEF p
        <5>2. room[q] = begin + r + 0
          BY <1>7, <3>2, <4>1
        <5> HIDE DEF begin
        <5> QED
          BY <3>1, <4>1, <5>1, <5>2
      <4>2. CASE q # p
        <5>1. room'[q] = room[q]
          BY <1>1, <2>1, <4>2 DEF p
        <5> QED
          BY <3>2, <4>2, <5>1
      <4> QED
        BY <4>1, <4>2
    <3> HIDE DEF begin
    <3>4. r + (IF HadTurn(q, next) \/ q = p THEN 1 ELSE 0)
          = ((next + 1) \div n) + (IF HadTurn(q, next + 1) THEN 1 ELSE 0)
      BY <1>9
    <3>5. room'[q] = begin + ((next + 1) \div n) + (IF HadTurn(q, next + 1) THEN 1 ELSE 0)
      BY <3>1, <3>3, <3>4
    <3> QED
      BY <3>5 DEF begin
  <2>3. DOMAIN room' = 1 .. n /\ room' = [q \in DOMAIN room' |-> room'[q]]
    BY <1>1, <2>1
  <2> QED
    BY <2>2, <2>3
<1>12. ASSUME NEW v \in Ids, v >= Dealt \/ Turn(v) < next + 1 PROVE units'[v] = sorted[Source(v)]
  <2>1. spot \in Ids /\ units' = [units EXCEPT ![spot] = sorted[next]]
    <3>1. spot \in Ids
      BY <1>3, <1>5
    <3> QED
      BY <1>1, <1>8, <3>1 DEF p
  <2>2. CASE v = spot
    <3>1. Source(v) = next
      BY <1>3, <1>5, <2>2 DEF Source
    <3> QED
      BY <1>2, <2>1, <2>2, <3>1
  <2>3. CASE v # spot
    <3>1. v >= Dealt \/ Turn(v) < next
      <4>1. ASSUME v < Dealt PROVE Turn(v) < next
        <5>1. v \in 0 .. Dealt - 1
          BY <1>3, <4>1
        <5>2. Turn(v) # Turn(spot)
          BY <1>3, <1>5, <2>3, <5>1, TurnUnique
        <5>3. Turn(v) \in 0 .. Dealt - 1
          BY <1>3, <5>1, TurnIs
        <5> QED
          BY <1>3, <1>5, <1>6, <1>12, <4>1, <5>2, <5>3
      <4> QED
        BY <1>3, <4>1
    <3>2. units[v] = sorted[Source(v)]
      BY <1>2, <3>1 DEF ShuffledSoFar
    <3> QED
      BY <1>2, <2>1, <2>3, <3>2
  <2> QED
    BY <2>2, <2>3
<1>13. ShuffledSoFar'
  <2>1. next' \in 0 .. Dealt
    BY <1>1, <1>3, <1>4
  <2>2. Dealt' = Dealt /\ FirstSize' = FirstSize /\ Ids' = Ids /\ \A q, k : HadTurn(q, k)' = HadTurn(q, k)
    BY <1>1, TurnsKept
  <2> QED
    BY <1>1, <1>10, <1>11, <1>12, <2>1, <2>2 DEF ShuffledSoFar
<1>14. units' \in [Ids -> Ids]
  <2>1. next \in Ids /\ sorted[next] \in Ids
    <3>1. next \in Ids
      BY <1>3, <1>4
    <3> QED
      BY <1>2, <3>1 DEF Falling
  <2> QED
    BY <1>1, <1>2, <2>1
<1>15. Falling(sorted)' /\ DegreesCounted' /\ ShuffledAll' /\ Ids' = Ids
  <2>1. Ids' = Ids /\ ShuffledAll' = ShuffledAll
    BY <1>1, TurnsKept
  <2>2. DegreesCounted'
    BY <1>1, <1>2, DegreesKept
  <2> QED
    BY <1>1, <1>2, <2>1, <2>2 DEF Falling
<1> QED
  BY <1>1, <1>13, <1>14, <1>15 DEF OrderInv, Laid

\* When the last one has its place every vertex has the one of its turn.
LEMMA StartFillOrder == ASSUME GroupsFit, LayoutIInv, OrderInv, StartFill PROVE OrderInv'
<1>1. /\ phase = "shuffle" /\ phase' = "fill" /\ next = parts[shuffleNum].end
      /\ UNCHANGED <<graph, names, degree, counters, units, bits, offsets, parts, shuffleNum, sorted>>
  BY DEF StartFill, makeVars
<1>2. DegreesCounted /\ Falling(sorted) /\ ShuffledAll /\ ShuffledSoFar /\ units \in [Ids -> Ids]
  BY <1>1 DEF OrderInv
<1>3. /\ VNum \in Nat \ {0} /\ Ids = 0 .. VNum - 1
      /\ shuffleNum \in Nat \ {0} /\ FirstSize \in Nat \ {0}
      /\ Dealt \in Nat \ {0} /\ next = Dealt
  <2>1. shuffleNum \in Nat \ {0} => shuffleNum \in 1 .. shuffleNum
    OBVIOUS
  <2>2. parts[shuffleNum] = [begin |-> (shuffleNum - 1) * FirstSize, end |-> shuffleNum * FirstSize]
    BY <1>1, <2>1, ShuffledIs
  <2> QED
    BY <1>1, <2>2, ShuffledIs DEF Dealt
<1>4. ASSUME NEW v \in Ids PROVE units[v] = sorted[Source(v)]
  <2>1. ASSUME v < Dealt PROVE Turn(v) < next
    <3>1. v \in 0 .. Dealt - 1
      BY <1>3, <2>1
    <3>2. Turn(v) \in 0 .. Dealt - 1
      BY <1>3, <3>1, TurnIs
    <3> QED
      BY <1>3, <3>2
  <2>2. v >= Dealt \/ Turn(v) < next
    BY <1>3, <2>1
  <2> QED
    BY <1>2, <2>2 DEF ShuffledSoFar
<1>5. Ids' = Ids /\ ShuffledAll' = ShuffledAll /\ \A v : Source(v)' = Source(v)
  BY <1>1, TurnsKept
<1>6. DegreesCounted'
  BY <1>1, <1>2, DegreesKept
<1> QED
  BY <1>1, <1>2, <1>4, <1>5, <1>6 DEF OrderInv, Falling

\* The fill loop leaves the order alone.
LEMMA FilledOrder ==
    ASSUME OrderInv, phase \in {"fill", "done"}, phase' \in {"fill", "done"},
           UNCHANGED <<graph, names, degree, counters, units, bits, offsets, shuffleNum, sorted>>
    PROVE  OrderInv'
<1>1. Ids' = Ids /\ ShuffledAll' = ShuffledAll /\ \A v : Source(v)' = Source(v)
  BY TurnsKept
<1>2. DegreesCounted'
  BY DegreesKept DEF OrderInv
<1> QED
  BY <1>1, <1>2 DEF OrderInv, Laid, Falling

LEMMA OrderInit == ASSUME GraphInit PROVE OrderInv
  BY DEF GraphInit, OrderInv, Laid

LEMMA OrderStep == ASSUME GroupsFit, LayoutIInv, OrderInv, [GraphNext]_graphVars PROVE OrderInv'
<1>1. CASE ReadEdge
  BY <1>1 DEF ReadEdge, makeVars, OrderInv, Laid
<1>2. CASE PlaceVertex
  BY <1>2, PlaceVertexOrder
<1>3. CASE EndFill
  BY <1>3, FilledOrder DEF EndFill, makeVars
<1>4. ASSUME NEW t \in Team, FillStep(t) PROVE OrderInv'
  BY <1>4, FilledOrder DEF FillStep, ClaimSlot, WriteSlot, makeVars
<1>5. CASE UNCHANGED graphVars
  <2>1. UNCHANGED <<phase, next, graph, names, degree, counters, units, bits, offsets, parts, shuffleNum,
                    sorted, room>>
    BY <1>5 DEF graphVars
  <2>2. /\ Ids' = Ids /\ VNum' = VNum /\ ShuffledAll' = ShuffledAll /\ Dealt' = Dealt
        /\ FirstSize' = FirstSize /\ \A v : Source(v)' = Source(v) /\ Turn(v)' = Turn(v)
        /\ \A p, k : HadTurn(p, k)' = HadTurn(p, k)
    BY <2>1, TurnsKept
  <2>3. DegreesCounted => DegreesCounted'
    BY <2>1, DegreesKept
  <2>4. \A id : Rank(id)' = Rank(id) /\ Smaller(id)' = Smaller(id) /\ Passed(id)' = Passed(id)
    BY <2>1, <2>2 DEF Rank, Precedes, Smaller, Passed
  <2>5. SortedSoFar => SortedSoFar'
    BY <2>1, <2>2, <2>4 DEF SortedSoFar
  <2>6. ShuffledSoFar => ShuffledSoFar'
    BY <2>1, <2>2 DEF ShuffledSoFar
  <2>7. (Falling(units) => Falling(units)') /\ (Falling(sorted) => Falling(sorted)')
    BY <2>1, <2>2 DEF Falling
  <2> QED
    BY <2>1, <2>2, <2>3, <2>5, <2>6, <2>7 DEF OrderInv, Laid
<1> QED
  BY <1>1, <1>2, <1>3, <1>4, <1>5, CountDegreesOrder, SortVertexOrder, TakeHintsOrder, AddGroupOrder,
     StartShuffleOrder, StartFillOrder DEF GraphNext, Serial, Finished
-----------------------------------------------------------------------------
(* The layout: what the shuffle achieves                                   *)

\* Where a vertex of the laid graph comes from.
LEMMA SourceIs ==
    ASSUME GroupsFit, LayoutIInv, OrderInv, Laid
    PROVE  /\ \A v \in Ids : Source(v) \in Ids /\ units[v] = sorted[Source(v)]
           /\ \A v \in Ids : v < Dealt => Source(v) = Turn(v) /\ Source(v) < Dealt
           /\ \A v \in Ids : v >= Dealt => Source(v) = v
           /\ \A u, v \in Ids : Source(u) = Source(v) => u = v
<1>1. phase \in {"shuffle", "fill", "done"} /\ \A v \in Ids : units[v] = sorted[Source(v)]
  BY DEF Laid, OrderInv
<1>2. /\ VNum \in Nat \ {0} /\ Ids = 0 .. VNum - 1
      /\ shuffleNum \in Nat \ {0} /\ FirstSize \in Nat \ {0}
      /\ Dealt \in Nat \ {0} /\ Dealt <= VNum
  BY <1>1, ShuffledIs
<1>3. ASSUME NEW v \in Ids, v < Dealt
      PROVE  v \in 0 .. Dealt - 1 /\ Source(v) = Turn(v) /\ Source(v) < Dealt /\ Source(v) \in Ids
  <2>1. v \in 0 .. Dealt - 1
    BY <1>2, <1>3
  <2>2. Turn(v) \in 0 .. Dealt - 1
    BY <1>2, <2>1, TurnIs
  <2> QED
    BY <1>2, <1>3, <2>1, <2>2 DEF Source
<1>4. ASSUME NEW v \in Ids, v >= Dealt PROVE Source(v) = v
  BY <1>2, <1>4 DEF Source
<1>5. ASSUME NEW u \in Ids, NEW v \in Ids, Source(u) = Source(v) PROVE u = v
  <2>1. CASE u < Dealt /\ v < Dealt
    BY <1>2, <1>3, <1>5, <2>1, TurnUnique
  <2>2. CASE u >= Dealt /\ v >= Dealt
    BY <1>4, <1>5, <2>2
  <2>3. CASE u < Dealt /\ v >= Dealt
    BY <1>2, <1>3, <1>4, <1>5, <2>3
  <2>4. CASE u >= Dealt /\ v < Dealt
    BY <1>2, <1>3, <1>4, <1>5, <2>4
  <2> QED
    BY <1>2, <2>1, <2>2, <2>3, <2>4
<1> QED
  BY <1>1, <1>2, <1>3, <1>4, <1>5

\* No vertex is lost.
LEMMA UnitsOnto ==
    ASSUME GroupsFit, LayoutIInv, OrderInv, Laid
    PROVE  /\ units \in [Ids -> Ids]
           /\ \A u, v \in Ids : units[u] = units[v] => u = v
           /\ \A id \in Ids : \E v \in Ids : units[v] = id
<1>1. phase # "load" /\ phase \in {"shuffle", "fill", "done"}
  BY DEF Laid
<1>2. Falling(sorted) /\ units \in [Ids -> Ids]
  BY <1>1 DEF OrderInv
<1>3. VNum \in Nat /\ Ids = 0 .. VNum - 1
  BY <1>1, ShuffledIs
<1>4. \A u, v \in Ids : units[u] = units[v] => u = v
  <2> SUFFICES ASSUME NEW u \in Ids, NEW v \in Ids, units[u] = units[v] PROVE u = v
    OBVIOUS
  <2>1. Source(u) \in Ids /\ Source(v) \in Ids /\ sorted[Source(u)] = sorted[Source(v)]
    BY SourceIs
  <2>2. Source(u) = Source(v)
    BY <1>2, <2>1 DEF Falling
  <2> QED
    BY <2>2, SourceIs
<1>5. \A id \in Ids : \E v \in Ids : units[v] = id
  <2> DEFINE S == 0 .. VNum - 1
  <2>1. Ids = S /\ units \in [S -> S] /\ \A u, v \in S : units[u] = units[v] => u = v
    BY <1>2, <1>3, <1>4
  <2>2. \A id \in S : \E v \in S : units[v] = id
    BY <1>3, <2>1, OntoInterval
  <2> HIDE DEF S
  <2> QED
    BY <2>1, <2>2
<1> QED
  BY <1>2, <1>4, <1>5

LEMMA DegreesFallFollows == ASSUME GroupsFit, LayoutIInv, OrderInv PROVE DegreesFall
<1> SUFFICES ASSUME Sorted, phase # "shuffle" PROVE DegreesFall
  BY DEF DegreesFall
<1>1. phase = "groups" \/ Laid
  BY DEF Sorted, Laid, LayoutIInv
<1>2. CASE phase = "groups"
  <2>1. Falling(units)
    BY <1>2 DEF OrderInv
  <2> QED
    BY <2>1 DEF DegreesFall, Falling, Degree
<1>3. CASE Laid
  <2>1. phase \in {"shuffle", "fill", "done"} /\ Falling(sorted) /\ DegreesCounted
    BY <1>3 DEF Laid, OrderInv
  <2>2. /\ VNum \in Nat \ {0} /\ Ids = 0 .. VNum - 1
        /\ shuffleNum \in Nat \ {0} /\ FirstSize \in Nat \ {0}
        /\ Dealt \in Nat \ {0} /\ Dealt <= VNum
        /\ \A p \in 1 .. shuffleNum :
              p \in DOMAIN parts /\ parts[p] = [begin |-> (p - 1) * FirstSize, end |-> p * FirstSize]
    BY <2>1, ShuffledIs
  <2>3. \A v \in Ids : Degree(v) = degree[sorted[Source(v)]] /\ Source(v) \in Ids
    BY <1>3, SourceIs DEF Degree
  <2>4. \A u, v \in Ids : Source(u) < Source(v) => Degree(u) >= Degree(v)
    BY <2>1, <2>3 DEF Falling
  <2>5. ASSUME NEW u \in Ids, NEW v \in Ids, u < v, v >= Dealt PROVE Degree(u) >= Degree(v)
    <3>1. Source(v) = v /\ (u >= Dealt => Source(u) = u) /\ (u < Dealt => Source(u) < Dealt)
      BY <1>3, <2>5, SourceIs
    <3>2. Source(u) \in Int /\ u \in Int /\ v \in Int
      BY <2>2, <2>3
    <3>3. Source(u) < Source(v)
      BY <2>2, <2>5, <3>1, <3>2
    <3> QED
      BY <2>4, <3>3
  <2>6. parts[shuffleNum].end = Dealt
    <3>1. shuffleNum \in 1 .. shuffleNum
      BY <2>2
    <3>2. parts[shuffleNum] = [begin |-> (shuffleNum - 1) * FirstSize, end |-> shuffleNum * FirstSize]
      BY <2>2, <3>1
    <3> QED
      BY <3>2 DEF Dealt
  <2>7. ASSUME NEW v \in Ids, v < Dealt, NEW p \in Partitions, Holds(p, v)
        PROVE  v \in 0 .. Dealt - 1 /\ p = v \div FirstSize
    <3> DEFINE q == v \div FirstSize
    <3>1. /\ v \in 0 .. Dealt - 1
          /\ q \in 0 .. shuffleNum - 1 /\ v % FirstSize \in 0 .. FirstSize - 1
          /\ v = FirstSize * q + (v % FirstSize)
      <4>1. v \in 0 .. Dealt - 1
        BY <2>2, <2>7
      <4> QED
        BY <2>2, <4>1, TurnIs
    <3> HIDE DEF q
    <3>2. q + 1 \in 1 .. shuffleNum /\ (q + 1) - 1 = q
      BY <2>2, <3>1
    <3>3. q + 1 \in DOMAIN parts /\ parts[q + 1] = [begin |-> q * FirstSize, end |-> (q + 1) * FirstSize]
      BY <2>2, <3>2
    <3>4. q * FirstSize = FirstSize * q /\ (q + 1) * FirstSize = FirstSize * q + FirstSize
          /\ FirstSize * q \in Nat
      <4>1. q \in Nat /\ FirstSize \in Nat
        BY <2>2, <3>1
      <4> QED
        BY <4>1, Z3
    <3>5. Holds(q, v)
      BY <2>2, <3>1, <3>3, <3>4 DEF Holds
    <3>6. q \in Partitions
      <4>1. parts \in Seq([begin : Int, end : Int])
        BY <2>1 DEF LayoutIInv, GroupsLaid, LaidUpTo
      <4> QED
        BY <2>2, <3>1, <3>3, <4>1 DEF Partitions
    <3>7. {x \in Partitions : Holds(x, v)} = {GetVertexPartitionId(v)}
      BY <2>1, LookupFollows DEF LookupAgrees
    <3>8. p = q
      BY <2>7, <3>5, <3>6, <3>7
    <3> QED
      BY <3>1, <3>8 DEF q
  <2>8. ASSUME NEW u \in Ids, NEW v \in Ids, u < v, v < Dealt, NEW p \in Partitions, Holds(p, u), Holds(p, v)
        PROVE  Degree(u) >= Degree(v)
    <3>1. u < Dealt
      BY <2>2, <2>8
    <3>2. /\ u \in 0 .. Dealt - 1 /\ v \in 0 .. Dealt - 1
          /\ u \div FirstSize = p /\ v \div FirstSize = p
      BY <2>7, <2>8, <3>1
    <3> DEFINE r == u % FirstSize
               s == v % FirstSize
               k == Turn(u)
               l == Turn(v)
    <3>3. \A w \in 0 .. Dealt - 1 :
             /\ w = FirstSize * (w \div FirstSize) + (w % FirstSize) /\ w % FirstSize \in Nat
             /\ Turn(w) \in Nat /\ Turn(w) \div shuffleNum = w % FirstSize
      <4> SUFFICES ASSUME NEW w \in 0 .. Dealt - 1
                   PROVE  /\ w = FirstSize * (w \div FirstSize) + (w % FirstSize) /\ w % FirstSize \in Nat
                          /\ Turn(w) \in Nat /\ Turn(w) \div shuffleNum = w % FirstSize
        OBVIOUS
      <4>1. /\ w = FirstSize * (w \div FirstSize) + (w % FirstSize) /\ w % FirstSize \in 0 .. FirstSize - 1
            /\ Turn(w) \in 0 .. Dealt - 1 /\ Turn(w) \div shuffleNum = w % FirstSize
        BY <2>2, TurnIs
      <4> QED
        BY <2>2, <4>1
    <3>4. /\ u = FirstSize * p + r /\ k \in Nat /\ k \div shuffleNum = r /\ r \in Nat
          /\ v = FirstSize * p + s /\ l \in Nat /\ l \div shuffleNum = s /\ s \in Nat
      BY <3>2, <3>3
    <3>5. FirstSize * p \in Int
      <4>1. p \in Int
        BY DEF Partitions
      <4> QED
        BY <2>2, <4>1
    <3>6. r < s
      <4> HIDE DEF r, s
      <4> QED
        BY <2>8, <3>4, <3>5
    <3>7. k \in Nat /\ l \in Nat /\ Source(u) = k /\ Source(v) = l
      BY <1>3, <2>8, <3>1, <3>4, SourceIs
    <3>8. k = shuffleNum * r + (k % shuffleNum) /\ k % shuffleNum \in 0 .. shuffleNum - 1
      BY <2>2, <3>4, DivMod
    <3>9. l = shuffleNum * s + (l % shuffleNum) /\ l % shuffleNum \in 0 .. shuffleNum - 1
      BY <2>2, <3>4, DivMod
    <3> HIDE DEF r, s, k, l
    <3>10. k < l
      <4>1. PICK d \in Nat : s = r + 1 + d
        <5>1. s - r - 1 \in Nat /\ s = r + 1 + (s - r - 1)
          BY <3>4, <3>6
        <5> QED
          BY <5>1
      <4>2. shuffleNum * s = shuffleNum * r + shuffleNum + shuffleNum * d
            /\ shuffleNum * d \in Nat /\ shuffleNum * r \in Nat
        <5>1. shuffleNum \in Nat /\ r \in Nat /\ s \in Nat
          BY <2>2, <3>4
        <5> QED
          BY <4>1, <5>1, Z3
      <4> QED
        <5>1. k < shuffleNum * r + shuffleNum
          BY <2>2, <3>8, <3>4, <4>2
        <5>2. l >= shuffleNum * s
          BY <2>2, <3>9, <3>4, <4>2
        <5>3. PICK x, z \in Nat : x = shuffleNum * r /\ z = shuffleNum * d
          BY <4>2
        <5>4. k < x + shuffleNum /\ l >= x + shuffleNum + z
          BY <4>2, <5>1, <5>2, <5>3
        <5> QED
          BY <2>2, <3>4, <5>3, <5>4
    <3> QED
      BY <2>4, <3>7, <3>10
  <2>9. \A id \in Ids : \E v \in Ids : units[v] = id
    BY <1>3, UnitsOnto
  <2>10. ASSUME NEW u \in Ids, NEW v \in Ids, u < v
         PROVE  \/ Degree(u) >= Degree(v)
                \/ v < parts[shuffleNum].end /\ \A p \in Partitions : ~(Holds(p, u) /\ Holds(p, v))
    <3>1. v >= Dealt \/ v < Dealt
      BY <2>2
    <3> QED
      BY <2>5, <2>6, <2>8, <2>10, <3>1
  <2> QED
    BY <1>3, <2>9, <2>10 DEF DegreesFall
<1> QED
  BY <1>1, <1>2, <1>3

\* What one sum is ahead in even rounds the other makes up for in odd ones.
LEMMA TurnsEvenOut ==
    ASSUME NEW a, NEW b, NEW n \in Nat, NEW m \in Nat,
           \A i \in 0 .. n - 1 :
              /\ a[i] \in Nat /\ b[i] \in Nat
              /\ i % 2 = 0 => b[i] <= a[i] /\ a[i] - b[i] <= m
              /\ i % 2 # 0 => a[i] <= b[i] /\ b[i] - a[i] <= m
    PROVE  /\ Sum(a, n) - Sum(b, n) <= CeilDiv(n, 2) * m
           /\ Sum(b, n) - Sum(a, n) <= CeilDiv(n, 2) * m
<1> DEFINE Even(k) == (k + 1) \div 2
           Odd(k)  == k \div 2
           S == {k \in Nat : k <= n => /\ Sum(a, k) \in Nat /\ Sum(b, k) \in Nat
                                       /\ Sum(a, k) - Sum(b, k) <= Even(k) * m
                                       /\ Sum(b, k) - Sum(a, k) <= Odd(k) * m}
<1>1. \A k \in Nat : /\ Even(k) \in Nat /\ Odd(k) \in Nat /\ Odd(k) <= Even(k)
                     /\ k % 2 = 0 => Even(k + 1) = Even(k) + 1 /\ Odd(k + 1) = Odd(k)
                     /\ k % 2 # 0 => Even(k + 1) = Even(k) /\ Odd(k + 1) = Odd(k) + 1
  BY Z3
<1>2. Even(0) = 0 /\ Odd(0) = 0
  BY Z3
<1>3. 0 \in S
  BY <1>2, SumStep
<1>4. ASSUME NEW k \in Nat, k \in S PROVE k + 1 \in S
  <2> SUFFICES ASSUME k + 1 <= n
               PROVE  /\ Sum(a, k + 1) \in Nat /\ Sum(b, k + 1) \in Nat
                      /\ Sum(a, k + 1) - Sum(b, k + 1) <= Even(k + 1) * m
                      /\ Sum(b, k + 1) - Sum(a, k + 1) <= Odd(k + 1) * m
    OBVIOUS
  <2>1. /\ Sum(a, k) \in Nat /\ Sum(b, k) \in Nat
        /\ Sum(a, k) - Sum(b, k) <= Even(k) * m /\ Sum(b, k) - Sum(a, k) <= Odd(k) * m
    BY <1>4
  <2>2. /\ a[k] \in Nat /\ b[k] \in Nat
        /\ k % 2 = 0 => b[k] <= a[k] /\ a[k] - b[k] <= m
        /\ k % 2 # 0 => a[k] <= b[k] /\ b[k] - a[k] <= m
    <3>1. k \in 0 .. n - 1
      OBVIOUS
    <3> QED
      BY <3>1
  <2>3. Sum(a, k + 1) = Sum(a, k) + a[k] /\ Sum(b, k + 1) = Sum(b, k) + b[k]
    BY SumStep
  <2> DEFINE e == Even(k)
             o == Odd(k)
  <2>4. e \in Nat /\ o \in Nat
    BY <1>1
  <2>5. CASE k % 2 = 0
    <3>1. Even(k + 1) = e + 1 /\ Odd(k + 1) = o
      BY <1>1, <2>5
    <3> HIDE DEF Even, Odd, e, o
    <3>2. (e + 1) * m = e * m + m /\ e * m \in Nat /\ o * m \in Nat
      BY <2>4, Z3
    <3> QED
      BY <2>1, <2>2, <2>3, <2>5, <3>1, <3>2 DEF e, o
  <2>6. CASE k % 2 # 0
    <3>1. Even(k + 1) = e /\ Odd(k + 1) = o + 1
      BY <1>1, <2>6
    <3> HIDE DEF Even, Odd, e, o
    <3>2. (o + 1) * m = o * m + m /\ e * m \in Nat /\ o * m \in Nat
      BY <2>4, Z3
    <3> QED
      BY <2>1, <2>2, <2>3, <2>6, <3>1, <3>2 DEF e, o
  <2> QED
    BY <2>5, <2>6
<1> HIDE DEF S
<1>5. Nat \subseteq S
  BY <1>3, <1>4, Induction
<1>6. CeilDiv(n, 2) = Even(n)
  <2>1. n + 2 - 1 = n + 1
    OBVIOUS
  <2> QED
    BY <2>1 DEF CeilDiv
<1>7. /\ Sum(a, n) \in Nat /\ Sum(b, n) \in Nat /\ Even(n) \in Nat /\ Odd(n) \in Nat /\ Odd(n) <= Even(n)
      /\ Sum(a, n) - Sum(b, n) <= Even(n) * m /\ Sum(b, n) - Sum(a, n) <= Odd(n) * m
  <2>1. n \in S
    BY <1>5
  <2>2. /\ Sum(a, n) \in Nat /\ Sum(b, n) \in Nat
        /\ Sum(a, n) - Sum(b, n) <= Even(n) * m /\ Sum(b, n) - Sum(a, n) <= Odd(n) * m
    BY <2>1 DEF S
  <2>3. Even(n) \in Nat /\ Odd(n) \in Nat /\ Odd(n) <= Even(n)
    BY <1>1
  <2> QED
    BY <2>2, <2>3
<1> HIDE DEF Even, Odd
<1>8. PICK d \in Nat : Even(n) = Odd(n) + d
  <2>1. Even(n) - Odd(n) \in Nat /\ Even(n) = Odd(n) + (Even(n) - Odd(n))
    BY <1>7
  <2> QED
    BY <2>1
<1>9. Even(n) * m = Odd(n) * m + d * m /\ d * m \in Nat /\ Odd(n) * m \in Nat
  <2>1. Odd(n) \in Nat
    BY <1>7
  <2> QED
    BY <1>8, <2>1, Z3
<1> QED
  BY <1>6, <1>7, <1>9

LEMMA BalanceFollows == ASSUME GroupsFit, LayoutIInv, OrderInv PROVE ShuffleBalanced
<1> SUFFICES ASSUME Laid PROVE ShuffleBalanced
  BY DEF ShuffleBalanced
<1>1. phase \in {"shuffle", "fill", "done"} /\ Falling(sorted) /\ DegreesCounted
  BY DEF Laid, OrderInv
<1> DEFINE n == shuffleNum
           size == FirstSize
           D(k) == degree[sorted[k]]
           Drop(r) == D((r - 1) * n) - D(r * n - 1)
           most == Max({Drop(r) : r \in 1 .. size})
           amounts(p) == [i \in 0 .. size - 1 |-> Degree((p - 1) * size + i)]
<1>2. /\ VNum \in Nat \ {0} /\ Ids = 0 .. VNum - 1
      /\ n \in Nat \ {0} /\ size \in Nat \ {0} /\ n * size \in Nat /\ n * size <= VNum /\ Dealt = n * size
      /\ \A p \in 1 .. n : parts[p] = [begin |-> (p - 1) * size, end |-> p * size]
  BY <1>1, ShuffledIs DEF Dealt
<1>3. \A k, l \in Ids : D(k) \in Nat /\ (k <= l => D(k) >= D(l))
  <2> SUFFICES ASSUME NEW k \in Ids, NEW l \in Ids PROVE D(k) \in Nat /\ (k <= l => D(k) >= D(l))
    OBVIOUS
  <2>1. sorted[k] \in Ids /\ degree \in [Ids -> Nat \ {0}]
    BY <1>1 DEF Falling, DegreesCounted
  <2>2. k < l => D(k) >= D(l)
    BY <1>1 DEF Falling
  <2>3. k = l => D(k) >= D(l)
    BY <2>1
  <2> QED
    BY <1>2, <2>1, <2>2, <2>3
<1>4. ASSUME NEW p \in 1 .. n, NEW i \in 0 .. size - 1
      PROVE  Degree((p - 1) * size + i) = D(n * i + (IF i % 2 = 0 THEN p - 1 ELSE n - p))
  <2> DEFINE v == (p - 1) * size + i
  <2>1. v \in Ids /\ v < Dealt /\ v \div size = p - 1 /\ v % size = i /\ v \in Nat
    <3>1. PICK d \in Nat : n = (p - 1) + 1 + d
      <4>1. n - p \in Nat /\ n = (p - 1) + 1 + (n - p)
        BY <1>2
      <4> QED
        BY <4>1
    <3>2. p - 1 \in Nat /\ i \in Nat /\ i < size
      BY <1>2
    <3> DEFINE x == p - 1
    <3> HIDE DEF x, size, n
    <3>3. n * size = x * size + size + d * size /\ d * size \in Nat /\ x * size \in Nat /\ x * size = size * x
      <4>1. n = x + 1 + d /\ x \in Nat /\ size \in Nat
        BY <1>2, <3>1, <3>2 DEF x
      <4> QED
        BY <4>1, Z3
    <3>4. v = size * x + i /\ v \in Nat /\ v < n * size
      BY <1>2, <3>2, <3>3 DEF x
    <3>5. v \div size = x /\ v % size = i
      BY <1>2, <3>2, <3>4, DivUnique DEF x
    <3> QED
      BY <1>2, <3>4, <3>5 DEF x
  <2>2. Source(v) = n * i + (IF i % 2 = 0 THEN v \div size ELSE n - 1 - (v \div size))
    <3>1. Source(v) = Turn(v)
      BY <2>1, SourceIs
    <3> HIDE DEF v
    <3> QED
      BY <2>1, <3>1 DEF Turn
  <2>3. Degree(v) = D(Source(v))
    BY <2>1, SourceIs DEF Degree
  <2> HIDE DEF v
  <2>4. n - 1 - (v \div size) = n - p
    BY <1>2, <2>1
  <2>5. Source(v) = n * i + (IF i % 2 = 0 THEN p - 1 ELSE n - p)
    BY <2>1, <2>2, <2>4
  <2> HIDE DEF D
  <2> QED
    BY <2>3, <2>5 DEF v
<1>5. \A i \in 0 .. size - 1 : \A x \in 0 .. n - 1 : n * i + x \in Ids
  <2> SUFFICES ASSUME NEW i \in 0 .. size - 1, NEW x \in 0 .. n - 1 PROVE n * i + x \in Ids
    OBVIOUS
  <2> HIDE DEF n, size
  <2>1. PICK d \in Nat : size = i + 1 + d
    <3>1. size - i - 1 \in Nat /\ size = i + 1 + (size - i - 1)
      BY <1>2
    <3> QED
      BY <3>1
  <2>2. n * size = n * i + n + n * d /\ n * d \in Nat /\ n * i \in Nat
    <3>1. n \in Nat /\ i \in Nat
      BY <1>2
    <3> QED
      BY <2>1, <3>1, Z3
  <2> QED
    BY <1>2, <2>2
<1>6. \A i \in 0 .. size - 1 :
         /\ Drop(i + 1) = D(n * i + 0) - D(n * i + (n - 1))
         /\ Drop(i + 1) \in Nat
  <2> SUFFICES ASSUME NEW i \in 0 .. size - 1
               PROVE  Drop(i + 1) = D(n * i + 0) - D(n * i + (n - 1)) /\ Drop(i + 1) \in Nat
    OBVIOUS
  <2>1. n * i + 0 \in Ids /\ n * i + (n - 1) \in Ids
    BY <1>2, <1>5
  <2>2. n * i + 0 <= n * i + (n - 1)
    BY <1>2, <2>1
  <2>3. ((i + 1) - 1) * n = n * i + 0 /\ (i + 1) * n - 1 = n * i + (n - 1)
    <3> HIDE DEF n
    <3>1. n \in Nat /\ i \in Nat
      BY <1>2
    <3>2. (i + 1) * n = n * i + n /\ ((i + 1) - 1) * n = n * i /\ n * i \in Nat
      BY <3>1, Z3
    <3> QED
      BY <3>1, <3>2
  <2>4. Drop(i + 1) = D(n * i + 0) - D(n * i + (n - 1))
    BY <2>3
  <2> QED
    BY <1>3, <2>1, <2>2, <2>4
<1>7. most \in Nat /\ \A i \in 0 .. size - 1 : Drop(i + 1) <= most
  <2> DEFINE S == {Drop(r) : r \in 1 .. size}
  <2>1. \A r \in 1 .. size : r - 1 \in 0 .. size - 1 /\ (r - 1) + 1 = r
    BY <1>2
  <2>2. S \in SUBSET Nat
    BY <1>6, <2>1
  <2>3. \A i \in 0 .. size - 1 : i + 1 \in 1 .. size
    BY <1>2
  <2>4. 0 \in 0 .. size - 1
    BY <1>2
  <2>5. S # {} /\ \A i \in 0 .. size - 1 : Drop(i + 1) \in S
    BY <2>3, <2>4
  <2>6. IsFiniteSet(S)
    <3> DEFINE drops == [r \in 1 .. size |-> Drop(r)]
    <3>1. drops \in Surjection(1 .. size, S)
      BY DEF Surjection
    <3>2. IsFiniteSet(1 .. size)
      BY <1>2, FS_Interval
    <3> HIDE DEF drops, S
    <3> QED
      BY <3>1, <3>2, FS_Surjection
  <2> HIDE DEF S
  <2>7. Max(S) \in S /\ \A x \in S : x <= Max(S)
    BY <2>2, <2>5, <2>6, MaxIs
  <2> QED
    BY <2>2, <2>5, <2>7 DEF S
<1> HIDE DEF most
<1>8. \A i \in 0 .. size - 1 : \A x, y \in 0 .. n - 1 :
         /\ D(n * i + x) \in Nat /\ D(n * i + x) - D(n * i + y) <= most
         /\ x <= y => D(n * i + x) >= D(n * i + y)
  <2> SUFFICES ASSUME NEW i \in 0 .. size - 1, NEW x \in 0 .. n - 1, NEW y \in 0 .. n - 1
               PROVE  /\ D(n * i + x) \in Nat /\ D(n * i + x) - D(n * i + y) <= most
                      /\ x <= y => D(n * i + x) >= D(n * i + y)
    OBVIOUS
  <2> DEFINE begin == n * i
  <2>1. begin + x \in Ids /\ begin + y \in Ids /\ begin + 0 \in Ids /\ begin + (n - 1) \in Ids /\ begin \in Int
    BY <1>2, <1>5
  <2>2. begin + 0 <= begin + x /\ begin + y <= begin + (n - 1) /\ (x <= y => begin + x <= begin + y)
    <3> HIDE DEF begin
    <3> QED
      BY <1>2, <2>1
  <2>3. D(begin + 0) - D(begin + (n - 1)) <= most
    BY <1>6, <1>7
  <2> HIDE DEF D, begin
  <2>4. /\ D(begin + 0) \in Nat /\ D(begin + x) \in Nat /\ D(begin + y) \in Nat /\ D(begin + (n - 1)) \in Nat
        /\ D(begin + 0) >= D(begin + x) /\ D(begin + y) >= D(begin + (n - 1))
        /\ x <= y => D(begin + x) >= D(begin + y)
    BY <1>3, <2>1, <2>2
  <2>5. D(begin + x) - D(begin + y) <= most
    BY <1>7, <2>3, <2>4
  <2> QED
    BY <2>4, <2>5 DEF begin
<1> HIDE DEF D, Drop
<1>9. ASSUME NEW p \in 1 .. n, NEW q \in 1 .. n, p < q
      PROVE  /\ Sum(amounts(p), size) - Sum(amounts(q), size) <= CeilDiv(size, 2) * most
             /\ Sum(amounts(q), size) - Sum(amounts(p), size) <= CeilDiv(size, 2) * most
  <2>1. ASSUME NEW i \in 0 .. size - 1
        PROVE  LET a == amounts(p)[i]
                   b == amounts(q)[i]
               IN  /\ a \in Nat /\ b \in Nat
                   /\ i % 2 = 0 => b <= a /\ a - b <= most
                   /\ i % 2 # 0 => a <= b /\ b - a <= most
    <3>1. /\ amounts(p)[i] = D(n * i + (IF i % 2 = 0 THEN p - 1 ELSE n - p))
          /\ amounts(q)[i] = D(n * i + (IF i % 2 = 0 THEN q - 1 ELSE n - q))
      BY <1>4
    <3>2. /\ p - 1 \in 0 .. n - 1 /\ q - 1 \in 0 .. n - 1 /\ p - 1 <= q - 1
          /\ n - p \in 0 .. n - 1 /\ n - q \in 0 .. n - 1 /\ n - q <= n - p
      BY <1>2, <1>9
    <3> HIDE DEF amounts
    <3>3. CASE i % 2 = 0
      BY <1>8, <3>1, <3>2, <3>3
    <3>4. CASE i % 2 # 0
      BY <1>8, <3>1, <3>2, <3>4
    <3> QED
      BY <3>3, <3>4
  <2>2. size \in Nat /\ most \in Nat
    BY <1>2, <1>7
  <2> HIDE DEF amounts, size
  <2> QED
    BY <2>1, <2>2, TurnsEvenOut
<1>10. \A p \in 1 .. n : Sum(amounts(p), size) \in Nat
  <2> SUFFICES ASSUME NEW p \in 1 .. n PROVE Sum(amounts(p), size) \in Nat
    OBVIOUS
  <2>1. \A i \in 0 .. size - 1 : amounts(p)[i] \in Nat
    <3> SUFFICES ASSUME NEW i \in 0 .. size - 1 PROVE amounts(p)[i] \in Nat
      OBVIOUS
    <3>1. amounts(p)[i] = D(n * i + (IF i % 2 = 0 THEN p - 1 ELSE n - p))
      BY <1>4
    <3>2. p - 1 \in 0 .. n - 1 /\ n - p \in 0 .. n - 1
      BY <1>2
    <3> QED
      BY <1>8, <3>1, <3>2
  <2>2. size \in Nat
    BY <1>2
  <2> HIDE DEF amounts, size
  <2> QED
    BY <2>1, <2>2, SumType
<1>11. CeilDiv(size, 2) * most \in Nat
  <2>1. CeilDiv(size, 2) \in Nat
    BY <1>2, CeilDivIs
  <2> QED
    BY <1>7, <2>1
<1> HIDE DEF amounts
<1>12. ASSUME NEW p \in 1 .. n, NEW q \in 1 .. n
       PROVE  Sum(amounts(p), size) - Sum(amounts(q), size) <= CeilDiv(size, 2) * most
  <2>1. CASE p = q
    BY <1>10, <1>11, <2>1
  <2>2. CASE p < q
    BY <1>9, <2>2
  <2>3. CASE q < p
    BY <1>9, <2>3
  <2> QED
    BY <1>2, <2>1, <2>2, <2>3
<1>13. parts[1].end = size
  <2>1. 1 \in 1 .. n
    BY <1>2
  <2>2. parts[1] = [begin |-> (1 - 1) * size, end |-> 1 * size]
    BY <1>2, <2>1
  <2>3. size \in Nat
    BY <1>2
  <2> HIDE DEF size
  <2>4. 1 * size = size
    BY <2>3
  <2> QED
    BY <2>2, <2>4
<1>14. \A p \in 1 .. n :
          LET length == parts[p].end - parts[p].begin
          IN  Sum([i \in 0 .. length - 1 |-> Degree(parts[p].begin + i)], length) = Sum(amounts(p), size)
  <2> SUFFICES ASSUME NEW p \in 1 .. n
               PROVE  LET length == parts[p].end - parts[p].begin IN
                      /\ length = size
                      /\ [i \in 0 .. length - 1 |-> Degree(parts[p].begin + i)] = amounts(p)
    OBVIOUS
  <2>1. parts[p].begin = (p - 1) * size /\ parts[p].end = p * size
    <3>1. parts[p] = [begin |-> (p - 1) * size, end |-> p * size]
      BY <1>2
    <3> HIDE DEF size
    <3> QED
      BY <3>1
  <2>2. p * size - (p - 1) * size = size
    <3> HIDE DEF size
    <3>1. p \in Nat /\ size \in Nat
      BY <1>2
    <3>2. (p - 1) * size = p * size - size /\ p * size \in Nat
      BY <3>1, Z3
    <3> QED
      BY <3>1, <3>2
  <2> QED
    BY <2>1, <2>2 DEF amounts
<1>15. most = Max({degree[sorted[(r - 1) * shuffleNum]] - degree[sorted[r * shuffleNum - 1]] :
                      r \in 1 .. parts[1].end})
  BY <1>13 DEF most, Drop, D
<1> HIDE DEF size
<1> QED
  BY <1>12, <1>13, <1>14, <1>15 DEF ShuffleBalanced
-----------------------------------------------------------------------------
(* The layout: half edges                                                  *)

\* The j-th of the k halves of each edge of X.
HalvesIn(k, n, j, X) == {h \in 0 .. k * n - 1 : h % k = j /\ h \div k + 1 \in X}

\* There are as many of them as there are edges.
LEMMA HalvesOf ==
    ASSUME NEW k \in Nat \ {0}, NEW n \in Nat, NEW j \in 0 .. k - 1, NEW X \in SUBSET (1 .. n)
    PROVE  IsFiniteSet(HalvesIn(k, n, j, X)) /\ Cardinality(HalvesIn(k, n, j, X)) = Cardinality(X)
<1> DEFINE Y == {h \in 0 .. k * n - 1 : h % k = j /\ h \div k + 1 \in X}
           halfOf == [e \in X |-> k * (e - 1) + j]
<1>1. IsFiniteSet(X)
  <2>1. IsFiniteSet(1 .. n)
    BY FS_Interval
  <2> QED
    BY <2>1, FS_Subset
<1>2. ASSUME NEW e \in X
      PROVE  /\ halfOf[e] \in 0 .. k * n - 1
             /\ halfOf[e] % k = j /\ halfOf[e] \div k + 1 = e
  <2> DEFINE h == halfOf[e]
  <2>1. e - 1 \in Nat /\ e \in 1 .. n /\ h = k * (e - 1) + j
    OBVIOUS
  <2>2. PICK d \in Nat : n = (e - 1) + 1 + d
    <3>1. n - e \in Nat /\ n = (e - 1) + 1 + (n - e)
      BY <2>1
    <3> QED
      BY <3>1
  <2> HIDE DEF h
  <2> DEFINE i == e - 1
  <2>3. i \in Nat /\ n = i + 1 + d /\ h = k * i + j /\ e = i + 1
    BY <2>1, <2>2
  <2> HIDE DEF i
  <2>4. k * n = k * i + k + k * d /\ k * d \in Nat /\ k * i \in Nat
    BY <2>2, <2>3, Z3
  <2>5. h \in 0 .. k * n - 1 /\ h \in Nat
    BY <2>3, <2>4
  <2>6. h \div k = i /\ h % k = j
    BY <2>3, <2>5, DivUnique
  <2> QED
    BY <2>3, <2>5, <2>6 DEF h
<1>3. ASSUME NEW h \in Y PROVE h \div k + 1 \in X /\ halfOf[h \div k + 1] = h
  <2>1. h \in 0 .. k * n - 1 /\ h % k = j /\ h \div k + 1 \in X
    OBVIOUS
  <2>2. k * n \in Nat
    OBVIOUS
  <2>3. h \in Nat
    BY <2>1, <2>2
  <2>4. h \div k \in Nat /\ h = k * (h \div k) + (h % k)
    BY <2>3, DivMod
  <2> DEFINE q == h \div k
  <2>5. halfOf[q + 1] = k * ((q + 1) - 1) + j
    BY <2>1
  <2> HIDE DEF halfOf
  <2>6. (q + 1) - 1 = q
    BY <2>4
  <2> QED
    BY <2>1, <2>4, <2>5, <2>6
<1> HIDE DEF halfOf
<1>4. halfOf \in Bijection(X, Y)
  <2>1. halfOf \in [X -> Y]
    <3>1. DOMAIN halfOf = X /\ halfOf = [e \in X |-> halfOf[e]]
      BY DEF halfOf
    <3>2. \A e \in X : halfOf[e] \in Y
      BY <1>2
    <3> QED
      BY <3>1, <3>2
  <2>2. \A d, e \in X : halfOf[d] = halfOf[e] => d = e
    BY <1>2
  <2>3. \A h \in Y : \E e \in X : halfOf[e] = h
    BY <1>3
  <2> QED
    BY <2>1, <2>2, <2>3 DEF Bijection, Injection, Surjection, IsInjective
<1> QED
  BY <1>1, <1>4, FS_Bijection DEF ExistsBijection, HalvesIn

\* The edges of a laid graph, its names and the halves.
LEMMA EdgesAre ==
    ASSUME LayoutIInv
    PROVE  /\ Halves \in {1, 2} /\ (graph.undirected <=> Halves = 2)
           /\ Len(graph.edges) \in Nat \ {0} /\ DOMAIN graph.edges = 1 .. Len(graph.edges)
           /\ \A e \in DOMAIN graph.edges : graph.edges[e] \in Nat \X Nat
           /\ HalfEdges = 0 .. Halves * Len(graph.edges) - 1 /\ HalfEdges \subseteq Nat /\ IsFiniteSet(HalfEdges)
           /\ \A h \in HalfEdges : /\ h % Halves \in 0 .. Halves - 1
                                   /\ h \div Halves + 1 \in DOMAIN graph.edges
<1>1. graph \in RawGraphs
  BY DEF LayoutIInv
<1>2. graph.edges \in Seq(Nat \X Nat) /\ graph.edges # << >> /\ graph.undirected \in BOOLEAN
  BY <1>1, GraphAssumption
<1>3. Halves \in {1, 2} /\ (graph.undirected <=> Halves = 2)
  BY <1>2 DEF Halves
<1> DEFINE n == Len(graph.edges)
           k == Halves
<1>4. n \in Nat \ {0} /\ DOMAIN graph.edges = 1 .. n /\ \A e \in DOMAIN graph.edges : graph.edges[e] \in Nat \X Nat
  BY <1>2
<1> HIDE DEF n, k
<1>5. k \in Nat \ {0} /\ k * n \in Nat /\ HalfEdges = 0 .. k * n - 1
  BY <1>3, <1>4 DEF k, n, HalfEdges
<1>6. IsFiniteSet(HalfEdges)
  BY <1>5, FS_Interval
<1>7. ASSUME NEW h \in HalfEdges
      PROVE  h % k \in 0 .. k - 1 /\ h \div k + 1 \in 1 .. n
  <2>1. h \in Nat /\ h < k * n
    BY <1>5
  <2>2. h \div k \in Nat /\ h % k \in 0 .. k - 1
    BY <1>5, <2>1, DivMod
  <2>3. h \div k < n
    BY <1>4, <1>5, <2>1, DivLess
  <2> QED
    BY <1>4, <2>2, <2>3
<1> QED
  BY <1>3, <1>4, <1>5, <1>6, <1>7 DEF k, n

\* Where a vertex of the file ended up.
LEMMA NewIdIs ==
    ASSUME GroupsFit, LayoutIInv, OrderInv, Laid, NEW e \in DOMAIN graph.edges, NEW j \in {1, 2}
    PROVE  LET name == graph.edges[e][j] IN
           /\ IdOf(name) \in Ids /\ NewId(IdOf(name)) \in Ids
           /\ \A v \in Ids : /\ NewId(IdOf(name)) = v <=> IdOf(name) = units[v]
                             /\ NewId(IdOf(name)) = v <=> name = names[units[v] + 1]
<1> DEFINE name == graph.edges[e][j]
           id == IdOf(name)
<1>1. phase # "load"
  BY DEF Laid
<1>2. /\ names \in Seq(Nat) /\ \A i, l \in DOMAIN names : names[i] = names[l] => i = l
      /\ InList(names) = NamesOf(graph)
  BY <1>1 DEF LayoutIInv, NamesRead
<1>3. name \in InList(names)
  BY <1>2 DEF NamesOf
<1> HIDE DEF name
<1>4. id \in Ids /\ names[id + 1] = name /\ \A i \in Ids : names[i + 1] = name => id = i
  BY <1>2, <1>3, IdOfName
<1> HIDE DEF id
<1>5. units \in [Ids -> Ids] /\ \A u, v \in Ids : units[u] = units[v] => u = v
  BY UnitsOnto
<1>6. \E v \in Ids : units[v] = id
  BY <1>4, UnitsOnto
<1>7. NewId(id) \in Ids /\ units[NewId(id)] = id
  BY <1>6, Zenon DEF NewId
<1>8. \A v \in Ids : NewId(id) = v <=> id = units[v]
  BY <1>5, <1>7
<1>9. \A v \in Ids : id = units[v] <=> name = names[units[v] + 1]
  BY <1>4, <1>5
<1> QED
  BY <1>4, <1>7, <1>8, <1>9 DEF name, id

\* Both ends of a half edge are vertices.
LEMMA HalfIs ==
    ASSUME GroupsFit, LayoutIInv, OrderInv, Laid, NEW h \in HalfEdges
    PROVE  /\ From(h) \in Ids /\ To(h) \in Ids
           /\ \A v \in Ids :
                 /\ From(h) = v <=> IdOf(EdgeOf(h)[(h % Halves) + 1]) = units[v]
                 /\ From(h) = v <=> EdgeOf(h)[(h % Halves) + 1] = names[units[v] + 1]
                 /\ To(h) = v <=> EdgeOf(h)[2 - (h % Halves)] = names[units[v] + 1]
<1> DEFINE e == h \div Halves + 1
           j == (h % Halves) + 1
           l == 2 - (h % Halves)
<1>1. e \in DOMAIN graph.edges /\ j \in {1, 2} /\ l \in {1, 2}
  <2>1. e \in DOMAIN graph.edges /\ Halves \in {1, 2} /\ h \in Nat
    BY EdgesAre
  <2>2. h % Halves \in {0, 1}
    BY <2>1
  <2> QED
    BY <2>1, <2>2
<1>2. From(h) = NewId(IdOf(graph.edges[e][j])) /\ To(h) = NewId(IdOf(graph.edges[e][l])) /\ EdgeOf(h) = graph.edges[e]
  BY DEF From, To, EdgeOf
<1> HIDE DEF e, j, l
<1>3. /\ From(h) \in Ids
      /\ \A v \in Ids : /\ From(h) = v <=> IdOf(graph.edges[e][j]) = units[v]
                        /\ From(h) = v <=> graph.edges[e][j] = names[units[v] + 1]
  BY <1>1, <1>2, NewIdIs
<1>4. /\ To(h) \in Ids
      /\ \A v \in Ids : To(h) = v <=> graph.edges[e][l] = names[units[v] + 1]
  BY <1>1, <1>2, NewIdIs
<1>5. EdgeOf(h)[j] = graph.edges[e][j] /\ EdgeOf(h)[l] = graph.edges[e][l]
  BY <1>2
<1>6. /\ From(h) \in Ids /\ To(h) \in Ids
      /\ \A v \in Ids : /\ From(h) = v <=> IdOf(EdgeOf(h)[j]) = units[v]
                        /\ From(h) = v <=> EdgeOf(h)[j] = names[units[v] + 1]
                        /\ To(h) = v <=> EdgeOf(h)[l] = names[units[v] + 1]
  BY <1>3, <1>4, <1>5, Zenon
<1> QED
  BY <1>6, Zenon DEF j, l

\* Two sets of edges, of which one half each is in Y, or both in an undirected graph.
LEMMA CountHalves ==
    ASSUME LayoutIInv, NEW X1 \in SUBSET DOMAIN graph.edges, NEW X2 \in SUBSET DOMAIN graph.edges,
           NEW Y \in SUBSET HalfEdges,
           \A h \in HalfEdges : /\ h % Halves = 0 => (h \in Y <=> h \div Halves + 1 \in X1)
                                /\ h % Halves = 1 => (h \in Y <=> h \div Halves + 1 \in X2)
    PROVE  Cardinality(Y) = Cardinality(X1) + (IF graph.undirected THEN Cardinality(X2) ELSE 0)
<1> DEFINE k == Halves
           n == Len(graph.edges)
           Y1 == HalvesIn(k, n, 0, X1)
           Y2 == HalvesIn(k, n, 1, X2)
<1> USE DEF HalvesIn
<1>1. /\ k \in {1, 2} /\ (graph.undirected <=> k = 2) /\ n \in Nat /\ X1 \in SUBSET (1 .. n) /\ X2 \in SUBSET (1 .. n)
      /\ HalfEdges = 0 .. k * n - 1
      /\ \A h \in HalfEdges : h % k \in 0 .. k - 1
  BY EdgesAre
<1>2. k \in Nat \ {0} /\ 0 \in 0 .. k - 1
  BY <1>1
<1>3. IsFiniteSet(Y1) /\ Cardinality(Y1) = Cardinality(X1)
  <2>1. k \in Nat \ {0} /\ 0 \in 0 .. k - 1 /\ n \in Nat /\ X1 \in SUBSET (1 .. n)
    BY <1>1, <1>2
  <2> HIDE DEF k, n, HalvesIn
  <2> QED
    BY <2>1, HalvesOf
<1>4. Cardinality(X1) \in Nat
  <2>1. IsFiniteSet(1 .. n)
    BY <1>1, FS_Interval
  <2>2. IsFiniteSet(X1)
    BY <1>1, <2>1, FS_Subset
  <2> QED
    BY <2>2, FS_CardinalityType
<1>5. CASE k = 1
  <2>1. \A h \in HalfEdges : h % k = 0
    BY <1>1, <1>5
  <2>2. Y = Y1
    <3>1. \A h \in HalfEdges : h \in Y <=> h \in Y1
      BY <1>1, <2>1
    <3> QED
      BY <1>1, <3>1
  <2> QED
    BY <1>1, <1>3, <1>4, <1>5, <2>2
<1>6. CASE k = 2
  <2>1. IsFiniteSet(Y2) /\ Cardinality(Y2) = Cardinality(X2)
    <3>1. k \in Nat \ {0} /\ 1 \in 0 .. k - 1 /\ n \in Nat /\ X2 \in SUBSET (1 .. n)
      BY <1>1, <1>6
    <3> HIDE DEF k, n, HalvesIn
    <3> QED
      BY <3>1, HalvesOf
  <2>2. \A h \in HalfEdges : h % k = 0 \/ h % k = 1
    BY <1>1, <1>6
  <2>3. Y = Y1 \cup Y2 /\ Y1 \cap Y2 = {}
    <3>1. \A h \in HalfEdges : h \in Y <=> h \in Y1 \cup Y2
      BY <1>1, <2>2
    <3>2. Y1 \subseteq HalfEdges /\ Y2 \subseteq HalfEdges
      BY <1>1
    <3>3. \A h : ~(h % k = 0 /\ h % k = 1)
      BY Z3
    <3>4. Y1 \cap Y2 = {}
      BY <3>3
    <3> HIDE DEF Y1, Y2
    <3> QED
      BY <3>1, <3>2, <3>4
  <2>4. Cardinality(Y1 \cup Y2) = Cardinality(Y1) + Cardinality(Y2) - Cardinality(Y1 \cap Y2)
    BY <1>3, <2>1, FS_Union
  <2>5. Cardinality(Y1) \in Nat /\ Cardinality(Y2) \in Nat /\ Cardinality(Y1 \cap Y2) = 0
    BY <1>3, <2>1, <2>3, FS_CardinalityType, FS_EmptySet
  <2> HIDE DEF Y1, Y2
  <2> QED
    BY <1>1, <1>3, <1>6, <2>1, <2>3, <2>4, <2>5
<1> QED
  BY <1>1, <1>5, <1>6

\* A vertex has as many half edges as its list has entries.
LEMMA DegreeIsHalves ==
    ASSUME GroupsFit, LayoutIInv, OrderInv, Laid, NEW v \in Ids
    PROVE  Degree(v) = Cardinality({h \in HalfEdges : From(h) = v})
<1> DEFINE X(j) == {e \in DOMAIN graph.edges : IdOf(graph.edges[e][j]) = units[v]}
           Y == {h \in HalfEdges : From(h) = v}
<1>1. units[v] \in Ids
  BY UnitsOnto
<1>2. degree = [id \in Ids |-> DegreeOf(id)]
  BY DEF Laid, OrderInv, DegreesCounted
<1>3. Degree(v) = DegreeOf(units[v])
  BY <1>1, <1>2 DEF Degree
<1>4. DegreeOf(units[v]) = Cardinality(X(1)) + (IF graph.undirected THEN Cardinality(X(2)) ELSE 0)
  BY DEF DegreeOf
<1>5. ASSUME NEW h \in HalfEdges
      PROVE  /\ h % Halves = 0 => (h \in Y <=> h \div Halves + 1 \in X(1))
             /\ h % Halves = 1 => (h \in Y <=> h \div Halves + 1 \in X(2))
  <2> DEFINE e == h \div Halves + 1
  <2>1. e \in DOMAIN graph.edges
    BY EdgesAre
  <2>2. From(h) = v <=> IdOf(graph.edges[e][(h % Halves) + 1]) = units[v]
    BY HalfIs DEF EdgeOf
  <2> HIDE DEF e
  <2>3. h % Halves = 0 => (h \in Y <=> e \in X(1))
    <3> SUFFICES ASSUME h % Halves = 0 PROVE h \in Y <=> e \in X(1)
      OBVIOUS
    <3>1. (h % Halves) + 1 = 1
      OBVIOUS
    <3> QED
      BY <2>1, <2>2, <3>1, Zenon
  <2>4. h % Halves = 1 => (h \in Y <=> e \in X(2))
    <3> SUFFICES ASSUME h % Halves = 1 PROVE h \in Y <=> e \in X(2)
      OBVIOUS
    <3>1. (h % Halves) + 1 = 2
      OBVIOUS
    <3> QED
      BY <2>1, <2>2, <3>1, Zenon
  <2> QED
    BY <2>3, <2>4 DEF e
<1>6. X(1) \in SUBSET DOMAIN graph.edges /\ X(2) \in SUBSET DOMAIN graph.edges /\ Y \in SUBSET HalfEdges
  OBVIOUS
<1>7. Cardinality(Y) = Cardinality(X(1)) + (IF graph.undirected THEN Cardinality(X(2)) ELSE 0)
  <2> DEFINE X1 == X(1)
             X2 == X(2)
  <2>1. X1 \in SUBSET DOMAIN graph.edges /\ X2 \in SUBSET DOMAIN graph.edges /\ Y \in SUBSET HalfEdges
    BY <1>6
  <2>2. \A h \in HalfEdges : /\ h % Halves = 0 => (h \in Y <=> h \div Halves + 1 \in X1)
                             /\ h % Halves = 1 => (h \in Y <=> h \div Halves + 1 \in X2)
    BY <1>5, Zenon
  <2> HIDE DEF X1, X2, Y
  <2>3. Cardinality(Y) = Cardinality(X1) + (IF graph.undirected THEN Cardinality(X2) ELSE 0)
    BY <2>1, <2>2, CountHalves
  <2> QED
    BY <2>3, Zenon DEF X1, X2
<1> QED
  BY <1>3, <1>4, <1>7
-----------------------------------------------------------------------------
(* The layout: where the adjacency lists are                               *)

\* Partitions, and so vertices, are given to sockets.
LEMMA VertexSocketIs ==
    ASSUME GroupsFit, LayoutIInv, Laid, NEW v \in Ids
    PROVE  VertexSocket(v) \in Sockets
<1> DEFINE p == CHOOSE q \in Partitions : Holds(q, v)
<1>1. {q \in Partitions : Holds(q, v)} = {GetVertexPartitionId(v)}
  BY LookupFollows DEF LookupAgrees, Laid
<1>2. \E q \in Partitions : Holds(q, v)
  BY <1>1
<1>3. p \in Partitions
  BY <1>2, Zenon
<1>4. p \in Nat
  <2>1. LaidUpTo(GroupNum(VNum))
    BY DEF LayoutIInv, GroupsLaid, Laid
  <2>2. Len(parts) \in Nat
    BY <2>1 DEF LaidUpTo
  <2> HIDE DEF p
  <2> QED
    BY <1>3, <2>2 DEF Partitions
<1>5. VertexSocket(v) = PartitionSocket(p)
  BY DEF VertexSocket
<1> HIDE DEF p
<1>6. p % SocketNum \in 0 .. SocketNum - 1
  BY <1>4, ThreadsAssumption, DivMod
<1> QED
  BY <1>5, <1>6, ThreadsAssumption DEF PartitionSocket, Sockets

\* A sum grows with the number of its terms.
LEMMA SumGrows ==
    ASSUME NEW a, NEW n \in Nat, \A i \in 0 .. n - 1 : a[i] \in Nat, NEW m \in 0 .. n
    PROVE  Sum(a, m) \in Nat /\ Sum(a, n) \in Nat /\ Sum(a, m) <= Sum(a, n)
<1> DEFINE S == {k \in Nat : m + k <= n => Sum(a, m + k) \in Nat /\ Sum(a, m) <= Sum(a, m + k)}
<1>1. m \in Nat /\ Sum(a, m) \in Nat /\ m + 0 = m
  BY SumType
<1>2. 0 \in S
  BY <1>1
<1>3. ASSUME NEW k \in Nat, k \in S PROVE k + 1 \in S
  <2> SUFFICES ASSUME m + (k + 1) <= n
               PROVE  Sum(a, m + (k + 1)) \in Nat /\ Sum(a, m) <= Sum(a, m + (k + 1))
    OBVIOUS
  <2> DEFINE l == m + k
  <2>1. l \in 0 .. n - 1 /\ l \in Nat /\ m + (k + 1) = l + 1
    BY <1>1
  <2>2. Sum(a, l) \in Nat /\ Sum(a, m) <= Sum(a, l)
    BY <1>3, <2>1
  <2> HIDE DEF l
  <2>3. Sum(a, l + 1) = Sum(a, l) + a[l] /\ a[l] \in Nat
    BY <2>1, SumStep
  <2> QED
    BY <1>1, <2>1, <2>2, <2>3
<1> HIDE DEF S
<1>4. n - m \in S
  BY <1>1, <1>2, <1>3, Induction
<1>5. m + (n - m) = n /\ n - m \in Nat
  BY <1>1
<1> QED
  BY <1>1, <1>4, <1>5 DEF S

\* The lists of a socket lie apart in its array, and each has room for the half edges of its vertex.
ListsApart ==
    /\ \A v \in Ids : /\ VertexSocket(v) \in Sockets /\ Degree(v) \in Nat /\ ListBegin(v) \in Nat
                      /\ ListBegin(v) + Degree(v) <= EdgesAt(VertexSocket(v), VNum)
                      /\ Degree(v) = Cardinality({h \in HalfEdges : From(h) = v})
    /\ \A s \in Sockets : EdgesAt(s, VNum) \in Nat
    /\ \A u, v \in Ids : u < v /\ VertexSocket(u) = VertexSocket(v) =>
          ListBegin(u) + Degree(u) <= ListBegin(v)
    /\ \A h \in HalfEdges : From(h) \in Ids /\ To(h) \in Ids

LEMMA ListsAreApart == ASSUME GroupsFit, LayoutIInv, OrderInv, Laid PROVE ListsApart
<1> DEFINE amount(s) == [u \in Ids |-> IF VertexSocket(u) = s THEN Degree(u) ELSE 0]
<1>1. VNum \in Nat \ {0} /\ Ids = 0 .. VNum - 1
  BY ShuffledIs DEF Laid
<1>2. \A v \in Ids : VertexSocket(v) \in Sockets
  BY VertexSocketIs
<1>3. \A v \in Ids : Degree(v) \in Nat
  <2>1. degree \in [Ids -> Nat \ {0}] /\ units \in [Ids -> Ids]
    BY UnitsOnto DEF Laid, OrderInv, DegreesCounted
  <2> QED
    BY <2>1 DEF Degree
<1>4. \A s, k : EdgesAt(s, k) = Sum(amount(s), k)
  BY DEF EdgesAt
<1>5. \A s : \A i \in Ids : amount(s)[i] = IF VertexSocket(i) = s THEN Degree(i) ELSE 0
  OBVIOUS
<1> HIDE DEF amount
<1>6. \A s : \A i \in 0 .. VNum - 1 : amount(s)[i] \in Nat
  BY <1>1, <1>3, <1>5
<1>7. ASSUME NEW s, NEW n \in 0 .. VNum, NEW k \in 0 .. n
      PROVE  EdgesAt(s, k) \in Nat /\ EdgesAt(s, n) \in Nat /\ EdgesAt(s, k) <= EdgesAt(s, n)
  <2> DEFINE a == amount(s)
  <2>1. n \in Nat /\ \A i \in 0 .. n - 1 : a[i] \in Nat
    BY <1>1, <1>6
  <2>2. EdgesAt(s, k) = Sum(a, k) /\ EdgesAt(s, n) = Sum(a, n)
    BY <1>4
  <2> HIDE DEF a
  <2> QED
    BY <2>1, <2>2, SumGrows
<1>8. ASSUME NEW v \in Ids
      PROVE  /\ ListBegin(v) \in Nat
             /\ EdgesAt(VertexSocket(v), v + 1) = ListBegin(v) + Degree(v)
  <2> DEFINE s == VertexSocket(v)
  <2>1. v \in Nat /\ v \in 0 .. VNum /\ v \in 0 .. v
    BY <1>1
  <2>2. ListBegin(v) = EdgesAt(s, v) /\ EdgesAt(s, v) \in Nat
    BY <1>7, <2>1 DEF ListBegin
  <2>3. Sum(amount(s), v + 1) = Sum(amount(s), v) + amount(s)[v]
    BY <2>1, SumStep
  <2>4. amount(s)[v] = Degree(v)
    BY <1>5
  <2> QED
    BY <1>4, <2>2, <2>3, <2>4
<1>9. \A v \in Ids : ListBegin(v) + Degree(v) <= EdgesAt(VertexSocket(v), VNum)
  <2> SUFFICES ASSUME NEW v \in Ids PROVE ListBegin(v) + Degree(v) <= EdgesAt(VertexSocket(v), VNum)
    OBVIOUS
  <2>1. VNum \in 0 .. VNum /\ v + 1 \in 0 .. VNum
    BY <1>1
  <2> QED
    BY <1>7, <1>8, <2>1
<1>10. \A s \in Sockets : EdgesAt(s, VNum) \in Nat
  <2>1. VNum \in 0 .. VNum
    BY <1>1
  <2> QED
    BY <1>7, <2>1
<1>11. ASSUME NEW u \in Ids, NEW v \in Ids, u < v, VertexSocket(u) = VertexSocket(v)
       PROVE  ListBegin(u) + Degree(u) <= ListBegin(v)
  <2>1. v \in 0 .. VNum /\ u + 1 \in 0 .. v
    BY <1>1, <1>11
  <2>2. EdgesAt(VertexSocket(v), u + 1) <= EdgesAt(VertexSocket(v), v)
    BY <1>7, <2>1
  <2> QED
    BY <1>8, <1>11, <2>2 DEF ListBegin
<1> QED
  BY <1>2, <1>3, <1>8, <1>9, <1>10, <1>11, DegreeIsHalves, HalfIs DEF ListsApart

\* The threads' shares follow one another and are all half edges.
LEMMA SharesAre ==
    ASSUME LayoutIInv
    PROVE  /\ \A t \in 0 .. ThreadNum : FirstHalf(t) \in Nat
           /\ \A t, r \in 0 .. ThreadNum : t <= r => FirstHalf(t) <= FirstHalf(r)
           /\ FirstHalf(0) = 0 /\ FirstHalf(ThreadNum) = Halves * Len(graph.edges)
<1> DEFINE n == Len(graph.edges)
           k == Halves
           q == n \div ThreadNum
           m == n % ThreadNum
           First(t) == t * q + Least(t, m)
<1>1. k \in Nat /\ n \in Nat /\ ThreadNum \in Nat \ {0}
  BY EdgesAre, ThreadsAssumption
<1> HIDE DEF n, k
<1>2. q \in Nat /\ m \in 0 .. ThreadNum - 1 /\ n = ThreadNum * q + m
  BY <1>1, DivMod
<1>3. \A t : FirstHalf(t) = k * First(t)
  BY DEF FirstHalf, n, k
<1> HIDE DEF q, m
<1>4. ASSUME NEW t \in 0 .. ThreadNum PROVE First(t) \in Nat
  <2>1. t \in Nat /\ t * q \in Nat
    BY <1>1, <1>2
  <2> QED
    BY <1>2, <2>1 DEF Least
<1>5. ASSUME NEW t \in 0 .. ThreadNum, NEW r \in 0 .. ThreadNum, t <= r
      PROVE  \E d \in Nat : First(r) = First(t) + d
  <2>1. t \in Nat /\ r \in Nat /\ r - t \in Nat /\ r = t + (r - t)
    BY <1>1, <1>5
  <2>2. PICK c \in Nat : r = t + c
    BY <2>1
  <2>3. r * q = t * q + c * q /\ t * q \in Nat /\ c * q \in Nat
    BY <1>2, <2>1, <2>2, Z3
  <2>4. Least(t, m) \in Nat /\ Least(r, m) \in Nat /\ Least(t, m) <= Least(r, m)
    BY <1>2, <1>5, <2>1 DEF Least
  <2> DEFINE d == c * q + (Least(r, m) - Least(t, m))
  <2>5. d \in Nat /\ First(r) = First(t) + d
    BY <2>3, <2>4
  <2> QED
    BY <2>5
<1>6. First(0) = 0
  <2>1. 0 * q = 0
    BY <1>2
  <2> QED
    BY <1>2, <2>1 DEF Least
<1>7. First(ThreadNum) = n
  BY <1>1, <1>2 DEF Least
<1> HIDE DEF First
<1>8. \A t \in 0 .. ThreadNum : FirstHalf(t) \in Nat
  BY <1>1, <1>3, <1>4
<1>9. ASSUME NEW t \in 0 .. ThreadNum, NEW r \in 0 .. ThreadNum, t <= r
      PROVE  FirstHalf(t) <= FirstHalf(r)
  <2>1. PICK d \in Nat : First(r) = First(t) + d
    BY <1>5, <1>9
  <2>2. k * First(r) = k * First(t) + k * d /\ k * First(t) \in Nat /\ k * d \in Nat
    <3>1. First(t) \in Nat
      BY <1>4
    <3> QED
      BY <1>1, <2>1, <3>1, Z3
  <2> QED
    BY <1>3, <2>2
<1>10. FirstHalf(0) = 0 /\ FirstHalf(ThreadNum) = k * n
  BY <1>1, <1>3, <1>6, <1>7
<1> QED
  BY <1>8, <1>9, <1>10 DEF k, n
-----------------------------------------------------------------------------
(* The layout: what the threads have claimed                               *)

\* The loop goes by what it does not change.
LEMMA FillKept ==
    ASSUME UNCHANGED <<graph, names, degree, units, parts>>
    PROVE  /\ VNum' = VNum /\ Ids' = Ids /\ HalfEdges' = HalfEdges
           /\ \A h : From(h)' = From(h) /\ To(h)' = To(h)
           /\ \A v : /\ VertexSocket(v)' = VertexSocket(v) /\ Degree(v)' = Degree(v)
                     /\ ListBegin(v)' = ListBegin(v)
           /\ \A s, n : EdgesAt(s, n)' = EdgesAt(s, n)
           /\ \A t : FirstHalf(t)' = FirstHalf(t)
<1>1. VNum' = VNum /\ Ids' = Ids
  BY DEF VNum, Ids
<1>2. Halves' = Halves /\ HalfEdges' = HalfEdges
  BY DEF Halves, HalfEdges
<1>3. \A name : IdOf(name)' = IdOf(name)
  BY DEF IdOf
<1>4. \A id : NewId(id)' = NewId(id)
  BY <1>1 DEF NewId
<1>5. \A h : EdgeOf(h)' = EdgeOf(h)
  BY <1>2 DEF EdgeOf
<1>6. \A h : From(h)' = From(h) /\ To(h)' = To(h)
  BY <1>2, <1>3, <1>4, <1>5 DEF From, To
<1>7. \A v : VertexSocket(v)' = VertexSocket(v) /\ Degree(v)' = Degree(v)
  BY DEF VertexSocket, Degree, PartitionSocket, Partitions, Holds
<1>8. \A s, n : EdgesAt(s, n)' = EdgesAt(s, n)
  BY <1>1, <1>7 DEF EdgesAt
<1>9. \A v : ListBegin(v)' = ListBegin(v)
  BY <1>7, <1>8 DEF ListBegin
<1>10. \A t : FirstHalf(t)' = FirstHalf(t)
  BY <1>2 DEF FirstHalf
<1> QED
  BY <1>1, <1>2, <1>6, <1>7, <1>8, <1>9, <1>10

\* The half edge a thread is at is nobody else's.
LEMMA ClaimsAre ==
    ASSUME LayoutIInv, half \in [Team -> Nat], OwnHalves
    PROVE  /\ Written \subseteq Claimed /\ Claimed \subseteq HalfEdges
           /\ \A t \in Team : half[t] < FirstHalf(t + 1) =>
                 /\ half[t] \in HalfEdges /\ half[t] \notin Written
                 /\ slot[t] = None => half[t] \notin Claimed
                 /\ \A r \in Team : half[r] < FirstHalf(r + 1) /\ half[r] = half[t] => r = t
<1>1. ThreadNum \in Nat \ {0} /\ Team = 0 .. ThreadNum - 1
  BY ThreadsAssumption DEF Team
<1>2. \A t \in Team : t \in 0 .. ThreadNum /\ t + 1 \in 0 .. ThreadNum /\ t \in Nat
  BY <1>1
<1>3. \A t \in Team : /\ FirstHalf(t) \in Nat /\ FirstHalf(t + 1) \in Nat /\ half[t] \in Nat
                      /\ FirstHalf(t) <= half[t] /\ half[t] <= FirstHalf(t + 1)
                      /\ FirstHalf(t + 1) <= Halves * Len(graph.edges)
  <2> SUFFICES ASSUME NEW t \in Team
               PROVE  /\ FirstHalf(t) \in Nat /\ FirstHalf(t + 1) \in Nat /\ half[t] \in Nat
                      /\ FirstHalf(t) <= half[t] /\ half[t] <= FirstHalf(t + 1)
                      /\ FirstHalf(t + 1) <= Halves * Len(graph.edges)
    OBVIOUS
  <2>1. t \in 0 .. ThreadNum /\ t + 1 \in 0 .. ThreadNum /\ ThreadNum \in 0 .. ThreadNum /\ t + 1 <= ThreadNum
    BY <1>1, <1>2
  <2>2. /\ FirstHalf(t) \in Nat /\ FirstHalf(t + 1) \in Nat
        /\ FirstHalf(t + 1) <= FirstHalf(ThreadNum) /\ FirstHalf(ThreadNum) = Halves * Len(graph.edges)
    BY <2>1, SharesAre
  <2>3. half[t] \in FirstHalf(t) .. FirstHalf(t + 1) /\ half[t] \in Nat
    BY DEF OwnHalves
  <2> QED
    BY <2>2, <2>3
<1>4. \A h : h \in HalfEdges <=> h \in Nat /\ h < Halves * Len(graph.edges)
  <2>1. Halves * Len(graph.edges) \in Nat /\ HalfEdges = 0 .. Halves * Len(graph.edges) - 1
    BY EdgesAre
  <2> QED
    BY <2>1
<1>5. \A t \in Team : half[t] < FirstHalf(t + 1) => half[t] \in HalfEdges
  <2> SUFFICES ASSUME NEW t \in Team, half[t] < FirstHalf(t + 1) PROVE half[t] \in HalfEdges
    OBVIOUS
  <2>1. Halves * Len(graph.edges) \in Nat
    BY EdgesAre
  <2> QED
    BY <1>3, <1>4, <2>1
<1>6. Written \subseteq HalfEdges
  <2> SUFFICES ASSUME NEW t \in Team, NEW h \in FirstHalf(t) .. half[t] - 1 PROVE h \in HalfEdges
    BY DEF Written
  <2>1. Halves * Len(graph.edges) \in Nat
    BY EdgesAre
  <2> QED
    BY <1>3, <1>4, <2>1
<1>7. Written \subseteq Claimed /\ Claimed \subseteq HalfEdges
  <2>1. \A t \in Team : slot[t] # None => half[t] \in HalfEdges
    BY <1>5 DEF OwnHalves
  <2> QED
    BY <1>6, <2>1 DEF Claimed
<1>8. ASSUME NEW t \in Team, NEW r \in Team, r # t
      PROVE  FirstHalf(t + 1) <= FirstHalf(r) \/ FirstHalf(r + 1) <= FirstHalf(t)
  <2>1. CASE t < r
    <3>1. t + 1 <= r
      BY <1>2, <2>1
    <3> QED
      BY <1>2, <3>1, SharesAre
  <2>2. CASE r < t
    <3>1. r + 1 <= t
      BY <1>2, <2>2
    <3> QED
      BY <1>2, <3>1, SharesAre
  <2> QED
    BY <1>2, <1>8, <2>1, <2>2
<1>9. ASSUME NEW t \in Team, half[t] < FirstHalf(t + 1)
      PROVE  /\ half[t] \notin Written
             /\ \A r \in Team : half[r] < FirstHalf(r + 1) /\ half[r] = half[t] => r = t
  <2>1. ASSUME NEW r \in Team, half[t] \in FirstHalf(r) .. half[r] - 1 PROVE FALSE
    <3>1. FirstHalf(r) <= half[t] /\ half[t] < half[r]
      BY <1>3, <2>1
    <3>2. r # t
      BY <1>3, <3>1
    <3> QED
      BY <1>3, <1>8, <1>9, <3>1, <3>2
  <2>2. ASSUME NEW r \in Team, half[r] < FirstHalf(r + 1), half[r] = half[t], r # t PROVE FALSE
    BY <1>3, <1>8, <1>9, <2>2
  <2> QED
    BY <2>1, <2>2 DEF Written
<1>10. ASSUME NEW t \in Team, half[t] < FirstHalf(t + 1), slot[t] = None PROVE half[t] \notin Claimed
  <2>1. ASSUME NEW r \in Team, slot[r] # None, half[r] = half[t] PROVE FALSE
    <3>1. half[r] < FirstHalf(r + 1)
      BY <2>1 DEF OwnHalves
    <3> QED
      BY <1>9, <1>10, <2>1, <3>1
  <2> QED
    BY <1>9, <1>10, <2>1 DEF Claimed
<1> QED
  BY <1>5, <1>7, <1>9, <1>10

\* A claimed entry is in the list of its vertex, and no other half edge goes there.
LEMMA ClaimsApart ==
    ASSUME LayoutIInv, ListsApart, VNum \in Nat, cursor \in [Ids -> Nat], Claimed \subseteq HalfEdges,
           NEW place, PlacedIn(place)
    PROVE  /\ \A v \in Ids : cursor[v] <= ListBegin(v) + Degree(v)
           /\ \A h \in Claimed :
                 /\ From(h) \in Ids /\ VertexSocket(From(h)) \in Sockets
                 /\ place[h] \in ListBegin(From(h)) .. ListBegin(From(h)) + Degree(From(h)) - 1
                 /\ place[h] \in 0 .. EdgesAt(VertexSocket(From(h)), VNum) - 1
           /\ \A g, h \in Claimed :
                 VertexSocket(From(g)) = VertexSocket(From(h)) /\ place[g] = place[h] => g = h
<1>1. \A v \in Ids : cursor[v] <= ListBegin(v) + Degree(v)
  <2> SUFFICES ASSUME NEW v \in Ids PROVE cursor[v] <= ListBegin(v) + Degree(v)
    OBVIOUS
  <2> DEFINE S == {h \in HalfEdges : From(h) = v}
             T == {h \in Claimed : From(h) = v}
  <2>1. T \in SUBSET S
    OBVIOUS
  <2>2. IsFiniteSet(S)
    <3>1. IsFiniteSet(HalfEdges) /\ S \in SUBSET HalfEdges
      BY EdgesAre
    <3> HIDE DEF S
    <3> QED
      BY <3>1, FS_Subset
  <2>3. cursor[v] = ListBegin(v) + Cardinality(T) /\ ListBegin(v) \in Nat
    BY DEF PlacedIn, ListsApart
  <2>4. Degree(v) = Cardinality(S)
    BY DEF ListsApart
  <2> HIDE DEF S, T
  <2>5. IsFiniteSet(T) /\ Cardinality(T) <= Cardinality(S)
    BY <2>1, <2>2, FS_Subset
  <2>6. Cardinality(T) \in Nat /\ Cardinality(S) \in Nat
    BY <2>2, <2>5, FS_CardinalityType
  <2> QED
    BY <2>3, <2>4, <2>5, <2>6
<1>2. \A v \in Ids : /\ VertexSocket(v) \in Sockets /\ ListBegin(v) \in Nat /\ Degree(v) \in Nat /\ cursor[v] \in Nat
                     /\ ListBegin(v) + Degree(v) <= EdgesAt(VertexSocket(v), VNum)
                     /\ EdgesAt(VertexSocket(v), VNum) \in Nat
  BY DEF ListsApart
<1>3. ASSUME NEW h \in Claimed
      PROVE  /\ From(h) \in Ids /\ VertexSocket(From(h)) \in Sockets
             /\ place[h] \in ListBegin(From(h)) .. ListBegin(From(h)) + Degree(From(h)) - 1
             /\ place[h] \in 0 .. EdgesAt(VertexSocket(From(h)), VNum) - 1
  <2> DEFINE v == From(h)
  <2>1. v \in Ids /\ place[h] \in ListBegin(v) .. cursor[v] - 1
    BY DEF ListsApart, PlacedIn
  <2> HIDE DEF v
  <2>2. place[h] \in ListBegin(v) .. ListBegin(v) + Degree(v) - 1
    BY <1>1, <1>2, <2>1
  <2>3. place[h] \in 0 .. EdgesAt(VertexSocket(v), VNum) - 1
    BY <1>2, <2>1, <2>2
  <2> QED
    BY <1>2, <2>1, <2>2, <2>3 DEF v
<1>4. ASSUME NEW g \in Claimed, NEW h \in Claimed,
             VertexSocket(From(g)) = VertexSocket(From(h)), place[g] = place[h]
      PROVE  g = h
  <2> DEFINE u == From(g)
             v == From(h)
  <2>1. u \in Ids /\ v \in Ids /\ u \in Int /\ v \in Int
    BY <1>3 DEF Ids
  <2>2. /\ place[g] \in ListBegin(u) .. ListBegin(u) + Degree(u) - 1
        /\ place[g] \in ListBegin(v) .. ListBegin(v) + Degree(v) - 1
    BY <1>3, <1>4
  <2>3. /\ u < v => ListBegin(u) + Degree(u) <= ListBegin(v)
        /\ v < u => ListBegin(v) + Degree(v) <= ListBegin(u)
    BY <1>4, <2>1 DEF ListsApart
  <2>4. u = v
    <3> HIDE DEF u, v
    <3> QED
      BY <1>2, <2>1, <2>2, <2>3
  <2> QED
    BY <1>4, <2>4 DEF PlacedIn
<1> QED
  BY <1>1, <1>3, <1>4

LEMMA ListsApartNext == ASSUME GroupsFit PROVE (LayoutIInv /\ OrderInv /\ Laid => ListsApart)'
<1>1. LayoutIInv /\ OrderInv /\ Laid => ListsApart
  BY ListsAreApart
<1> QED
  BY <1>1, PTL

\* At first nothing is claimed, and all entries are free.
LEMMA StartFillFill == ASSUME GroupsFit, LayoutIInv, OrderInv, FillInv, StartFill PROVE FillInv'
<1> PICK place : place = [h \in HalfEdges |-> 0]
  OBVIOUS
<1>1. /\ phase = "shuffle" /\ phase' = "fill" /\ next' = 0
      /\ edges' = [s \in Sockets |-> [i \in 0 .. EdgesAt(s, VNum) - 1 |-> None]]
      /\ cursor' = [v \in Ids |-> ListBegin(v)]
      /\ half' = [t \in Team |-> FirstHalf(t)]
      /\ slot' = slot
      /\ UNCHANGED <<graph, names, degree, units, parts>>
  BY DEF StartFill, makeVars
<1>2. /\ VNum' = VNum /\ Ids' = Ids /\ HalfEdges' = HalfEdges
      /\ \A s, n : EdgesAt(s, n)' = EdgesAt(s, n)
      /\ \A v : ListBegin(v)' = ListBegin(v)
      /\ \A t : FirstHalf(t)' = FirstHalf(t)
  BY <1>1, FillKept
<1>3. \A v \in Ids : ListBegin(v) \in Nat
  <2>1. LayoutIInv' /\ OrderInv'
    <3>1. [GraphNext]_graphVars
      BY DEF GraphNext, Serial
    <3> QED
      BY <3>1, LayoutStep, OrderStep
  <2>2. Laid'
    BY <1>1 DEF Laid
  <2>3. ListsApart'
    BY <2>1, <2>2, ListsApartNext
  <2> QED
    BY <1>2, <2>3 DEF ListsApart
<1>4. \A t \in Team : /\ FirstHalf(t) \in Nat /\ FirstHalf(t + 1) \in Nat
                      /\ FirstHalf(t) <= FirstHalf(t + 1)
  <2>1. \A t \in Team : t \in 0 .. ThreadNum /\ t + 1 \in 0 .. ThreadNum /\ t <= t + 1
    BY ThreadsAssumption DEF Team
  <2> QED
    BY <2>1, SharesAre
<1>5. \A t \in Team : slot[t] = None
  BY <1>1 DEF FillInv, Laid
<1>6. Written' = {} /\ Claimed' = {}
  <2>1. \A t \in Team : half'[t] = FirstHalf(t) /\ FirstHalf(t) .. half'[t] - 1 = {}
    BY <1>1, <1>4
  <2>2. Written' = {}
    BY <1>2, <2>1 DEF Written
  <2> QED
    BY <1>1, <1>5, <2>2 DEF Claimed
<1>7. half' \in [Team -> Nat] /\ slot' \in [Team -> Nat \cup {None}] /\ cursor' \in [Ids -> Nat]
  BY <1>1, <1>3, <1>4 DEF FillInv
<1>8. OwnHalves'
  <2>1. \A t \in Team : half'[t] \in FirstHalf(t) .. FirstHalf(t + 1) /\ slot'[t] = None
    BY <1>1, <1>4, <1>5
  <2> QED
    BY <1>2, <2>1 DEF OwnHalves
<1>9. /\ DOMAIN edges' = Sockets
      /\ \A s \in Sockets : edges'[s] \in [0 .. EdgesAt(s, VNum) - 1 -> Ids \cup {None}]
      /\ \A s \in Sockets : \A i \in DOMAIN edges'[s] : edges'[s][i] = None
  BY <1>1
<1>10. PlacedIn(place)' /\ place \in [HalfEdges -> Nat]
  <2>1. \A v \in Ids : cursor'[v] = ListBegin(v) + Cardinality({h \in Claimed' : From(h) = v})
    <3> SUFFICES ASSUME NEW v \in Ids
                 PROVE  cursor'[v] = ListBegin(v) + Cardinality({h \in Claimed' : From(h) = v})
      OBVIOUS
    <3>1. {h \in Claimed' : From(h) = v} = {}
      BY <1>6
    <3>2. Cardinality({h \in Claimed' : From(h) = v}) = 0
      BY <3>1, FS_EmptySet
    <3> QED
      BY <1>1, <1>3, <3>2
  <2>2. \A t \in Team : slot'[t] = None
    BY <1>1, <1>5
  <2>3. /\ Ids' = Ids /\ \A h : From(h)' = From(h) /\ To(h)' = To(h)
        /\ \A v : VertexSocket(v)' = VertexSocket(v) /\ ListBegin(v)' = ListBegin(v)
    BY <1>1, FillKept
  <2>4. PlacedIn(place)'
    BY <1>6, <1>9, <2>1, <2>2, <2>3 DEF PlacedIn
  <2> QED
    BY <2>4
<1>11. \E p \in [HalfEdges -> Nat] : PlacedIn(p)'
  BY <1>10
<1> QED
  BY <1>1, <1>2, <1>7, <1>8, <1>9, <1>11 DEF FillInv, Laid

\* A claimed entry is one of the vertex, and nobody else's.
LEMMA ClaimSlotFill ==
    ASSUME GroupsFit, LayoutIInv, OrderInv, FillInv, NEW t \in Team, ClaimSlot(t)
    PROVE  FillInv'
<1> DEFINE h0 == half[t]
           u == From(h0)
<1>1. /\ phase = "fill" /\ phase' = "fill" /\ slot[t] = None /\ h0 < FirstHalf(t + 1)
      /\ slot' = [slot EXCEPT ![t] = cursor[u]]
      /\ cursor' = [cursor EXCEPT ![u] = @ + 1]
      /\ UNCHANGED <<next, graph, names, degree, units, parts, edges, half>>
  BY DEF ClaimSlot, makeVars
<1>2. /\ half \in [Team -> Nat] /\ slot \in [Team -> Nat \cup {None}]
      /\ next \in Nat /\ OwnHalves /\ cursor \in [Ids -> Nat] /\ DOMAIN edges = Sockets
      /\ \A s \in Sockets : edges[s] \in [0 .. EdgesAt(s, VNum) - 1 -> Ids \cup {None}]
  BY <1>1 DEF FillInv, Laid
<1>3. PICK place \in [HalfEdges -> Nat] : PlacedIn(place)
  BY <1>1 DEF FillInv, Laid
<1>4. /\ VNum' = VNum /\ Ids' = Ids /\ HalfEdges' = HalfEdges
      /\ \A s, n : EdgesAt(s, n)' = EdgesAt(s, n)
      /\ \A r : FirstHalf(r)' = FirstHalf(r)
  BY <1>1, FillKept
<1>5. ListsApart
  BY <1>1, ListsAreApart DEF Laid
<1>6. /\ h0 \in HalfEdges /\ h0 \notin Claimed /\ h0 \notin Written
      /\ Claimed \subseteq HalfEdges /\ Written \subseteq Claimed
  BY <1>1, <1>2, ClaimsAre
<1>7. u \in Ids /\ cursor[u] \in Nat
  BY <1>2, <1>5, <1>6 DEF ListsApart
<1> PICK placed : placed = [place EXCEPT ![h0] = cursor[u]]
  OBVIOUS
<1>8. /\ placed \in [HalfEdges -> Nat] /\ placed[h0] = cursor[u]
      /\ \A h \in HalfEdges : h # h0 => placed[h] = place[h]
  BY <1>3, <1>6, <1>7
<1>9. Written' = Written /\ Claimed' = Claimed \cup {h0}
  <2>1. Written' = Written
    BY <1>1, <1>4 DEF Written
  <2>2. {r \in Team : slot'[r] # None} = {r \in Team : slot[r] # None} \cup {t}
    <3>1. slot'[t] = cursor[u] /\ \A r \in Team : r # t => slot'[r] = slot[r]
      BY <1>1, <1>2
    <3>2. slot'[t] # None
      BY <1>7, <3>1 DEF None
    <3> QED
      BY <3>1, <3>2
  <2> QED
    BY <1>1, <2>1, <2>2 DEF Claimed
<1>10. \A v \in Ids : cursor'[v] = IF v = u THEN cursor[u] + 1 ELSE cursor[v]
  BY <1>1, <1>2
<1>11. slot'[t] = cursor[u] /\ \A r \in Team : r # t => slot'[r] = slot[r]
  BY <1>1, <1>2
<1>12. PlacedIn(placed)'
  <2> DEFINE Of(v) == {h \in Claimed : From(h) = v}
             Of2(v) == {h \in Claimed' : From(h) = v}
  <2>1. \A v \in Ids : cursor'[v] = ListBegin(v) + Cardinality(Of2(v))
    <3> SUFFICES ASSUME NEW v \in Ids PROVE cursor'[v] = ListBegin(v) + Cardinality(Of2(v))
      OBVIOUS
    <3>1. cursor[v] = ListBegin(v) + Cardinality(Of(v)) /\ ListBegin(v) \in Nat
      BY <1>3, <1>5 DEF PlacedIn, ListsApart
    <3>2. IsFiniteSet(Of(v)) /\ Cardinality(Of(v)) \in Nat
      <4>1. IsFiniteSet(HalfEdges) /\ Of(v) \in SUBSET HalfEdges
        BY <1>6, EdgesAre
      <4> QED
        BY <4>1, FS_Subset, FS_CardinalityType
    <3>3. CASE v = u
      <4>1. Of2(v) = Of(v) \cup {h0} /\ h0 \notin Of(v)
        BY <1>6, <1>9, <3>3
      <4>2. Cardinality(Of2(v)) = Cardinality(Of(v)) + 1
        BY <3>2, <4>1, FS_AddElement
      <4> HIDE DEF Of, Of2
      <4> QED
        BY <1>10, <3>1, <3>2, <3>3, <4>2
    <3>4. CASE v # u
      <4>1. Of2(v) = Of(v)
        BY <1>9, <3>4
      <4> QED
        BY <1>10, <3>1, <3>4, <4>1
    <3> QED
      BY <3>3, <3>4
  <2>2. \A h \in Claimed : /\ placed[h] = place[h] /\ From(h) \in Ids
                           /\ place[h] \in ListBegin(From(h)) .. cursor[From(h)] - 1
    BY <1>3, <1>5, <1>6, <1>8 DEF PlacedIn, ListsApart
  <2>3. \A v \in Ids : ListBegin(v) \in Nat /\ cursor[v] \in Nat
    BY <1>2, <1>5 DEF ListsApart
  <2>4. \A h \in Claimed' : placed[h] \in ListBegin(From(h)) .. cursor'[From(h)] - 1
    <3> SUFFICES ASSUME NEW h \in Claimed' PROVE placed[h] \in ListBegin(From(h)) .. cursor'[From(h)] - 1
      OBVIOUS
    <3>1. CASE h = h0
      <4>1. ListBegin(u) <= cursor[u]
        <5>1. cursor[u] = ListBegin(u) + Cardinality(Of(u))
          BY <1>3, <1>7 DEF PlacedIn
        <5>2. Cardinality(Of(u)) \in Nat
          <6>1. IsFiniteSet(HalfEdges) /\ Of(u) \in SUBSET HalfEdges
            BY <1>6, EdgesAre
          <6> QED
            BY <6>1, FS_Subset, FS_CardinalityType
        <5> QED
          BY <1>7, <2>3, <5>1, <5>2
      <4> QED
        BY <1>7, <1>8, <1>10, <2>3, <3>1, <4>1
    <3>2. CASE h # h0
      <4>1. h \in Claimed
        BY <1>9, <3>2
      <4> HIDE DEF u
      <4> QED
        BY <1>10, <2>2, <2>3, <4>1
    <3> QED
      BY <3>1, <3>2
  <2>5. \A g, h \in Claimed' : From(g) = From(h) /\ placed[g] = placed[h] => g = h
    <3>1. \A h \in Claimed : From(h) = u => placed[h] # placed[h0]
      BY <1>7, <1>8, <2>2, <2>3
    <3>2. \A g, h \in Claimed : From(g) = From(h) /\ placed[g] = placed[h] => g = h
      BY <1>3, <2>2 DEF PlacedIn
    <3> QED
      BY <1>9, <3>1, <3>2
  <2>6. \A r \in Team : slot'[r] # None => slot'[r] = placed[half'[r]]
    <3> SUFFICES ASSUME NEW r \in Team, slot'[r] # None PROVE slot'[r] = placed[half[r]]
      BY <1>1
    <3>1. CASE r = t
      BY <1>8, <1>11, <3>1
    <3>2. CASE r # t
      <4>1. slot[r] # None /\ slot'[r] = slot[r] /\ slot[r] = place[half[r]]
        BY <1>3, <1>11, <3>2 DEF PlacedIn
      <4>2. half[r] \in Claimed
        BY <4>1 DEF Claimed
      <4> QED
        BY <2>2, <4>1, <4>2
    <3> QED
      BY <3>1, <3>2
  <2>7. \A h \in Written' : edges'[VertexSocket(From(h))][placed[h]] = To(h)
    BY <1>1, <1>3, <1>6, <1>9, <2>2 DEF PlacedIn
  <2>8. \A s \in Sockets : \A i \in DOMAIN edges'[s] :
           \/ edges'[s][i] = None
           \/ \E h \in Written' : VertexSocket(From(h)) = s /\ placed[h] = i
    BY <1>1, <1>3, <1>6, <1>9, <2>2 DEF PlacedIn
  <2>9. /\ Ids' = Ids /\ \A h : From(h)' = From(h) /\ To(h)' = To(h)
        /\ \A v : VertexSocket(v)' = VertexSocket(v) /\ ListBegin(v)' = ListBegin(v)
    BY <1>1, FillKept
  <2> HIDE DEF u, h0
  <2> QED
    BY <2>1, <2>4, <2>5, <2>6, <2>7, <2>8, <2>9 DEF PlacedIn
<1>13. half' \in [Team -> Nat] /\ slot' \in [Team -> Nat \cup {None}] /\ cursor' \in [Ids -> Nat]
  BY <1>1, <1>2, <1>7
<1>14. OwnHalves'
  <2>1. \A r \in Team : /\ half'[r] \in FirstHalf(r) .. FirstHalf(r + 1)
                        /\ slot'[r] # None => half'[r] < FirstHalf(r + 1)
    BY <1>1, <1>2, <1>11 DEF OwnHalves
  <2> QED
    BY <1>4, <2>1 DEF OwnHalves
<1> QED
  BY <1>1, <1>2, <1>4, <1>8, <1>12, <1>13, <1>14 DEF FillInv, Laid

\* The entry is written where the half edge was to go.
LEMMA WriteSlotFill ==
    ASSUME GroupsFit, LayoutIInv, OrderInv, FillInv, NEW t \in Team, WriteSlot(t)
    PROVE  FillInv'
<1> DEFINE h0 == half[t]
           u == From(h0)
           s0 == VertexSocket(u)
<1>1. /\ phase = "fill" /\ phase' = "fill" /\ slot[t] # None
      /\ edges' = [edges EXCEPT ![s0][slot[t]] = To(h0)]
      /\ slot' = [slot EXCEPT ![t] = None]
      /\ half' = [half EXCEPT ![t] = @ + 1]
      /\ UNCHANGED <<next, graph, names, degree, units, parts, cursor>>
  BY DEF WriteSlot, makeVars
<1>2. /\ half \in [Team -> Nat] /\ slot \in [Team -> Nat \cup {None}]
      /\ next \in Nat /\ OwnHalves /\ cursor \in [Ids -> Nat] /\ DOMAIN edges = Sockets
      /\ \A s \in Sockets : edges[s] \in [0 .. EdgesAt(s, VNum) - 1 -> Ids \cup {None}]
  BY <1>1 DEF FillInv, Laid
<1>3. PICK place \in [HalfEdges -> Nat] : PlacedIn(place)
  BY <1>1 DEF FillInv, Laid
<1>4. /\ VNum' = VNum /\ Ids' = Ids /\ HalfEdges' = HalfEdges
      /\ \A s, n : EdgesAt(s, n)' = EdgesAt(s, n)
      /\ \A r : FirstHalf(r)' = FirstHalf(r)
  BY <1>1, FillKept
<1>5. ListsApart
  BY <1>1, ListsAreApart DEF Laid
<1>6. h0 < FirstHalf(t + 1)
  BY <1>1, <1>2 DEF OwnHalves
<1>7. /\ h0 \in HalfEdges /\ h0 \notin Written /\ Claimed \subseteq HalfEdges /\ Written \subseteq Claimed
      /\ h0 \in Claimed
  <2>1. h0 \in Claimed
    BY <1>1 DEF Claimed
  <2> QED
    BY <1>2, <1>6, <2>1, ClaimsAre
<1>8. u \in Ids /\ s0 \in Sockets /\ To(h0) \in Ids /\ slot[t] = place[h0]
  BY <1>1, <1>3, <1>5, <1>7 DEF ListsApart, PlacedIn
<1>9. half'[t] = h0 + 1 /\ slot'[t] = None /\ \A r \in Team : r # t => half'[r] = half[r] /\ slot'[r] = slot[r]
  BY <1>1, <1>2
<1>10. Written' = Written \cup {h0}
  <2>1. FirstHalf(t) .. (h0 + 1) - 1 = (FirstHalf(t) .. h0 - 1) \cup {h0}
    <3>1. FirstHalf(t) \in Nat
      <4>1. t \in 0 .. ThreadNum
        BY ThreadsAssumption DEF Team
      <4> QED
        BY <4>1, SharesAre
    <3>2. h0 \in Nat /\ FirstHalf(t) <= h0
      <4>1. h0 \in Nat /\ h0 \in FirstHalf(t) .. FirstHalf(t + 1)
        BY <1>2 DEF OwnHalves
      <4> QED
        BY <3>1, <4>1
    <3> HIDE DEF h0
    <3> QED
      BY <3>1, <3>2
  <2>2. Written' = UNION {FirstHalf(r) .. half'[r] - 1 : r \in Team}
    BY <1>4 DEF Written
  <2>3. \A h : h \in Written' <=> h \in Written \cup {h0}
    <3>1. ASSUME NEW r \in Team, NEW h PROVE h \in FirstHalf(r) .. half'[r] - 1 <=>
                              h \in FirstHalf(r) .. half[r] - 1 \/ (r = t /\ h = h0)
      <4>1. CASE r = t
        BY <1>9, <2>1, <4>1
      <4>2. CASE r # t
        BY <1>9, <4>2
      <4> QED
        BY <4>1, <4>2
    <3> QED
      BY <2>2, <3>1 DEF Written
  <2> QED
    BY <2>3
<1>11. Claimed' = Claimed
  <2>1. {r \in Team : slot'[r] # None} = {r \in Team : slot[r] # None} \ {t}
    BY <1>1, <1>9
  <2>2. {half'[r] : r \in {q \in Team : slot'[q] # None}} \cup {h0} = {half[r] : r \in {q \in Team : slot[q] # None}}
    BY <1>1, <1>9, <2>1
  <2> QED
    BY <1>10, <2>2 DEF Claimed
<1> HIDE DEF h0, u, s0
<1>12. /\ place[h0] \in DOMAIN edges[s0]
       /\ \A h \in Claimed : /\ VertexSocket(From(h)) \in Sockets
                             /\ place[h] \in DOMAIN edges[VertexSocket(From(h))]
                             /\ VertexSocket(From(h)) = s0 /\ place[h] = place[h0] => h = h0
  <2>1. VNum \in Nat
    BY <1>1, ShuffledIs
  <2>2. /\ \A h \in Claimed : /\ VertexSocket(From(h)) \in Sockets
                              /\ place[h] \in 0 .. EdgesAt(VertexSocket(From(h)), VNum) - 1
        /\ \A h \in Claimed : VertexSocket(From(h)) = s0 /\ place[h] = place[h0] => h = h0
    BY <1>2, <1>3, <1>5, <1>7, <2>1, ClaimsApart DEF s0, u
  <2>3. \A h \in Claimed : place[h] \in DOMAIN edges[VertexSocket(From(h))]
    BY <1>2, <2>2
  <2> QED
    BY <1>7, <2>2, <2>3 DEF s0, u
<1>13. /\ DOMAIN edges' = Sockets
       /\ \A s \in Sockets : edges'[s] \in [0 .. EdgesAt(s, VNum) - 1 -> Ids \cup {None}]
       /\ edges'[s0][place[h0]] = To(h0)
       /\ \A s \in Sockets : DOMAIN edges'[s] = DOMAIN edges[s]
       /\ \A s \in Sockets : \A i \in DOMAIN edges[s] :
             s # s0 \/ i # place[h0] => edges'[s][i] = edges[s][i]
  <2>1. edges' = [edges EXCEPT ![s0] = [edges[s0] EXCEPT ![place[h0]] = To(h0)]]
    BY <1>1, <1>8 DEF s0, u
  <2>2. edges'[s0] = [edges[s0] EXCEPT ![place[h0]] = To(h0)] /\ \A s \in Sockets : s # s0 => edges'[s] = edges[s]
    BY <1>2, <1>8, <2>1
  <2>3. edges'[s0] \in [0 .. EdgesAt(s0, VNum) - 1 -> Ids \cup {None}]
    <3>1. edges[s0] \in [0 .. EdgesAt(s0, VNum) - 1 -> Ids \cup {None}]
      BY <1>2, <1>8
    <3>2. edges'[s0] = [edges[s0] EXCEPT ![place[h0]] = To(h0)] /\ To(h0) \in Ids \cup {None}
      BY <1>8, <2>2
    <3> QED
      BY <3>1, <3>2
  <2>4. edges'[s0][place[h0]] = To(h0)
    BY <1>12, <2>2
  <2>5. \A s \in Sockets : edges'[s] \in [0 .. EdgesAt(s, VNum) - 1 -> Ids \cup {None}]
    BY <1>2, <2>2, <2>3
  <2>6. DOMAIN edges' = Sockets
    BY <1>2, <2>1
  <2>7. \A s \in Sockets : DOMAIN edges'[s] = DOMAIN edges[s]
    BY <2>2
  <2>8. \A s \in Sockets : \A i \in DOMAIN edges[s] : s # s0 \/ i # place[h0] => edges'[s][i] = edges[s][i]
    BY <2>2
  <2> QED
    BY <2>4, <2>5, <2>6, <2>7, <2>8
<1>14. PlacedIn(place)'
  <2>1. \A v \in Ids : cursor'[v] = ListBegin(v) + Cardinality({h \in Claimed' : From(h) = v})
    BY <1>1, <1>3, <1>11 DEF PlacedIn
  <2>2. \A h \in Claimed' : place[h] \in ListBegin(From(h)) .. cursor'[From(h)] - 1
    BY <1>1, <1>3, <1>11 DEF PlacedIn
  <2>3. \A g, h \in Claimed' : From(g) = From(h) /\ place[g] = place[h] => g = h
    BY <1>3, <1>11 DEF PlacedIn
  <2>4. \A r \in Team : slot'[r] # None => slot'[r] = place[half'[r]]
    BY <1>3, <1>9 DEF PlacedIn
  <2>5. \A h \in Written' : edges'[VertexSocket(From(h))][place[h]] = To(h)
    <3> SUFFICES ASSUME NEW h \in Written' PROVE edges'[VertexSocket(From(h))][place[h]] = To(h)
      OBVIOUS
    <3>1. CASE h = h0
      BY <1>13, <3>1 DEF s0, u
    <3>2. CASE h # h0
      <4> DEFINE v == From(h)
                 s == VertexSocket(v)
      <4>1. h \in Written /\ h \in Claimed
        BY <1>7, <1>10, <3>2
      <4>2. edges[s][place[h]] = To(h)
        BY <1>3, <4>1 DEF PlacedIn
      <4>3. s \in Sockets /\ place[h] \in DOMAIN edges[s] /\ (s # s0 \/ place[h] # place[h0])
        <5>1. s \in Sockets /\ place[h] \in DOMAIN edges[s]
          BY <1>12, <4>1
        <5>2. s = s0 /\ place[h] = place[h0] => h = h0
          BY <1>12, <4>1
        <5> QED
          BY <3>2, <5>1, <5>2
      <4> HIDE DEF v, s
      <4>4. edges'[s][place[h]] = edges[s][place[h]]
        BY <1>13, <4>3
      <4> QED
        BY <4>2, <4>4 DEF s, v
    <3> QED
      BY <3>1, <3>2
  <2>6. \A s \in Sockets : \A i \in DOMAIN edges'[s] :
           \/ edges'[s][i] = None
           \/ \E h \in Written' : VertexSocket(From(h)) = s /\ place[h] = i
    <3> SUFFICES ASSUME NEW s \in Sockets, NEW i \in DOMAIN edges[s], edges'[s][i] # None
                 PROVE  \E h \in Written' : VertexSocket(From(h)) = s /\ place[h] = i
      BY <1>13
    <3>1. CASE s = s0 /\ i = place[h0]
      BY <1>10, <3>1 DEF s0, u
    <3>2. CASE s # s0 \/ i # place[h0]
      <4>1. edges[s][i] # None
        BY <1>13, <3>2
      <4> QED
        BY <1>3, <1>10, <4>1 DEF PlacedIn
    <3> QED
      BY <3>1, <3>2
  <2>7. /\ Ids' = Ids /\ \A h : From(h)' = From(h) /\ To(h)' = To(h)
        /\ \A v : VertexSocket(v)' = VertexSocket(v) /\ ListBegin(v)' = ListBegin(v)
    BY <1>1, FillKept
  <2> QED
    BY <2>1, <2>2, <2>3, <2>4, <2>5, <2>6, <2>7 DEF PlacedIn
<1>15. half' \in [Team -> Nat] /\ slot' \in [Team -> Nat \cup {None}]
  BY <1>1, <1>2
<1>16. OwnHalves'
  <2>1. \A r \in Team : /\ half'[r] \in FirstHalf(r) .. FirstHalf(r + 1)
                        /\ slot'[r] # None => half'[r] < FirstHalf(r + 1)
    <3> SUFFICES ASSUME NEW r \in Team
                 PROVE  /\ half'[r] \in FirstHalf(r) .. FirstHalf(r + 1)
                        /\ slot'[r] # None => half'[r] < FirstHalf(r + 1)
      OBVIOUS
    <3>1. /\ half[r] \in FirstHalf(r) .. FirstHalf(r + 1) /\ half[r] \in Nat
          /\ slot[r] # None => half[r] < FirstHalf(r + 1)
      BY <1>2 DEF OwnHalves
    <3>2. FirstHalf(r) \in Nat /\ FirstHalf(r + 1) \in Nat
      <4>1. r \in 0 .. ThreadNum /\ r + 1 \in 0 .. ThreadNum
        BY ThreadsAssumption DEF Team
      <4> QED
        BY <4>1, SharesAre
    <3>3. CASE r = t
      BY <1>6, <1>9, <3>1, <3>2, <3>3 DEF h0
    <3>4. CASE r # t
      BY <1>9, <3>1, <3>4
    <3> QED
      BY <3>3, <3>4
  <2> QED
    BY <1>4, <2>1 DEF OwnHalves
<1> QED
  BY <1>1, <1>2, <1>4, <1>3, <1>13, <1>14, <1>15, <1>16 DEF FillInv, Laid

\* After the loop nothing changes.
LEMMA FillStays ==
    ASSUME FillInv, Laid, Laid', UNCHANGED <<next, graph, names, degree, units, parts, fillVars>>,
           phase' = "done" => \A t \in Team : slot[t] = None /\ half[t] = FirstHalf(t + 1)
    PROVE  FillInv'
<1>1. UNCHANGED <<next, graph, names, degree, units, parts, cursor, edges, half, slot>>
  BY DEF fillVars
<1>2. /\ VNum' = VNum /\ Ids' = Ids /\ HalfEdges' = HalfEdges
      /\ \A h : From(h)' = From(h) /\ To(h)' = To(h)
      /\ \A v : VertexSocket(v)' = VertexSocket(v) /\ ListBegin(v)' = ListBegin(v)
      /\ \A s, n : EdgesAt(s, n)' = EdgesAt(s, n)
      /\ \A t : FirstHalf(t)' = FirstHalf(t)
  BY <1>1, FillKept
<1>3. OwnHalves'
  BY <1>1, <1>2 DEF FillInv, OwnHalves
<1>4. PICK place \in [HalfEdges -> Nat] : PlacedIn(place)
  BY DEF FillInv
<1>5. Written' = Written
  BY <1>1, <1>2 DEF Written
<1>6. Claimed' = Claimed
  BY <1>1, <1>5 DEF Claimed
<1>7. PlacedIn(place)'
  BY <1>1, <1>2, <1>4, <1>5, <1>6 DEF PlacedIn
<1> QED
  BY <1>1, <1>2, <1>3, <1>4, <1>7 DEF FillInv

LEMMA FillInit == ASSUME GraphInit PROVE FillInv
  BY DEF GraphInit, FillInv, Laid

LEMMA FillStepKeeps ==
    ASSUME GroupsFit, LayoutIInv, OrderInv, FillInv, [GraphNext]_graphVars PROVE FillInv'
<1>1. ASSUME phase \notin {"fill", "done"}, phase' \notin {"fill", "done"}, UNCHANGED <<half, slot>>
      PROVE  FillInv'
  BY <1>1 DEF FillInv, Laid
<1>2. CASE ReadEdge \/ SortVertex \/ AddGroup \/ PlaceVertex
  <2>1. /\ phase \in {"load", "sort", "groups", "shuffle"} /\ phase' = phase /\ UNCHANGED <<half, slot>>
    BY <1>2 DEF ReadEdge, SortVertex, AddGroup, PlaceVertex, fillVars
  <2> QED
    BY <1>1, <2>1
<1>3. CASE CountDegrees \/ TakeHints \/ StartShuffle
  <2>1. /\ phase \in {"load", "sort", "groups"} /\ phase' \in {"sort", "groups", "shuffle"}
        /\ UNCHANGED <<half, slot>>
    BY <1>3 DEF CountDegrees, TakeHints, StartShuffle, fillVars
  <2> QED
    BY <1>1, <2>1
<1>4. CASE EndFill
  BY <1>4, FillStays DEF EndFill, makeVars, Laid
<1>5. ASSUME NEW t \in Team, FillStep(t) PROVE FillInv'
  BY <1>5, ClaimSlotFill, WriteSlotFill DEF FillStep
<1>6. CASE UNCHANGED graphVars
  <2>1. UNCHANGED <<phase, next, graph, names, degree, units, parts, cursor, edges, half, slot>>
    BY <1>6 DEF graphVars
  <2>2. CASE Laid
    BY <2>1, <2>2, FillStays DEF fillVars, Laid, FillInv
  <2>3. CASE ~Laid
    BY <1>1, <2>1, <2>3 DEF Laid
  <2> QED
    BY <2>2, <2>3
<1> QED
  BY <1>2, <1>3, <1>4, <1>5, <1>6, StartFillFill DEF GraphNext, Serial, Finished
-----------------------------------------------------------------------------
(* The layout: types, entries and the graph                                *)

\* A partition has a vertex, and ends with the last vertex at the latest.
LEMMA PartsWithin ==
    ASSUME VNum \in Nat \ {0}, WholeGroupsFit(VNum),
           bits \in [0 .. GroupNum(VNum) - 1 -> PartitionBits(VNum)],
           NEW m \in 0 .. GroupNum(VNum), LaidUpTo(m), NEW q \in DOMAIN parts
    PROVE  parts[q].begin \in Ids /\ parts[q].end \in 1 .. VNum /\ parts[q].begin < parts[q].end
<1>1. PICK g \in 0 .. m - 1 : \E i \in 1 .. PartitionsOf(VNum, g, bits[g]) : q = offsets[g] + i
  BY DEF LaidUpTo
<1>2. PICK i \in 1 .. PartitionsOf(VNum, g, bits[g]) : q = offsets[g] + i
  BY <1>1
<1> DEFINE size == TwoTo[bits[g]]
           count == PartitionsOf(VNum, g, bits[g])
           begin == GroupBegin(VNum, g)
           length == GroupEnd(VNum, g) - begin
<1>3. g \in 0 .. GroupNum(VNum) - 1
  <2>1. GroupNum(VNum) \in Nat
    BY CeilDivIs, GroupBitsType DEF GroupNum
  <2> QED
    BY <2>1
<1>4. parts[q] = [begin |-> begin + (i - 1) * size, end |-> Least(begin + i * size, VNum)]
  <2>1. parts[q] = PartsOf(g)[i]
    BY <1>2 DEF LaidUpTo
  <2> QED
    BY <1>2, <2>1 DEF PartsOf
<1>5. begin \in Nat /\ length \in Nat \ {0} /\ begin + length <= VNum
  <2> DEFINE whole == TwoTo[GroupBits(VNum)]
  <2>1. begin \in 0 .. VNum - 1 /\ GroupEnd(VNum, g) = Least(VNum, g * whole + whole) /\ length \in 1 .. whole
    BY <1>3, GroupEnds
  <2>2. whole \in Nat
    BY GroupBitsType
  <2> HIDE DEF whole
  <2>3. GroupEnd(VNum, g) <= VNum /\ GroupEnd(VNum, g) \in Int
    <3>1. g * whole + whole \in Int
      BY <1>3, <2>2
    <3> QED
      BY <2>1, <3>1 DEF Least
  <2> HIDE DEF begin
  <2> QED
    BY <2>1, <2>2, <2>3
<1>6. size \in Nat \ {0} /\ count = CeilDiv(length, size)
  BY <1>3, PartitionsOfGroup DEF PartitionsOf
<1> HIDE DEF size, begin, length
<1>7. count \in Nat /\ size * count < length + size
  <2> HIDE DEF count
  <2> QED
    BY <1>5, <1>6, CeilDivIs
<1>8. i \in 1 .. count
  BY <1>2
<1> HIDE DEF count
<1>9. PICK d \in Nat : count = i + d
  <2>1. count - i \in Nat /\ count = i + (count - i)
    BY <1>7, <1>8
  <2> QED
    BY <2>1
<1> DEFINE j == i - 1
<1>10. j \in Nat /\ i = j + 1
  BY <1>7, <1>8
<1> HIDE DEF j
<1>11. /\ size * count = j * size + size + size * d /\ j * size \in Nat /\ size * d \in Nat
       /\ i * size = j * size + size
  BY <1>6, <1>9, <1>10, Z3
<1>12. /\ begin + j * size \in 0 .. VNum - 1 /\ Least(begin + i * size, VNum) \in 1 .. VNum
       /\ begin + j * size < Least(begin + i * size, VNum)
  <2> DEFINE x == j * size
             y == i * size
  <2>1. x \in Nat /\ y = x + size /\ x < length
    <3> DEFINE e == size * d
               w == size * count
    <3>1. w = x + size + e /\ x \in Nat /\ e \in Nat /\ y = x + size
      BY <1>11
    <3>2. w < length + size
      BY <1>7
    <3> HIDE DEF e, w, x, y
    <3> QED
      BY <1>5, <1>6, <3>1, <3>2
  <2> HIDE DEF x, y
  <2>2. /\ begin + x \in 0 .. VNum - 1 /\ Least(begin + y, VNum) \in 1 .. VNum
        /\ begin + x < Least(begin + y, VNum)
    BY <1>5, <1>6, <2>1 DEF Least
  <2> QED
    BY <2>2 DEF x, y
<1>13. parts[q].begin = begin + j * size /\ parts[q].end = Least(begin + i * size, VNum)
  <2>1. i - 1 = j
    BY DEF j
  <2> HIDE DEF Least
  <2> QED
    BY <1>4, <2>1
<1> QED
  BY <1>12, <1>13 DEF Ids

\* counting_sort finds a counter for the next vertex, and a place in the array.
LEMMA PlaceWithin ==
    ASSUME LayoutIInv, OrderInv, phase = "sort", next < VNum
    PROVE  degree[next] - 1 \in DOMAIN counters /\ VNum - counters[degree[next] - 1] - 1 \in Ids
<1>1. DegreesCounted /\ SortedSoFar /\ VNum \in Nat
  BY DEF OrderInv, LayoutIInv, NamesRead, VNum
<1>2. next \in Ids /\ degree \in [Ids -> Nat]
  BY <1>1 DEF SortedSoFar, DegreesCounted, Ids
<1>3. counters[degree[next] - 1] \in 0 .. VNum - 1
  BY <1>1, <1>2, CounterIsRank, RankType DEF SortedSoFar
<1> QED
  BY <1>1, <1>2, <1>3 DEF DegreesCounted, Ids

\* A shuffled partition has a place for every turn it gets, and after the last turn is full.
LEMMA RoomWithin ==
    ASSUME GroupsFit, LayoutIInv, OrderInv, phase = "shuffle", NEW p \in 1 .. shuffleNum
    PROVE  room[p] \in parts[p].begin .. parts[p].end
<1> DEFINE n == shuffleNum
           size == FirstSize
           r == next \div n
           extra == IF HadTurn(p, next) THEN 1 ELSE 0
<1>1. n \in Nat \ {0} /\ size \in Nat \ {0} /\ Dealt \in Nat /\ Dealt = n * size /\ p \in 1 .. n
      /\ parts[p] = [begin |-> (p - 1) * size, end |-> p * size]
  BY ShuffledIs DEF Dealt
<1>2. next \in 0 .. Dealt /\ room[p] = (p - 1) * size + r + extra
  BY <1>1 DEF OrderInv, ShuffledSoFar
<1>3. parts[p].begin = (p - 1) * size /\ parts[p].end = p * size
  <2> HIDE DEF size
  <2> QED
    BY <1>1
<1>4. r \in Nat /\ extra \in {0, 1} /\ r + extra <= size
  <2>1. CASE next < Dealt
    <3>1. next \in Nat
      BY <1>2
    <3>2. r \in Nat /\ r < size
      <4> HIDE DEF size
      <4> QED
        BY <1>1, <2>1, <3>1, DivMod, DivLess
    <3> HIDE DEF r, size
    <3> QED
      BY <1>1, <3>2
  <2>2. CASE next = Dealt
    <3>1. next = n * size + 0 /\ 0 \in 0 .. n - 1 /\ next \in Nat
      BY <1>1, <2>2
    <3>2. next \div n = size /\ next % n = 0
      <4> HIDE DEF size
      <4> QED
        BY <1>1, <3>1, DivUnique
    <3>3. ~HadTurn(p, next)
      BY <1>1, <3>2 DEF HadTurn
    <3> HIDE DEF size
    <3> QED
      BY <1>1, <3>2, <3>3
  <2> HIDE DEF r, extra, size
  <2> QED
    BY <1>1, <1>2, <2>1, <2>2
<1> HIDE DEF r, extra, size
<1>5. p * size = (p - 1) * size + size /\ (p - 1) * size \in Nat
  <2>1. p - 1 \in Nat /\ p = (p - 1) + 1
    BY <1>1
  <2> QED
    BY <1>1, <2>1, Z3
<1> DEFINE b == (p - 1) * size
<1>6. b \in Nat /\ room[p] = b + r + extra /\ parts[p].begin = b /\ parts[p].end = b + size
  BY <1>2, <1>3, <1>5
<1> HIDE DEF b
<1> QED
  BY <1>1, <1>4, <1>6

\* No vertex's edge_end passes the end of its list.
LEMMA CursorWithin ==
    ASSUME GroupsFit, LayoutIInv, OrderInv, FillInv, Laid, NEW v \in Ids
    PROVE  cursor[v] \in ListBegin(v) .. ListBegin(v) + Degree(v)
<1> DEFINE mine == {h \in Claimed : From(h) = v}
           all  == {h \in HalfEdges : From(h) = v}
<1>1. PICK place \in [HalfEdges -> Nat] : PlacedIn(place)
  BY DEF FillInv
<1>2. cursor[v] = ListBegin(v) + Cardinality(mine)
  BY <1>1 DEF PlacedIn
<1>3. ListBegin(v) \in Nat /\ Degree(v) \in Nat /\ Degree(v) = Cardinality(all)
  BY ListsAreApart DEF ListsApart
<1>4. mine \in SUBSET all
  <2>1. Claimed \subseteq HalfEdges
    BY ClaimsAre DEF FillInv
  <2> QED
    BY <2>1
<1>5. IsFiniteSet(all)
  <2>1. Halves * Len(graph.edges) \in Nat
    BY SharesAre, ThreadsAssumption
  <2>2. IsFiniteSet(HalfEdges)
    BY <2>1, FS_Interval DEF HalfEdges
  <2>3. all \in SUBSET HalfEdges
    OBVIOUS
  <2> QED
    BY <2>2, <2>3, FS_Subset
<1>6. Cardinality(mine) \in Nat /\ Cardinality(mine) <= Cardinality(all)
  BY <1>4, <1>5, FS_Subset, FS_CardinalityType
<1> HIDE DEF mine, all
<1> QED
  BY <1>2, <1>3, <1>6

LEMMA GraphTypeFollows == ASSUME GroupsFit, LayoutIInv, OrderInv, FillInv PROVE GraphTypeOK
<1>1. next \in Nat
  <2>1. CASE phase = "load"
    BY <2>1 DEF LayoutIInv, NamesRead
  <2>2. CASE phase = "sort"
    BY <2>2 DEF OrderInv, SortedSoFar
  <2>3. CASE phase = "groups"
    BY <2>3 DEF LayoutIInv, GroupsLaid
  <2>4. CASE phase = "shuffle"
    BY <2>4 DEF OrderInv, ShuffledSoFar
  <2>5. CASE Laid
    BY <2>5 DEF FillInv
  <2> QED
    BY <2>1, <2>2, <2>3, <2>4, <2>5 DEF LayoutIInv, Laid
<1>2. phase # "load" => /\ degree \in [Ids -> Nat \ {0}]
                        /\ units \in [Ids -> Ids]
                        /\ \A d \in DOMAIN counters : counters[d] \in 0 .. VNum
  BY DEF OrderInv, DegreesCounted
<1>3. /\ \A p \in DOMAIN parts : parts[p].begin \in Ids /\ parts[p].end \in 1 .. VNum
      /\ shuffleNum \in 0 .. Len(parts)
      /\ \A g \in DOMAIN offsets : offsets[g] \in Partitions
  <2>1. CASE phase \in {"load", "sort"}
    <3>1. parts = << >> /\ shuffleNum = 0 /\ offsets = << >>
      BY <2>1 DEF LayoutIInv, GroupsLaid, OrderInv
    <3> QED
      BY <3>1
  <2>2. CASE phase \in {"groups", "shuffle", "fill", "done"}
    <3>1. VNum \in Nat \ {0} /\ WholeGroupsFit(VNum)
      BY <2>2, VerticesFit
    <3>2. bits \in [0 .. GroupNum(VNum) - 1 -> PartitionBits(VNum)]
      BY <2>2 DEF LayoutIInv, GroupsLaid, Sorted
    <3>3. GroupNum(VNum) \in Nat \ {0} /\ FirstGroup \in Nat \ {0}
      <4>1. GroupNum(VNum) \in Nat
        BY <3>1, CeilDivIs, GroupBitsType DEF GroupNum
      <4>2. 0 \in 0 .. GroupNum(VNum) - 1 /\ FirstGroup \in Nat \ {0}
        BY <3>1, <3>2, FirstGroupIs
      <4> QED
        BY <4>1, <4>2
    <3> DEFINE m == IF phase = "groups" THEN next ELSE GroupNum(VNum)
    <3>4. m \in 0 .. GroupNum(VNum) /\ LaidUpTo(m)
      BY <2>2, <3>3 DEF LayoutIInv, GroupsLaid
    <3>5. (m = 0 => shuffleNum = 0) /\ (m # 0 => ShuffledAll)
      BY <2>2, <3>3 DEF OrderInv
    <3> HIDE DEF m
    <3>6. Len(parts) \in Nat /\ DOMAIN parts = 1 .. Len(parts)
      BY <3>4 DEF LaidUpTo
    <3>9. ASSUME NEW g \in DOMAIN offsets PROVE offsets[g] \in Partitions
      <4>1. g \in 0 .. m - 1 /\ g \in 0 .. GroupNum(VNum) - 1 /\ offsets[g] \in Nat
        BY <3>3, <3>4, <3>9 DEF LaidUpTo
      <4>2. PartitionsOf(VNum, g, bits[g]) \in Nat \ {0}
        <5> DEFINE length == GroupEnd(VNum, g) - GroupBegin(VNum, g)
                   size == TwoTo[bits[g]]
                   count == PartitionsOf(VNum, g, bits[g])
        <5>1. length \in Nat \ {0}
          <6>1. length \in 1 .. TwoTo[GroupBits(VNum)] /\ TwoTo[GroupBits(VNum)] \in Nat
            BY <3>1, <4>1, GroupEnds, GroupBitsType
          <6> QED
            BY <6>1
        <5>2. size \in Nat /\ count \in Nat /\ length <= size * count
          BY <3>1, <3>2, <4>1, PartitionsOfGroup
        <5> HIDE DEF length, size, count
        <5>3. count # 0
          BY <5>1, <5>2
        <5> QED
          BY <5>2, <5>3 DEF count
      <4>3. offsets[g] + 1 \in DOMAIN parts
        BY <3>4, <4>1, <4>2 DEF LaidUpTo
      <4> QED
        BY <3>6, <4>1, <4>3 DEF Partitions
    <3>7. CASE m = 0
      BY <3>1, <3>2, <3>4, <3>5, <3>6, <3>7, <3>9, PartsWithin
    <3>8. CASE m # 0
      <4>1. FirstGroup \in DOMAIN parts
        <5>1. m \in Nat \ {0} /\ offsets[0] = 0 /\ FirstGroup \in 1 .. FirstGroup
          BY <3>3, <3>4, <3>5, <3>8 DEF ShuffledAll
        <5> QED
          BY <3>1, <3>2, <3>4, <5>1, FirstParts
      <4>2. shuffleNum = Least(ThreadNum, FirstGroup)
        BY <3>5, <3>8 DEF ShuffledAll
      <4>3. shuffleNum \in 0 .. Len(parts)
        BY <3>3, <3>6, <4>1, <4>2, ThreadsAssumption DEF Least
      <4> QED
        BY <3>1, <3>2, <3>4, <3>9, <4>3, PartsWithin
    <3> QED
      BY <3>7, <3>8
  <2> QED
    BY <2>1, <2>2 DEF LayoutIInv
<1>4. Laid => /\ cursor \in [Ids -> Nat]
              /\ \A s \in Sockets : \A i \in DOMAIN edges[s] : edges[s][i] \in Ids \cup {None}
              /\ \A t \in Team : half[t] \in FirstHalf(t) .. FirstHalf(t + 1)
  BY DEF FillInv, OwnHalves
<1>5. phase = "sort" /\ next < VNum => /\ degree[next] - 1 \in DOMAIN counters
                                      /\ VNum - counters[degree[next] - 1] - 1 \in Ids
  BY PlaceWithin
<1>6. phase = "shuffle" => \A p \in 1 .. shuffleNum : room[p] \in parts[p].begin .. parts[p].end
  BY RoomWithin
<1>7. Laid => \A v \in Ids : cursor[v] \in ListBegin(v) .. ListBegin(v) + Degree(v)
  BY CursorWithin
<1>8. /\ phase \in {"load", "sort", "groups", "shuffle", "fill", "done"} /\ graph \in RawGraphs
      /\ half \in [Team -> Nat] /\ slot \in [Team -> Nat \cup {None}]
  BY DEF LayoutIInv, FillInv
<1> QED
  BY <1>1, <1>2, <1>3, <1>4, <1>5, <1>6, <1>7, <1>8 DEF GraphTypeOK

LEMMA SlotsFollow == ASSUME GroupsFit, LayoutIInv, OrderInv, FillInv PROVE SlotsExclusive
<1> SUFFICES ASSUME NEW t \in Team, slot[t] # None
             PROVE  LET u == From(half[t])
                        s == VertexSocket(u)
                    IN  /\ slot[t] \in ListBegin(u) .. ListBegin(u) + Degree(u) - 1
                        /\ slot[t] \in DOMAIN edges[s] /\ edges[s][slot[t]] = None
                        /\ \A r \in Team : r # t /\ slot[r] = slot[t] => VertexSocket(From(half[r])) # s
  BY DEF SlotsExclusive
<1> DEFINE h0 == half[t]
           u == From(h0)
           s == VertexSocket(u)
<1>1. Laid
  BY DEF FillInv
<1>2. /\ half \in [Team -> Nat] /\ OwnHalves /\ cursor \in [Ids -> Nat]
      /\ \A k \in Sockets : edges[k] \in [0 .. EdgesAt(k, VNum) - 1 -> Ids \cup {None}]
  BY <1>1 DEF FillInv
<1>3. PICK place \in [HalfEdges -> Nat] : PlacedIn(place)
  BY <1>1 DEF FillInv
<1>4. ListsApart /\ VNum \in Nat
  BY <1>1, ListsAreApart, ShuffledIs DEF Laid
<1>5. /\ Written \subseteq Claimed /\ Claimed \subseteq HalfEdges
      /\ \A r \in Team : slot[r] # None => half[r] \in Claimed /\ half[r] < FirstHalf(r + 1)
  BY <1>2, ClaimsAre DEF Claimed, OwnHalves
<1>6. h0 \notin Written /\ \A r \in Team : half[r] < FirstHalf(r + 1) /\ half[r] = h0 => r = t
  BY <1>2, <1>5, ClaimsAre
<1>7. slot[t] = place[h0] /\ h0 \in Claimed
  BY <1>3, <1>5 DEF PlacedIn
<1>8. /\ s \in Sockets
      /\ place[h0] \in ListBegin(u) .. ListBegin(u) + Degree(u) - 1
      /\ place[h0] \in 0 .. EdgesAt(s, VNum) - 1
  BY <1>2, <1>3, <1>4, <1>5, <1>7, ClaimsApart
<1>9. \A h \in Claimed : VertexSocket(From(h)) = s /\ place[h] = place[h0] => h = h0
  BY <1>2, <1>3, <1>4, <1>5, <1>7, ClaimsApart
<1> HIDE DEF h0, u, s
<1>10. place[h0] \in DOMAIN edges[s]
  BY <1>2, <1>8
<1>11. edges[s][place[h0]] = None
  <2> SUFFICES ASSUME edges[s][place[h0]] # None PROVE FALSE
    OBVIOUS
  <2>1. PICK h \in Written : VertexSocket(From(h)) = s /\ place[h] = place[h0]
    BY <1>3, <1>8, <1>10 DEF PlacedIn
  <2> QED
    BY <1>5, <1>6, <1>9, <2>1
<1>12. ASSUME NEW r \in Team, r # t, slot[r] = slot[t] PROVE VertexSocket(From(half[r])) # s
  <2>1. half[r] \in Claimed /\ half[r] < FirstHalf(r + 1) /\ slot[r] = place[half[r]]
    BY <1>3, <1>5, <1>12 DEF PlacedIn
  <2>2. place[half[r]] = place[h0]
    BY <1>7, <1>12, <2>1
  <2> QED
    BY <1>6, <1>9, <1>12, <2>1, <2>2
<1> QED
  BY <1>7, <1>8, <1>10, <1>11, <1>12 DEF h0, u, s

\* When every thread is through, all half edges are written.
LEMMA AllWritten ==
    ASSUME LayoutIInv, half \in [Team -> Nat], OwnHalves, \A t \in Team : half[t] = FirstHalf(t + 1)
    PROVE  Written = HalfEdges
<1> DEFINE S == {k \in Nat : k <= ThreadNum => \A h \in Nat : h < FirstHalf(k) => h \in Written}
<1>1. ThreadNum \in Nat \ {0} /\ Team = 0 .. ThreadNum - 1
  BY ThreadsAssumption DEF Team
<1>2. 0 \in S
  BY SharesAre
<1>3. ASSUME NEW k \in Nat, k \in S PROVE k + 1 \in S
  <2> SUFFICES ASSUME k + 1 <= ThreadNum, NEW h \in Nat, h < FirstHalf(k + 1) PROVE h \in Written
    OBVIOUS
  <2>1. k \in Team /\ k \in 0 .. ThreadNum /\ k + 1 \in 0 .. ThreadNum
    BY <1>1
  <2>2. FirstHalf(k) \in Nat /\ FirstHalf(k + 1) \in Nat
    BY <2>1, SharesAre
  <2>3. CASE h < FirstHalf(k)
    BY <1>1, <1>3, <2>1, <2>3
  <2>4. CASE h >= FirstHalf(k)
    <3>1. h \in FirstHalf(k) .. half[k] - 1
      BY <2>1, <2>2, <2>4
    <3> QED
      BY <2>1, <3>1 DEF Written
  <2> QED
    BY <2>2, <2>3, <2>4
<1> HIDE DEF S
<1>4. ThreadNum \in S
  BY <1>1, <1>2, <1>3, Induction
<1>5. \A h \in Nat : h < Halves * Len(graph.edges) => h \in Written
  <2>1. FirstHalf(ThreadNum) = Halves * Len(graph.edges)
    BY SharesAre
  <2> QED
    BY <1>1, <1>4, <2>1 DEF S
<1>6. HalfEdges \subseteq Written
  <2>1. Halves * Len(graph.edges) \in Nat /\ HalfEdges = 0 .. Halves * Len(graph.edges) - 1
    BY EdgesAre
  <2> QED
    BY <1>5, <2>1
<1> QED
  BY <1>6, ClaimsAre

\* The entries of u's list that hold v are those of the half edges from u to v.
LEMMA EntriesAreHalves ==
    ASSUME GroupsFit, LayoutIInv, OrderInv, FillInv, phase = "done", NEW u \in Ids, NEW v \in Ids
    PROVE  Cardinality({i \in ListBegin(u) .. ListBegin(u) + Degree(u) - 1 : edges[VertexSocket(u)][i] = v})
           = Cardinality({h \in HalfEdges : From(h) = u /\ To(h) = v})
<1> DEFINE List == ListBegin(u) .. ListBegin(u) + Degree(u) - 1
           Mine == {h \in HalfEdges : From(h) = u}
           S == {h \in HalfEdges : From(h) = u /\ To(h) = v}
           T == {i \in List : edges[VertexSocket(u)][i] = v}
<1>1. Laid
  BY DEF Laid
<1>2. /\ half \in [Team -> Nat] /\ OwnHalves /\ cursor \in [Ids -> Nat]
      /\ \A t \in Team : half[t] = FirstHalf(t + 1)
  BY <1>1 DEF FillInv
<1>3. PICK place \in [HalfEdges -> Nat] : PlacedIn(place)
  BY <1>1 DEF FillInv
<1>4. ListsApart /\ VNum \in Nat
  BY <1>1, ListsAreApart, ShuffledIs DEF Laid
<1>5. Written = HalfEdges /\ Claimed = HalfEdges
  BY <1>2, AllWritten, ClaimsAre
<1>6. ASSUME NEW h \in Mine
      PROVE  place[h] \in List /\ edges[VertexSocket(u)][place[h]] = To(h)
  <2>1. place[h] \in ListBegin(From(h)) .. ListBegin(From(h)) + Degree(From(h)) - 1
    BY <1>2, <1>3, <1>4, <1>5, ClaimsApart
  <2> QED
    BY <1>3, <1>5, <2>1 DEF PlacedIn
<1>7. \A g, h \in Mine : place[g] = place[h] => g = h
  BY <1>3, <1>5 DEF PlacedIn
<1>8. IsFiniteSet(Mine) /\ Cardinality(Mine) = Degree(u)
  <2>1. IsFiniteSet(HalfEdges) /\ Mine \in SUBSET HalfEdges
    BY EdgesAre
  <2>2. Degree(u) = Cardinality(Mine)
    BY <1>4 DEF ListsApart
  <2> HIDE DEF Mine
  <2> QED
    BY <2>1, <2>2, FS_Subset
<1>9. IsFiniteSet(List) /\ Cardinality(List) = Degree(u)
  <2> DEFINE l == ListBegin(u)
             d == Degree(u)
  <2>1. l \in Nat /\ d \in Nat
    BY <1>4 DEF ListsApart
  <2> HIDE DEF l, d
  <2>2. IsFiniteSet(l .. l + d - 1) /\ Cardinality(l .. l + d - 1) = d
    BY <2>1, FS_Interval
  <2> QED
    BY <2>2 DEF l, d
<1> DEFINE spot == [h \in Mine |-> place[h]]
<1>10. spot \in Injection(Mine, List)
  BY <1>6, <1>7 DEF Injection, IsInjective
<1>11. spot \in Surjection(Mine, List)
  <2> HIDE DEF spot, Mine, List
  <2> QED
    BY <1>8, <1>9, <1>10, FS_Injection
<1>12. \A i \in List : \E h \in Mine : place[h] = i
  BY <1>11 DEF Surjection
<1> DEFINE entry == [h \in S |-> place[h]]
<1>13. entry \in Bijection(S, T)
  <2>1. \A h \in S : h \in Mine /\ place[h] \in T
    BY <1>6
  <2>2. \A i \in T : \E h \in S : place[h] = i
    <3> SUFFICES ASSUME NEW i \in T PROVE \E h \in S : place[h] = i
      OBVIOUS
    <3>1. PICK h \in Mine : place[h] = i
      BY <1>12
    <3>2. To(h) = v
      BY <1>6, <3>1
    <3> QED
      BY <3>1, <3>2
  <2>3. \A g, h \in S : place[g] = place[h] => g = h
    BY <1>7, <2>1
  <2> HIDE DEF S, T
  <2> QED
    BY <2>1, <2>2, <2>3 DEF Bijection, Injection, Surjection, IsInjective
<1>14. IsFiniteSet(S)
  <2>1. IsFiniteSet(HalfEdges) /\ S \in SUBSET HalfEdges
    BY EdgesAre
  <2> HIDE DEF S
  <2> QED
    BY <2>1, FS_Subset
<1>15. Cardinality(T) = Cardinality(S)
  <2> HIDE DEF S, T, entry
  <2> QED
    BY <1>13, <1>14, FS_Bijection DEF ExistsBijection
<1> QED
  BY <1>15

LEMMA GraphKeptFollows == ASSUME GroupsFit, LayoutIInv, OrderInv, FillInv PROVE GraphKept
<1> SUFFICES ASSUME phase = "done", NEW u \in Ids, NEW v \in Ids
             PROVE  Cardinality({i \in ListBegin(u) .. ListBegin(u) + Degree(u) - 1 :
                                    edges[VertexSocket(u)][i] = v})
                    = LET a == names[units[u] + 1]
                          b == names[units[v] + 1]
                          Read(x, y) == Cardinality({e \in DOMAIN graph.edges : graph.edges[e] = <<x, y>>})
                      IN  Read(a, b) + (IF graph.undirected THEN Read(b, a) ELSE 0)
  BY DEF GraphKept
<1> DEFINE a == names[units[u] + 1]
           b == names[units[v] + 1]
           X1 == {e \in DOMAIN graph.edges : graph.edges[e] = <<a, b>>}
           X2 == {e \in DOMAIN graph.edges : graph.edges[e] = <<b, a>>}
           Y == {h \in HalfEdges : From(h) = u /\ To(h) = v}
<1>1. Laid
  BY DEF Laid
<1>2. ASSUME NEW h \in HalfEdges
      PROVE  /\ h % Halves = 0 => (h \in Y <=> h \div Halves + 1 \in X1)
             /\ h % Halves = 1 => (h \in Y <=> h \div Halves + 1 \in X2)
  <2> DEFINE e == h \div Halves + 1
             j == h % Halves
  <2>1. e \in DOMAIN graph.edges /\ graph.edges[e] \in Nat \X Nat
    BY EdgesAre
  <2>2. /\ From(h) = u <=> graph.edges[e][j + 1] = a
        /\ To(h) = v <=> graph.edges[e][2 - j] = b
    BY <1>1, HalfIs DEF EdgeOf
  <2> HIDE DEF e, j, a, b
  <2>3. \A x, y : graph.edges[e] = <<x, y>> <=> graph.edges[e][1] = x /\ graph.edges[e][2] = y
    BY <2>1
  <2>4. h \in Y <=> graph.edges[e][j + 1] = a /\ graph.edges[e][2 - j] = b
    BY <2>2
  <2>5. /\ e \in X1 <=> graph.edges[e][1] = a /\ graph.edges[e][2] = b
        /\ e \in X2 <=> graph.edges[e][1] = b /\ graph.edges[e][2] = a
    BY <2>1, <2>3
  <2> HIDE DEF X1, X2, Y
  <2>6. j = 0 => (h \in Y <=> e \in X1)
    <3>1. j = 0 => j + 1 = 1 /\ 2 - j = 2
      OBVIOUS
    <3> QED
      BY <2>4, <2>5, <3>1
  <2>7. j = 1 => (h \in Y <=> e \in X2)
    <3>1. j = 1 => j + 1 = 2 /\ 2 - j = 1
      OBVIOUS
    <3> QED
      BY <2>4, <2>5, <3>1
  <2> QED
    BY <2>6, <2>7 DEF e, j
<1>3. X1 \in SUBSET DOMAIN graph.edges /\ X2 \in SUBSET DOMAIN graph.edges /\ Y \in SUBSET HalfEdges
  OBVIOUS
<1>4. Cardinality(Y) = Cardinality(X1) + (IF graph.undirected THEN Cardinality(X2) ELSE 0)
  <2> HIDE DEF X1, X2, Y
  <2> QED
    BY <1>2, <1>3, CountHalves
<1> QED
  BY <1>4, EntriesAreHalves

(***************************************************************************)
(* In every state of the layout the ids that are sorted so far, and later  *)
(* those that are dealt out so far, are where their degrees put them.      *)
(***************************************************************************)
THEOREM OrderInvariant ==
    ASSUME GroupsFit PROVE GraphSpec => []OrderInv
<1>1. GraphInit => OrderInv
  BY OrderInit
<1>2. LayoutIInv /\ OrderInv /\ [GraphNext]_graphVars => OrderInv'
  BY OrderStep
<1> QED
  BY <1>1, <1>2, LayoutInvariant, PTL DEF GraphSpec

(***************************************************************************)
(* While the threads fill the lists, there is a place of its own for every *)
(* half edge that was claimed, in the list of its vertex, and an entry is  *)
(* written if and only if it is the place of a half edge that was.         *)
(***************************************************************************)
THEOREM FillInvariant ==
    ASSUME GroupsFit PROVE GraphSpec => []FillInv
<1>1. GraphInit => FillInv
  BY FillInit
<1>2. LayoutIInv /\ OrderInv /\ FillInv /\ [GraphNext]_graphVars => FillInv'
  BY FillStepKeeps
<1> QED
  BY <1>1, <1>2, LayoutInvariant, OrderInvariant, PTL DEF GraphSpec

(***************************************************************************)
(* The layout's variables keep their types and the loops' indices lie in   *)
(* their arrays, for every file, whatever partitions the hints chose and   *)
(* however the threads interleave.                                         *)
(***************************************************************************)
THEOREM GraphTypeCorrect ==
    ASSUME GroupsFit PROVE GraphSpec => []GraphTypeOK
<1>1. LayoutIInv /\ OrderInv /\ FillInv => GraphTypeOK
  BY GraphTypeFollows
<1> QED
  BY <1>1, LayoutInvariant, OrderInvariant, FillInvariant, PTL

(***************************************************************************)
(* counting_sort sorts by degree, the shuffle loses no vertex and leaves   *)
(* the vertices of a partition in order, and of two vertices behind the    *)
(* shuffled partitions the first has no smaller degree.                    *)
(***************************************************************************)
THEOREM DegreesAreSorted ==
    ASSUME GroupsFit PROVE GraphSpec => []DegreesFall
<1>1. LayoutIInv /\ OrderInv => DegreesFall
  BY DegreesFallFollows
<1> QED
  BY <1>1, LayoutInvariant, OrderInvariant, PTL

(***************************************************************************)
(* Dealt out there and back, two shuffled partitions differ in load by one *)
(* round's drop in degrees for every two rounds at most.                   *)
(***************************************************************************)
THEOREM ShuffleIsBalanced ==
    ASSUME GroupsFit PROVE GraphSpec => []ShuffleBalanced
<1>1. LayoutIInv /\ OrderInv => ShuffleBalanced
  BY BalanceFollows
<1> QED
  BY <1>1, LayoutInvariant, OrderInvariant, PTL

(***************************************************************************)
(* However the threads interleave, no two of them hold one entry of an     *)
(* edge array, and the entry a thread holds is free and its vertex's.      *)
(***************************************************************************)
THEOREM SlotsAreExclusive ==
    ASSUME GroupsFit PROVE GraphSpec => []SlotsExclusive
<1>1. LayoutIInv /\ OrderInv /\ FillInv => SlotsExclusive
  BY SlotsFollow
<1> QED
  BY <1>1, LayoutInvariant, OrderInvariant, FillInvariant, PTL

(***************************************************************************)
(* When make returns, the adjacency lists are the edges of the file, each  *)
(* as often as it is there, for every file, hint and interleaving.         *)
(***************************************************************************)
THEOREM GraphIsKept ==
    ASSUME GroupsFit PROVE GraphSpec => []GraphKept
<1>1. LayoutIInv /\ OrderInv /\ FillInv => GraphKept
  BY GraphKeptFollows
<1> QED
  BY <1>1, LayoutInvariant, OrderInvariant, FillInvariant, PTL

\* The partition whose turn it is has room for the vertex.
TurnHasRoom ==
    phase = "shuffle" /\ next < parts[shuffleNum].end => room[Snake(next)] < parts[Snake(next)].end

LEMMA RoomFollows == ASSUME GroupsFit, LayoutIInv, OrderInv PROVE TurnHasRoom
<1> SUFFICES ASSUME phase = "shuffle", next < parts[shuffleNum].end
             PROVE  room[Snake(next)] < parts[Snake(next)].end
  BY DEF TurnHasRoom
<1> DEFINE p == Snake(next)
           r == next \div shuffleNum
           size == FirstSize
<1>1. /\ shuffleNum \in Nat \ {0} /\ size \in Nat \ {0} /\ Dealt \in Nat /\ ShuffledSoFar
      /\ \A q \in 1 .. shuffleNum : parts[q] = [begin |-> (q - 1) * size, end |-> q * size]
  BY ShuffledIs DEF OrderInv
<1>2. next \in 0 .. Dealt - 1
  <2>1. shuffleNum \in 1 .. shuffleNum
    BY <1>1
  <2>2. parts[shuffleNum] = [begin |-> (shuffleNum - 1) * size, end |-> shuffleNum * size]
    BY <1>1, <2>1
  <2>3. Dealt = shuffleNum * size
    BY DEF Dealt
  <2> HIDE DEF size
  <2>4. parts[shuffleNum].end = Dealt
    BY <2>2, <2>3
  <2> QED
    BY <1>1, <2>4 DEF ShuffledSoFar
<1>3. p \in 1 .. shuffleNum /\ r \in 0 .. size - 1 /\ room[p] = (p - 1) * size + r
  BY <1>2, RoomIs
<1>4. parts[p].end = p * size
  <2>1. parts[p] = [begin |-> (p - 1) * size, end |-> p * size]
    BY <1>1, <1>3
  <2> HIDE DEF p, size
  <2> QED
    BY <2>1
<1>5. p * size = (p - 1) * size + size /\ (p - 1) * size \in Nat
  <2>1. p - 1 \in Nat /\ p = (p - 1) + 1
    BY <1>1, <1>3
  <2> HIDE DEF p, size
  <2> QED
    BY <1>1, <2>1, Z3
<1> HIDE DEF p, r, size
<1>6. room[p] < parts[p].end
  BY <1>1, <1>3, <1>4, <1>5
<1> QED
  BY <1>6 DEF p

(***************************************************************************)
(* The shuffle's search for a partition that is not full passes over none: *)
(* the one whose turn it is has room.  PlaceVertex is all that make does.  *)
(***************************************************************************)
THEOREM NobodyIsPassedOver ==
    ASSUME GroupsFit PROVE GraphSpec => []TurnHasRoom
<1>1. LayoutIInv /\ OrderInv => TurnHasRoom
  BY RoomFollows
<1> QED
  BY <1>1, LayoutInvariant, OrderInvariant, PTL
-----------------------------------------------------------------------------
(* The layout and the samplers                                             *)

(***************************************************************************)
(* Of each partition what SamplersAssumption asks of the layouts a sampler *)
(* is given: it has vertices, in the order of their degrees, whose lists   *)
(* do not overlap and are evenly spaced in a run of equal degrees.         *)
(***************************************************************************)
SamplersServed ==
    Laid => \A p \in Partitions :
        LET VertexBegin == parts[p + 1].begin
            VertexEnd   == parts[p + 1].end
            Vertices    == VertexBegin .. VertexEnd - 1
        IN
        /\ VertexBegin \in Nat /\ VertexEnd \in Nat /\ VertexBegin < VertexEnd
        /\ \A v \in Vertices : Degree(v) \in Nat \ {0} /\ ListBegin(v) \in Nat
        /\ \A u, v \in Vertices : u < v =>
              /\ Degree(u) >= Degree(v)
              /\ ListBegin(u) + Degree(u) <= ListBegin(v)
              /\ Degree(u) = Degree(v) => ListBegin(v) = ListBegin(u) + (v - u) * Degree(u)

\* A vertex is on the socket of the partition that holds it.
LEMMA SocketOfHolder ==
    ASSUME GroupsFit, LayoutIInv, Laid, NEW p \in Partitions, NEW v \in Ids, Holds(p, v)
    PROVE  VertexSocket(v) = PartitionSocket(p)
<1>1. {q \in Partitions : Holds(q, v)} = {GetVertexPartitionId(v)}
  BY LookupFollows DEF LookupAgrees, Laid
<1>2. \A q \in Partitions : Holds(q, v) => q = p
  BY <1>1
<1>3. (CHOOSE q \in Partitions : Holds(q, v)) = p
  BY <1>2, Zenon
<1> QED
  BY <1>3 DEF VertexSocket

\* Equal degrees add up to a product.
LEMMA SumOfEqual ==
    ASSUME NEW a, NEW m \in Nat, NEW k \in Nat, NEW d \in Nat, Sum(a, m) \in Nat,
           \A i \in m .. m + k - 1 : a[i] = d
    PROVE  Sum(a, m + k) = Sum(a, m) + k * d
<1> DEFINE S == {n \in Nat : n <= k => Sum(a, m + n) = Sum(a, m) + n * d}
<1>1. 0 \in S
  <2>1. m + 0 = m /\ 0 * d = 0
    OBVIOUS
  <2> QED
    BY <2>1
<1>2. ASSUME NEW n \in Nat, n \in S PROVE n + 1 \in S
  <2> SUFFICES ASSUME n + 1 <= k PROVE Sum(a, m + (n + 1)) = Sum(a, m) + (n + 1) * d
    OBVIOUS
  <2>1. m + n \in Nat /\ m + n \in m .. m + k - 1 /\ m + (n + 1) = (m + n) + 1
    OBVIOUS
  <2>2. Sum(a, (m + n) + 1) = Sum(a, m + n) + a[m + n]
    BY <2>1, SumStep
  <2>3. Sum(a, m + n) = Sum(a, m) + n * d
    BY <1>2
  <2>4. (n + 1) * d = n * d + d /\ n * d \in Nat
    BY Z3
  <2>5. a[m + n] = d
    BY <2>1
  <2> QED
    BY <2>1, <2>2, <2>3, <2>4, <2>5
<1> HIDE DEF S
<1>3. k \in S
  BY <1>1, <1>2, Induction
<1> QED
  BY <1>3 DEF S

LEMMA ServedFollows == ASSUME GroupsFit, LayoutIInv, OrderInv PROVE SamplersServed
<1> SUFFICES ASSUME Laid, NEW p \in Partitions
             PROVE  LET VertexBegin == parts[p + 1].begin
                        VertexEnd   == parts[p + 1].end
                        Vertices    == VertexBegin .. VertexEnd - 1
                    IN
                    /\ VertexBegin \in Nat /\ VertexEnd \in Nat /\ VertexBegin < VertexEnd
                    /\ \A v \in Vertices : Degree(v) \in Nat \ {0} /\ ListBegin(v) \in Nat
                    /\ \A u, v \in Vertices : u < v =>
                          /\ Degree(u) >= Degree(v)
                          /\ ListBegin(u) + Degree(u) <= ListBegin(v)
                          /\ Degree(u) = Degree(v) => ListBegin(v) = ListBegin(u) + (v - u) * Degree(u)
  BY DEF SamplersServed
<1> DEFINE first == parts[p + 1].begin
           end   == parts[p + 1].end
<1>1. /\ VNum \in Nat \ {0} /\ WholeGroupsFit(VNum) /\ LaidUpTo(GroupNum(VNum))
      /\ bits \in [0 .. GroupNum(VNum) - 1 -> PartitionBits(VNum)]
  <2>1. phase # "load" /\ phase \in {"shuffle", "fill", "done"} /\ Sorted
    BY DEF Laid, Sorted
  <2> QED
    BY <2>1, VerticesFit DEF LayoutIInv, GroupsLaid
<1>2. first \in Ids /\ end \in 1 .. VNum /\ first < end
  <2>1. p + 1 \in DOMAIN parts
    <3>1. parts \in Seq([begin : Int, end : Int])
      BY <1>1 DEF LaidUpTo
    <3>2. Len(parts) \in Nat /\ DOMAIN parts = 1 .. Len(parts)
      BY <3>1
    <3> QED
      BY <3>2 DEF Partitions
  <2>2. GroupNum(VNum) \in 0 .. GroupNum(VNum)
    <3>1. GroupNum(VNum) \in Nat
      BY <1>1, CeilDivIs, GroupBitsType DEF GroupNum
    <3> QED
      BY <3>1
  <2> QED
    BY <1>1, <2>1, <2>2, PartsWithin
<1>3. Ids = 0 .. VNum - 1
  BY DEF Ids
<1>4. \A v \in first .. end - 1 : v \in Ids /\ v \in Nat /\ Holds(p, v)
  <2> SUFFICES ASSUME NEW v \in first .. end - 1 PROVE v \in Ids /\ v \in Nat /\ Holds(p, v)
    OBVIOUS
  <2>1. Holds(p, v) <=> first <= v /\ v < end
    BY DEF Holds
  <2> HIDE DEF first, end
  <2> QED
    BY <1>1, <1>2, <1>3, <2>1
<1>5. \A v \in first .. end - 1 : VertexSocket(v) = PartitionSocket(p)
  BY <1>4, SocketOfHolder
<1> HIDE DEF first, end
<1>6. \A v \in Ids : Degree(v) \in Nat \ {0}
  <2>1. degree \in [Ids -> Nat \ {0}] /\ units \in [Ids -> Ids]
    BY UnitsOnto DEF Laid, OrderInv, DegreesCounted
  <2> QED
    BY <2>1 DEF Degree
<1>7. /\ \A v \in Ids : ListBegin(v) \in Nat
      /\ \A u, v \in Ids : u < v /\ VertexSocket(u) = VertexSocket(v) =>
            ListBegin(u) + Degree(u) <= ListBegin(v)
  BY ListsAreApart DEF ListsApart
<1>8. ASSUME NEW u \in first .. end - 1, NEW v \in first .. end - 1, u < v
      PROVE  Degree(u) >= Degree(v)
  <2>1. Sorted /\ phase # "shuffle"
    BY DEF Laid, Sorted
  <2>2. u \in Ids /\ v \in Ids /\ Holds(p, u) /\ Holds(p, v)
    BY <1>4
  <2> QED
    BY <1>8, <2>1, <2>2, DegreesFallFollows DEF DegreesFall
<1>9. ASSUME NEW u \in first .. end - 1, NEW v \in first .. end - 1, u < v, Degree(u) = Degree(v)
      PROVE  ListBegin(v) = ListBegin(u) + (v - u) * Degree(u)
  <2> DEFINE s == PartitionSocket(p)
             a == [w \in Ids |-> IF VertexSocket(w) = s THEN Degree(w) ELSE 0]
             k == v - u
             d == Degree(u)
  <2>1. u \in Ids /\ v \in Ids /\ u \in Nat /\ k \in Nat /\ u + k = v /\ d \in Nat
    BY <1>2, <1>3, <1>4, <1>6, <1>9
  <2>2. ListBegin(u) = Sum(a, u) /\ ListBegin(v) = Sum(a, v)
    <3>1. VertexSocket(u) = s /\ VertexSocket(v) = s
      BY <1>5
    <3> QED
      BY <3>1 DEF ListBegin, EdgesAt
  <2>3. \A i \in u .. u + k - 1 : a[i] = d
    <3> SUFFICES ASSUME NEW i \in u .. u + k - 1 PROVE a[i] = d
      OBVIOUS
    <3>1. i \in first .. end - 1 /\ u <= i /\ i < v /\ i \in Ids /\ i \in Nat
      <4>1. i \in first .. end - 1 /\ u <= i /\ i < v
        BY <1>1, <1>2, <1>3, <1>4, <2>1
      <4> QED
        BY <1>4, <4>1
    <3>2. Degree(i) >= Degree(v)
      BY <1>8, <3>1
    <3>3. Degree(u) >= Degree(i)
      <4>1. CASE u = i
        BY <1>6, <3>1, <4>1
      <4>2. CASE u < i
        BY <1>8, <3>1, <4>2
      <4> QED
        BY <2>1, <3>1, <4>1, <4>2
    <3>4. Degree(i) \in Nat /\ Degree(u) \in Nat /\ Degree(v) \in Nat
      BY <1>6, <2>1, <3>1
    <3>5. Degree(i) = d
      BY <1>9, <3>2, <3>3, <3>4
    <3>6. a[i] = Degree(i)
      BY <1>5, <3>1
    <3> QED
      BY <3>5, <3>6
  <2>4. Sum(a, u) \in Nat
    BY <1>7, <2>1, <2>2
  <2> HIDE DEF a, k, d
  <2>5. Sum(a, u + k) = Sum(a, u) + k * d
    BY <2>1, <2>3, <2>4, SumOfEqual
  <2>6. Sum(a, v) = Sum(a, u) + k * d
    BY <2>1, <2>5
  <2> QED
    BY <2>2, <2>6 DEF k, d
<1>10. \A u, v \in first .. end - 1 : u < v => ListBegin(u) + Degree(u) <= ListBegin(v)
  BY <1>4, <1>5, <1>7
<1>11. first \in Nat /\ end \in Nat
  BY <1>1, <1>2, <1>3
<1>12. \A v \in first .. end - 1 : Degree(v) \in Nat \ {0} /\ ListBegin(v) \in Nat
  BY <1>4, <1>6, <1>7
<1>13. /\ first \in Nat /\ end \in Nat /\ first < end
       /\ \A v \in first .. end - 1 : Degree(v) \in Nat \ {0} /\ ListBegin(v) \in Nat
       /\ \A u, v \in first .. end - 1 : u < v =>
             /\ Degree(u) >= Degree(v)
             /\ ListBegin(u) + Degree(u) <= ListBegin(v)
             /\ Degree(u) = Degree(v) => ListBegin(v) = ListBegin(u) + (v - u) * Degree(u)
  BY <1>2, <1>8, <1>9, <1>10, <1>11, <1>12
<1> QED
  BY <1>13, Zenon DEF first, end

(***************************************************************************)
(* The partitions that make lays out are such as the samplers are proved   *)
(* right for: SamplersAssumption says of a partition what this does.       *)
(***************************************************************************)
THEOREM SamplersAreServed ==
    ASSUME GroupsFit PROVE GraphSpec => []SamplersServed
<1>1. LayoutIInv /\ OrderInv => SamplersServed
  BY ServedFollows
<1> QED
  BY <1>1, LayoutInvariant, OrderInvariant, PTL
-----------------------------------------------------------------------------
(* The plan: choices of candidates                                         *)

Options == 1 .. Len(candidates[0])

\* Every group has as many candidates, and none costs less than nothing.
CandidatesInv ==
    /\ Len(candidates[0]) \in Nat
    /\ candidates \in [PlannedGroups -> [Options -> [bits : Nat, num : Nat, time : Nat]]]
    /\ \A group \in PlannedGroups : Len(candidates[group]) = Len(candidates[0])

\* The plan for one group more in which that group has candidate k.
Extended(plan, n, k) == [group \in 0 .. n |-> IF group = n THEN k ELSE plan[group]]

\* The plans of n groups that fit into p partitions, and those with a candidate before k at the end.
Fitting(n, p)  == {choice \in Plans(n) : Num(choice, n) <= p}
Tried(n, p, k) == {choice \in Fitting(n, p) : choice[n - 1] < k}

\* v is the least time that a plan of S, a set of plans of n groups, takes.
IsLeast(S, n, v) ==
    IF S = {} THEN v = Infeasible
              ELSE /\ v \in Nat
                   /\ \E plan \in S : Time(plan, n) = v
                   /\ \A plan \in S : v <= Time(plan, n)

LEMMA PlanTotals ==
    ASSUME CandidatesInv, NEW n \in 0 .. G, G \in Nat, NEW plan \in Plans(n)
    PROVE  Num(plan, n) \in Nat /\ Time(plan, n) \in Nat
<1> DEFINE a == [group \in DOMAIN plan |-> candidates[group][plan[group]].num]
           b == [group \in DOMAIN plan |-> candidates[group][plan[group]].time]
<1>1. DOMAIN plan = 0 .. n - 1 /\ n \in Nat
  BY DEF Plans
<1>2. ASSUME NEW i \in 0 .. n - 1 PROVE a[i] \in Nat /\ b[i] \in Nat
  <2>1. i \in PlannedGroups /\ plan[i] \in Options
    BY DEF PlannedGroups, Plans, Options
  <2>2. candidates[i][plan[i]] \in [bits : Nat, num : Nat, time : Nat]
    BY <2>1 DEF CandidatesInv
  <2> QED
    BY <1>1, <2>2
<1> HIDE DEF a, b
<1>3. Sum(a, n) \in Nat /\ Sum(b, n) \in Nat
  BY <1>1, <1>2, SumType
<1> QED
  BY <1>3 DEF Num, Time, a, b

LEMMA ExtendedTotals ==
    ASSUME CandidatesInv, G \in Nat, NEW n \in 0 .. G - 1, NEW plan \in Plans(n), NEW k \in Options
    PROVE  /\ Extended(plan, n, k) \in Plans(n + 1) /\ Extended(plan, n, k)[n] = k
           /\ Num(Extended(plan, n, k), n + 1) = Num(plan, n) + candidates[n][k].num
           /\ Time(Extended(plan, n, k), n + 1) = Time(plan, n) + candidates[n][k].time
<1> DEFINE x == Extended(plan, n, k)
           a == [group \in DOMAIN plan |-> candidates[group][plan[group]].num]
           b == [group \in DOMAIN plan |-> candidates[group][plan[group]].time]
           c == [group \in DOMAIN x |-> candidates[group][x[group]].num]
           d == [group \in DOMAIN x |-> candidates[group][x[group]].time]
<1>1. n \in Nat /\ DOMAIN plan = 0 .. n - 1 /\ \A i \in 0 .. n - 1 : plan[i] \in Options
  BY DEF Plans, Options
<1>2. DOMAIN x = 0 .. n /\ x[n] = k /\ \A i \in 0 .. n - 1 : x[i] = plan[i]
  BY <1>1 DEF Extended
<1>3. x \in Plans(n + 1)
  <2>1. \A i \in 0 .. n : x[i] \in Options
    <3> SUFFICES ASSUME NEW i \in 0 .. n PROVE x[i] \in Options
      OBVIOUS
    <3>1. i = n \/ i \in 0 .. n - 1
      BY <1>1
    <3> HIDE DEF x
    <3> QED
      BY <1>1, <1>2, <3>1
  <2>2. x \in [0 .. n -> Options]
    BY <2>1 DEF Extended
  <2>3. 0 .. (n + 1) - 1 = 0 .. n
    BY <1>1
  <2> HIDE DEF x
  <2> QED
    BY <2>2, <2>3 DEF Plans, Options
<1> HIDE DEF x
<1>4. c[n] = candidates[n][k].num /\ d[n] = candidates[n][k].time
  BY <1>1, <1>2
<1>5. \A i \in 0 .. n - 1 : c[i] = a[i] /\ d[i] = b[i]
  <2> SUFFICES ASSUME NEW i \in 0 .. n - 1 PROVE c[i] = a[i] /\ d[i] = b[i]
    OBVIOUS
  <2>1. i \in DOMAIN x /\ i \in DOMAIN plan /\ x[i] = plan[i]
    BY <1>1, <1>2
  <2> QED
    BY <2>1
<1> HIDE DEF a, b, c, d
<1>6. Sum(c, n + 1) = Sum(a, n) + candidates[n][k].num /\ Sum(d, n + 1) = Sum(b, n) + candidates[n][k].time
  <2>1. Sum(c, n) = Sum(a, n) /\ Sum(d, n) = Sum(b, n)
    BY <1>1, <1>5, SumSame
  <2> QED
    BY <1>1, <1>4, <2>1, SumStep
<1> QED
  BY <1>2, <1>3, <1>6 DEF Num, Time, a, b, c, d, x

\* Every plan of a group more is one of those.
LEMMA PlanIsExtended ==
    ASSUME NEW n \in Nat, NEW plan \in Plans(n + 1)
    PROVE  plan[n] \in Options /\ \E shorter \in Plans(n) : plan = Extended(shorter, n, plan[n])
<1> DEFINE shorter == [group \in 0 .. n - 1 |-> plan[group]]
<1>1. plan \in [0 .. n -> Options]
  <2>1. 0 .. (n + 1) - 1 = 0 .. n
    OBVIOUS
  <2> QED
    BY <2>1 DEF Plans, Options
<1>2. shorter \in Plans(n)
  BY <1>1 DEF Plans, Options
<1>3. plan = Extended(shorter, n, plan[n])
  <2>1. \A i \in 0 .. n : Extended(shorter, n, plan[n])[i] = plan[i]
    BY DEF Extended
  <2> QED
    BY <1>1, <2>1 DEF Extended
<1> QED
  BY <1>1, <1>2, <1>3

\* The plans that end with candidate k are those with room for it, and k.
LEMMA TriedNext ==
    ASSUME CandidatesInv, G \in Nat, NEW n \in 1 .. G, NEW p \in Columns, PartitionCap \in Nat, NEW k \in Options
    PROVE  /\ \A plan \in Tried(n, p, k) : plan \in Tried(n, p, k + 1)
           /\ \A shorter \in Fitting(n - 1, p - candidates[n - 1][k].num) :
                 /\ Extended(shorter, n - 1, k) \in Tried(n, p, k + 1)
                 /\ Time(Extended(shorter, n - 1, k), n) = Time(shorter, n - 1) + candidates[n - 1][k].time
           /\ \A plan \in Tried(n, p, k + 1) :
                 \/ plan \in Tried(n, p, k)
                 \/ \E shorter \in Fitting(n - 1, p - candidates[n - 1][k].num) :
                       plan = Extended(shorter, n - 1, k)
<1> DEFINE num == candidates[n - 1][k].num
<1>1. n - 1 \in 0 .. G - 1 /\ n - 1 \in 0 .. G /\ n - 1 \in Nat /\ (n - 1) + 1 = n /\ p \in Nat
  BY DEF Columns
<1>2. num \in Nat
  <2>1. n - 1 \in PlannedGroups
    BY <1>1 DEF PlannedGroups
  <2> QED
    BY <2>1 DEF CandidatesInv
<1>3. k \in Nat /\ \A plan \in Plans(n) : plan[n - 1] \in Nat
  <2>1. \A plan \in Plans((n - 1) + 1) : plan[n - 1] \in Options
    BY <1>1, PlanIsExtended
  <2> QED
    BY <1>1, <2>1 DEF Options
<1>4. \A plan \in Tried(n, p, k) : plan \in Tried(n, p, k + 1)
  BY <1>3 DEF Tried, Fitting
<1>5. ASSUME NEW shorter \in Fitting(n - 1, p - num)
      PROVE  /\ Extended(shorter, n - 1, k) \in Tried(n, p, k + 1)
             /\ Time(Extended(shorter, n - 1, k), n) = Time(shorter, n - 1) + candidates[n - 1][k].time
  <2>1. shorter \in Plans(n - 1) /\ Num(shorter, n - 1) <= p - num
    BY DEF Fitting
  <2>2. Num(shorter, n - 1) \in Nat
    BY <1>1, <2>1, PlanTotals
  <2>3. /\ Extended(shorter, n - 1, k) \in Plans(n) /\ Extended(shorter, n - 1, k)[n - 1] = k
        /\ Num(Extended(shorter, n - 1, k), n) = Num(shorter, n - 1) + num
        /\ Time(Extended(shorter, n - 1, k), n) = Time(shorter, n - 1) + candidates[n - 1][k].time
    <3>1. /\ Extended(shorter, n - 1, k) \in Plans((n - 1) + 1) /\ Extended(shorter, n - 1, k)[n - 1] = k
          /\ Num(Extended(shorter, n - 1, k), (n - 1) + 1) = Num(shorter, n - 1) + num
          /\ Time(Extended(shorter, n - 1, k), (n - 1) + 1)
                = Time(shorter, n - 1) + candidates[n - 1][k].time
      BY <1>1, <2>1, ExtendedTotals
    <3> QED
      BY <1>1, <3>1
  <2>4. Num(shorter, n - 1) + num <= p /\ k < k + 1
    BY <1>1, <1>2, <1>3, <2>1, <2>2
  <2> QED
    BY <2>3, <2>4 DEF Tried, Fitting
<1>6. ASSUME NEW plan \in Tried(n, p, k + 1), plan \notin Tried(n, p, k)
      PROVE  \E shorter \in Fitting(n - 1, p - num) : plan = Extended(shorter, n - 1, k)
  <2>1. plan \in Plans(n) /\ Num(plan, n) <= p /\ plan[n - 1] = k
    BY <1>3, <1>6 DEF Tried, Fitting
  <2>2. PICK shorter \in Plans(n - 1) : plan = Extended(shorter, n - 1, k)
    <3>1. plan \in Plans((n - 1) + 1)
      BY <1>1, <2>1
    <3>2. \E shorter \in Plans(n - 1) : plan = Extended(shorter, n - 1, plan[n - 1])
      BY <1>1, <3>1, PlanIsExtended
    <3> QED
      BY <2>1, <3>2
  <2>3. Num(plan, n) = Num(shorter, n - 1) + num /\ Num(shorter, n - 1) \in Nat
    <3>1. Num(plan, (n - 1) + 1) = Num(shorter, n - 1) + num
      BY <1>1, <2>2, ExtendedTotals
    <3>2. Num(shorter, n - 1) \in Nat
      BY <1>1, PlanTotals
    <3> QED
      BY <1>1, <3>1, <3>2
  <2>4. Num(shorter, n - 1) <= p - num
    BY <1>1, <1>2, <2>1, <2>3
  <2> QED
    BY <2>2, <2>4 DEF Fitting
<1> QED
  BY <1>4, <1>5, <1>6
\* What trying candidate k makes of a column: the least time of the plans tried so far.
LEMMA TryKeepsLeast ==
    ASSUME CandidatesInv, G \in Nat, NEW n \in 1 .. G, PartitionCap \in Nat, NEW p \in Columns, NEW k \in Options,
           NEW v, IsLeast(Tried(n, p, k), n, v),
           NEW b, p >= candidates[n - 1][k].num =>
                      IsLeast(Fitting(n - 1, p - candidates[n - 1][k].num), n - 1, b)
    PROVE  IsLeast(Tried(n, p, k + 1), n,
                   IF /\ p >= candidates[n - 1][k].num /\ b # Infeasible
                      /\ (v = Infeasible \/ v > b + candidates[n - 1][k].time)
                   THEN b + candidates[n - 1][k].time ELSE v)
<1> DEFINE num == candidates[n - 1][k].num
           time == candidates[n - 1][k].time
           spared == Fitting(n - 1, p - num)
           old == Tried(n, p, k)
           new == Tried(n, p, k + 1)
           longer(q) == Extended(q, n - 1, k)
           T(plan) == Time(plan, n)
           S(q) == Time(q, n - 1)
<1>1. num \in Nat /\ time \in Nat /\ p \in Nat /\ n - 1 \in 0 .. G
  <2>1. n - 1 \in PlannedGroups
    BY DEF PlannedGroups
  <2> QED
    BY <2>1 DEF CandidatesInv, Columns
<1>2. /\ \A plan \in old : plan \in new
      /\ \A q \in spared : longer(q) \in new /\ T(longer(q)) = S(q) + time
      /\ \A plan \in new : plan \in old \/ \E q \in spared : plan = longer(q)
  BY TriedNext
<1>3. \A q \in spared : Num(q, n - 1) \in Nat /\ Num(q, n - 1) <= p - num /\ S(q) \in Nat
  BY <1>1, PlanTotals DEF Fitting
<1>4. \A plan \in new : T(plan) \in Nat
  <2>1. \A plan \in new : plan \in Plans(n)
    BY DEF Tried, Fitting
  <2>2. n \in 0 .. G
    OBVIOUS
  <2> QED
    BY <2>1, <2>2, PlanTotals
<1>5. spared # {} => p >= num
  BY <1>1, <1>3
<1>6. IF old = {} THEN v = Infeasible
                  ELSE v \in Nat /\ (\E plan \in old : T(plan) = v) /\ \A plan \in old : v <= T(plan)
  BY DEF IsLeast
<1>7. p >= num => IF spared = {} THEN b = Infeasible
                  ELSE b \in Nat /\ (\E q \in spared : S(q) = b) /\ \A q \in spared : b <= S(q)
  BY DEF IsLeast
<1>8. /\ \A plan : IsLeast(new, n, plan) <=>
            IF new = {} THEN plan = Infeasible
                        ELSE plan \in Nat /\ (\E x \in new : T(x) = plan) /\ \A x \in new : plan <= T(x)
  BY DEF IsLeast
<1>9. v \in Nat \cup {Infeasible} /\ Infeasible = -1
  BY <1>6 DEF Infeasible
<1> HIDE DEF num, time, spared, old, new, longer, T, S
<1>10. CASE spared = {}
  <2>1. ~(p >= num /\ b # Infeasible)
    BY <1>7, <1>10
  <2>2. \A plan \in new : plan \in old
    BY <1>2, <1>10
  <2>3. IsLeast(new, n, v)
    <3>1. CASE old = {}
      <4>1. new = {}
        BY <2>2, <3>1
      <4> QED
        BY <1>6, <1>8, <3>1, <4>1
    <3>2. CASE old # {}
      <4>1. new # {} /\ v \in Nat /\ (\E plan \in new : T(plan) = v) /\ \A plan \in new : v <= T(plan)
        BY <1>2, <1>6, <2>2, <3>2
      <4> QED
        BY <1>8, <4>1
    <3> QED
      BY <3>1, <3>2
  <2> QED
    BY <2>1, <2>3 DEF num, time, new
<1>11. CASE spared # {}
  <2>1. p >= num /\ b \in Nat /\ b # Infeasible /\ (\E q \in spared : S(q) = b) /\ \A q \in spared : b <= S(q)
    BY <1>5, <1>7, <1>9, <1>11
  <2>2. PICK q \in spared : S(q) = b
    BY <2>1
  <2>3. longer(q) \in new /\ T(longer(q)) = b + time
    BY <1>2, <2>2
  <2>4. CASE v = Infeasible \/ v > b + time
    <3>1. b + time \in Nat
      BY <1>1, <2>1
    <3>2. ASSUME NEW x \in new PROVE b + time <= T(x)
      <4>1. CASE x \in old
        <5>1. v \in Nat /\ v <= T(x)
          BY <1>6, <4>1
        <5> QED
          BY <1>4, <1>9, <2>4, <3>1, <3>2, <5>1
      <4>2. CASE \E y \in spared : x = longer(y)
        <5>1. PICK y \in spared : x = longer(y)
          BY <4>2
        <5>2. T(x) = S(y) + time /\ b <= S(y) /\ S(y) \in Nat
          BY <1>2, <1>3, <2>1, <5>1
        <5> QED
          BY <1>1, <2>1, <5>2
      <4> QED
        BY <1>2, <3>2, <4>1, <4>2
    <3>3. IsLeast(new, n, b + time)
      BY <1>8, <2>3, <3>1, <3>2
    <3> QED
      BY <2>1, <2>4, <3>3 DEF num, time, new
  <2>5. CASE ~(v = Infeasible \/ v > b + time)
    <3>1. v \in Nat /\ v <= b + time /\ old # {}
      BY <1>1, <1>6, <1>9, <2>1, <2>5
    <3>2. ASSUME NEW x \in new PROVE v <= T(x)
      <4>1. CASE x \in old
        BY <1>6, <3>1, <4>1
      <4>2. CASE \E y \in spared : x = longer(y)
        <5>1. PICK y \in spared : x = longer(y)
          BY <4>2
        <5>2. T(x) = S(y) + time /\ b <= S(y) /\ S(y) \in Nat
          BY <1>2, <1>3, <2>1, <5>1
        <5> QED
          BY <1>1, <2>1, <3>1, <5>2
      <4> QED
        BY <1>2, <3>2, <4>1, <4>2
    <3>3. \E x \in new : T(x) = v
      BY <1>2, <1>6, <3>1
    <3>4. IsLeast(new, n, v)
      BY <1>8, <2>3, <3>1, <3>2, <3>3
    <3> QED
      BY <2>5, <3>4 DEF num, time, new
  <2> QED
    BY <2>4, <2>5
<1> QED
  BY <1>10, <1>11

\* There are no plans of a row before its first candidate, and all of them behind its last.
LEMMA TriedEnds ==
    ASSUME CandidatesInv, NEW n \in Nat \ {0}, NEW p
    PROVE  /\ Tried(n, p, 1) = {}
           /\ Tried(n, p, Len(candidates[0]) + 1) = Fitting(n, p)
<1>1. \A plan \in Fitting(n, p) : plan[n - 1] \in Options
  <2>1. n - 1 \in Nat /\ (n - 1) + 1 = n
    OBVIOUS
  <2>2. \A plan \in Plans((n - 1) + 1) : plan[n - 1] \in Options
    BY <2>1, PlanIsExtended
  <2> QED
    BY <2>1, <2>2 DEF Fitting
<1>2. \A k \in Options : k \in Nat /\ ~(k < 1) /\ k < Len(candidates[0]) + 1
  BY DEF Options, CandidatesInv
<1> QED
  BY <1>1, <1>2 DEF Tried

\* A plan that fits into p partitions fits into more.
LEMMA FittingGrows ==
    ASSUME CandidatesInv, G \in Nat, NEW n \in 0 .. G, NEW p \in Int, NEW q \in Int, p <= q,
           NEW v, NEW w, IsLeast(Fitting(n, p), n, v), IsLeast(Fitting(n, q), n, w), v # Infeasible
    PROVE  w # Infeasible
<1>1. PICK plan \in Fitting(n, p) : TRUE
  BY DEF IsLeast
<1>2. plan \in Fitting(n, q)
  BY <1>1, PlanTotals DEF Fitting
<1>3. w \in Nat
  BY <1>2 DEF IsLeast
<1> QED
  BY <1>3 DEF Infeasible

\* The only plan for no group takes no time and no partition.
LEMMA NoGroup ==
    ASSUME NEW p \in Nat
    PROVE  IsLeast(Fitting(0, p), 0, 0)
<1>1. \A plan : Num(plan, 0) = 0 /\ Time(plan, 0) = 0
  BY SumStep DEF Num, Time
<1>2. [i \in 0 .. 0 - 1 |-> i] \in Plans(0)
  <2>1. 0 .. 0 - 1 = {}
    OBVIOUS
  <2> QED
    BY <2>1 DEF Plans
<1>3. [i \in 0 .. 0 - 1 |-> i] \in Fitting(0, p)
  BY <1>1, <1>2 DEF Fitting
<1> QED
  BY <1>1, <1>3 DEF IsLeast

\* The least time is what trying everything finds.
LEMMA LeastIsBest ==
    ASSUME CandidatesInv, G \in Nat, NEW n \in 0 .. G, NEW p, NEW v, IsLeast(Fitting(n, p), n, v)
    PROVE  v = Best(n, p)
<1> DEFINE times == {Time(plan, n) : plan \in Fitting(n, p)}
<1>1. Best(n, p) = IF times = {} THEN Infeasible ELSE Min(times)
  BY DEF Best, Fitting
<1>2. CASE Fitting(n, p) = {}
  BY <1>1, <1>2 DEF IsLeast
<1>3. CASE Fitting(n, p) # {}
  <2>1. v \in times /\ \A t \in times : v <= t
    BY <1>3 DEF IsLeast
  <2>2. times \in SUBSET Nat
    BY PlanTotals DEF Fitting
  <2> HIDE DEF times
  <2>3. Min(times) \in times /\ \A t \in times : Min(times) <= t
    <3>1. \E x \in times : \A y \in times : x <= y
      BY <2>1
    <3>2. Min(times) = CHOOSE x \in times : \A y \in times : x <= y
      BY DEF Min
    <3> QED
      BY <3>1, <3>2
  <2>4. v \in Nat /\ Min(times) \in Nat /\ v <= Min(times) /\ Min(times) <= v
    BY <2>1, <2>2, <2>3
  <2>5. v = Min(times)
    BY <2>4
  <2> QED
    BY <1>1, <2>1, <2>5
<1> QED
  BY <1>2, <1>3
-----------------------------------------------------------------------------
(* The plan: the inductive invariant                                       *)

EmptyEntry == [val |-> Infeasible, candidate |-> Null, previous |-> Null]

\* An entry of row n extends the one it points to by its candidate.
EntryOK(n, p) ==
    LET e == f[n][p]
        k == e.candidate
    IN
    IF e.val = Infeasible THEN e = EmptyEntry
    ELSE /\ k \in Options /\ e.previous \in Columns
         /\ e.previous = p - candidates[n - 1][k].num
         /\ f[n - 1][e.previous].val # Infeasible
         /\ e.val = f[n - 1][e.previous].val + candidates[n - 1][k].time

RowsEnded == stage \in {"read", "done", "failed"}

TableInv ==
    /\ f \in [0 .. G -> [Columns -> EntryType]]
    /\ \A p \in Columns : f[0][p].val = 0
    /\ \A n \in 1 .. G : \A p \in Columns : EntryOK(n, p)

\* The rows that are done hold the best times, the one at work those of what was tried.
RowsInv ==
    /\ \A n \in 0 .. G : n < g_i \/ RowsEnded =>
          \A p \in Columns : IsLeast(Fitting(n, p), n, f[n][p].val)
    /\ stage \in {"rows", "carry"} =>
          /\ g_i \in 1 .. G
          /\ \A n \in g_i + 1 .. G : \A p \in Columns : f[n][p].val = Infeasible
    /\ stage = "rows" =>
          /\ idx \in 1 .. Len(candidates[0]) + 1
          /\ \A p \in Columns : IsLeast(Tried(g_i, p, idx), g_i, f[g_i][p].val)
    /\ stage = "carry" => \A p \in Columns : IsLeast(Fitting(g_i, p), g_i, f[g_i][p].val)

\* The partitions of the groups that were read back are m, and their times add up to t.
NumRead(m) ==
    \E rest \in [0 .. G -> Nat] :
        /\ rest[G] = 0 /\ rest[g_i] = m
        /\ \A i \in g_i .. G - 1 : rest[i] = rest[i + 1] + candidates[i][results[i]].num
TimeRead(t) ==
    \E rest \in [0 .. G -> Nat] :
        /\ rest[G] = 0 /\ rest[g_i] = t
        /\ \A i \in g_i .. G - 1 : rest[i] = rest[i + 1] + candidates[i][results[i]].time

\* What was read back and what the entry to read next stands for make up the best plan.
ReadInv ==
    LET best == f[G][PartitionCap].val IN
    RowsEnded =>
        /\ g_i \in 0 .. G
        /\ at # Null =>
              /\ \A i \in g_i .. G - 1 : results[i] \in Options
              /\ NumRead(PartitionCap - at)
              /\ best # Infeasible =>
                    f[g_i][at].val # Infeasible /\ TimeRead(best - f[g_i][at].val)
              /\ best = Infeasible => g_i = G
        /\ at = Null => best = Infeasible /\ g_i = G - 1
        /\ stage = "done" => g_i = 0
        /\ stage = "failed" => at = Null

PlanIInv ==
    /\ stage \in {"rows", "carry", "read", "done", "failed"}
    /\ idx \in Nat
    /\ at \in Columns \cup {Null}
    /\ results \in [PlannedGroups -> Nat \cup {Null}]
    /\ CandidatesInv
    /\ TableInv
    /\ RowsInv
    /\ ReadInv
-----------------------------------------------------------------------------
(* The plan: the steps                                                     *)

LEMMA GroupsPlanned ==
    /\ G \in Nat /\ G > 1 /\ 0 \in PlannedGroups
    /\ PartitionCap \in Nat \ {0} /\ PartitionCap \in Columns /\ 0 \in Columns
    /\ Infeasible = -1 /\ Null = -1
<1>1. G \in Nat
  BY PlanAssumption, GroupBitsType, CeilDivIs DEF G, GroupNum
<1>2. G > 1
  BY PlanAssumption DEF G
<1> HIDE DEF G
<1> QED
  BY <1>1, <1>2, PlanAssumption DEF PlannedGroups, Columns, Infeasible, Null

\* The candidates of an initial state.
LEMMA CandidatesInit == ASSUME WholeGroupsFit(VertexNum), PlanInit PROVE CandidatesInv
<1>1. PICK least \in PartitionBits(VertexNum) \cup {MostBits + 1},
           time \in [PlannedGroups -> [PartitionBits(VertexNum) -> Times]] :
           candidates = [group \in PlannedGroups |-> CandidatesOf(group, least, time)]
  BY DEF PlanInit
<1> DEFINE n == MostBits + 1 - least
           C == [bits : Nat, num : Nat, time : Nat]
<1>2. /\ MostBits \in Nat /\ Least(MinPartitionBits, GroupBits(VertexNum)) \in Nat
      /\ Least(MinPartitionBits, GroupBits(VertexNum)) <= MostBits
      /\ PartitionBits(VertexNum) = Least(MinPartitionBits, GroupBits(VertexNum)) .. MostBits
  <2>1. GroupBits(VertexNum) \in Nat
    BY PlanAssumption, GroupBitsType
  <2> QED
    BY <2>1, GroupsAssumption DEF MostBits, PartitionBits, Least
<1>3. least \in Nat /\ least >= Least(MinPartitionBits, GroupBits(VertexNum)) /\ least <= MostBits + 1
  BY <1>1, <1>2
<1>4. n \in Nat
  BY <1>2, <1>3
<1>5. ASSUME NEW group \in PlannedGroups, NEW i \in 1 .. n
      PROVE  CandidatesOf(group, least, time)[i] \in C
  <2> DEFINE b == least + i - 1
  <2>1. b \in PartitionBits(VertexNum) /\ b \in Nat
    BY <1>2, <1>3
  <2>2. group \in 0 .. GroupNum(VertexNum) - 1
    BY DEF PlannedGroups, G
  <2> HIDE DEF b
  <2>3. PartitionsOf(VertexNum, group, b) \in Nat
    BY <2>1, <2>2, PlanAssumption, PartitionsOfGroup
  <2>4. time[group][b] \in Nat
    BY <2>1, PlanAssumption
  <2>5. CandidatesOf(group, least, time)[i]
           = [bits |-> b, num |-> PartitionsOf(VertexNum, group, b), time |-> time[group][b]]
    BY DEF CandidatesOf, b
  <2> QED
    BY <2>1, <2>3, <2>4, <2>5
<1>6. ASSUME NEW group \in PlannedGroups
      PROVE  candidates[group] \in [1 .. n -> C] /\ Len(candidates[group]) = n
  <2>1. candidates[group] = CandidatesOf(group, least, time)
    BY <1>1
  <2>2. CandidatesOf(group, least, time) \in [1 .. n -> C]
    BY <1>5 DEF CandidatesOf
  <2> HIDE DEF n, C
  <2> QED
    BY <1>4, <2>1, <2>2, FunctionIsSeq
<1> HIDE DEF n, C
<1>7. Len(candidates[0]) = n /\ Options = 1 .. n
  BY <1>6, GroupsPlanned DEF Options
<1>8. candidates \in [PlannedGroups -> [Options -> C]]
  BY <1>1, <1>6, <1>7
<1> QED
  BY <1>4, <1>6, <1>7, <1>8 DEF CandidatesInv, C

LEMMA PlanIInvInit == ASSUME WholeGroupsFit(VertexNum), PlanInit PROVE PlanIInv
<1>1. CandidatesInv
  BY CandidatesInit
<1>2. /\ stage = "rows" /\ g_i = 1 /\ idx = 1 /\ at = Null
      /\ f = [row \in 0 .. G |-> [p \in Columns |->
                [val |-> IF row = 0 THEN 0 ELSE Infeasible, candidate |-> Null, previous |-> Null]]]
      /\ results = [group \in PlannedGroups |-> Null]
  BY DEF PlanInit
<1>3. \A n \in 0 .. G : \A p \in Columns :
         f[n][p] = [val |-> IF n = 0 THEN 0 ELSE Infeasible, candidate |-> Null, previous |-> Null]
  BY <1>2
<1>4. f \in [0 .. G -> [Columns -> EntryType]]
  BY <1>2 DEF EntryType
<1>5. \A p \in Columns : f[0][p].val = 0
  <2>1. 0 \in 0 .. G
    BY GroupsPlanned
  <2>2. \A p \in Columns : f[0][p] = [val |-> 0, candidate |-> Null, previous |-> Null]
    BY <1>3, <2>1
  <2> QED
    BY <2>2
<1>6. \A n \in 1 .. G : \A p \in Columns : f[n][p] = EmptyEntry
  BY <1>3 DEF EmptyEntry
<1>7. TableInv
  <2>1. \A n \in 1 .. G : \A p \in Columns : EntryOK(n, p)
    <3>1. EmptyEntry.val = Infeasible
      BY DEF EmptyEntry
    <3> QED
      BY <1>6, <3>1 DEF EntryOK
  <2> QED
    BY <1>4, <1>5, <2>1, Zenon DEF TableInv
<1>8. RowsInv
  <2>1. \A p \in Columns : IsLeast(Fitting(0, p), 0, f[0][p].val)
    BY <1>5, NoGroup, GroupsPlanned DEF Columns
  <2>2. \A n \in 0 .. G : n < g_i => n = 0
    BY <1>2, GroupsPlanned
  <2>3. \A p \in Columns : IsLeast(Tried(1, p, 1), 1, f[1][p].val)
    <3> SUFFICES ASSUME NEW p \in Columns PROVE IsLeast(Tried(1, p, 1), 1, f[1][p].val)
      OBVIOUS
    <3>1. Tried(1, p, 1) = {}
      BY <1>1, TriedEnds
    <3>2. f[1][p].val = Infeasible
      BY <1>6, GroupsPlanned DEF EmptyEntry
    <3> QED
      BY <3>1, <3>2 DEF IsLeast
  <2>4. \A n \in g_i + 1 .. G : \A p \in Columns : f[n][p].val = Infeasible
    BY <1>2, <1>6 DEF EmptyEntry
  <2>5. g_i \in 1 .. G /\ idx \in 1 .. Len(candidates[0]) + 1
    BY <1>1, <1>2, GroupsPlanned DEF CandidatesInv
  <2> QED
    BY <1>2, <2>1, <2>2, <2>3, <2>4, <2>5 DEF RowsInv, RowsEnded
<1>9. ReadInv
  BY <1>2 DEF ReadInv, RowsEnded
<1> QED
  BY <1>1, <1>2, <1>7, <1>8, <1>9 DEF PlanIInv

\* What is said of plans depends on the candidates alone.
LEMMA PlansKept ==
    ASSUME candidates' = candidates
    PROVE  /\ Options' = Options
           /\ \A n, p : Fitting(n, p)' = Fitting(n, p)
           /\ \A n, p, k : Tried(n, p, k)' = Tried(n, p, k)
           /\ \A S, n, v : IsLeast(S, n, v)' <=> IsLeast(S, n, v)
           /\ CandidatesInv' <=> CandidatesInv
<1>1. Options' = Options
  BY DEF Options
<1>2. \A plan, n : Num(plan, n)' = Num(plan, n) /\ Time(plan, n)' = Time(plan, n)
  BY DEF Num, Time
<1>3. \A n : Plans(n)' = Plans(n)
  BY DEF Plans
<1>4. \A n, p : Fitting(n, p)' = Fitting(n, p)
  BY <1>2, <1>3 DEF Fitting
<1>5. \A n, p, k : Tried(n, p, k)' = Tried(n, p, k)
  BY <1>4 DEF Tried
<1>6. \A S, n, v : IsLeast(S, n, v)' <=> IsLeast(S, n, v)
  BY <1>2 DEF IsLeast
<1>7. CandidatesInv' <=> CandidatesInv
  BY <1>1 DEF CandidatesInv
<1> QED
  BY <1>1, <1>4, <1>5, <1>6, <1>7

LEMMA TryCandidateStep == ASSUME PlanIInv, TryCandidate PROVE PlanIInv'
<1> USE DEF PlanIInv
<1> DEFINE n == g_i
           k == idx
           num == candidates[n - 1][k].num
           time == candidates[n - 1][k].time
           above(p) == f[n - 1][p - num]
           better(p) == /\ p >= num /\ above(p).val # Infeasible
                        /\ (f[n][p].val = Infeasible \/ f[n][p].val > above(p).val + time)
           entry(p) == IF better(p) THEN [val |-> above(p).val + time, candidate |-> k, previous |-> p - num]
                                    ELSE f[n][p]
<1>1. /\ stage = "rows" /\ stage' = "rows" /\ idx <= Len(candidates[n - 1]) /\ idx' = idx + 1
      /\ g_i' = g_i /\ candidates' = candidates /\ at' = at /\ results' = results
  BY DEF TryCandidate
<1>2. f' = [f EXCEPT ![n] = [p \in Columns |->
              IF p >= num THEN Improved(f[n][p], above(p), k, p - num) ELSE f[n][p]]]
  BY DEF TryCandidate, Above
<1>3. /\ n \in 1 .. G /\ n - 1 \in 0 .. G /\ n - 1 \in 0 .. G - 1 /\ n \in 0 .. G /\ n - 1 < n /\ n \in Nat \ {0}
      /\ G \in Nat /\ PartitionCap \in Nat
  <2>1. n \in 1 .. G /\ G \in Nat /\ PartitionCap \in Nat
    BY <1>1, GroupsPlanned DEF RowsInv
  <2> HIDE DEF n
  <2> QED
    BY <2>1
<1>4. k \in Options /\ k \in Nat /\ k + 1 \in 1 .. Len(candidates[0]) + 1 /\ num \in Nat /\ time \in Nat
  <2>1. n - 1 \in PlannedGroups
    BY <1>3 DEF PlannedGroups
  <2>2. Len(candidates[n - 1]) = Len(candidates[0]) /\ Len(candidates[0]) \in Nat
    BY <2>1 DEF CandidatesInv
  <2>3. k \in 1 .. Len(candidates[0]) + 1
    BY <1>1 DEF RowsInv
  <2>4. k \in Options
    BY <1>1, <2>2, <2>3 DEF Options
  <2>5. candidates[n - 1][k] \in [bits : Nat, num : Nat, time : Nat]
    BY <2>1, <2>4 DEF CandidatesInv
  <2> QED
    BY <1>1, <2>2, <2>3, <2>4, <2>5
<1>5. f \in [0 .. G -> [Columns -> EntryType]]
  BY DEF TableInv
<1> HIDE DEF n, k, num, time
<1>6. /\ \A m \in 0 .. G : m # n => f'[m] = f[m]
      /\ \A p \in Columns : f'[n][p] = entry(p)
      /\ f' = [f EXCEPT ![n] = [p \in Columns |-> entry(p)]]
  <2>1. \A p \in Columns : entry(p) = IF p >= num THEN Improved(f[n][p], above(p), k, p - num) ELSE f[n][p]
    BY DEF Improved, n, k, time
  <2> HIDE DEF entry
  <2>2. [p \in Columns |-> IF p >= num THEN Improved(f[n][p], above(p), k, p - num) ELSE f[n][p]]
           = [p \in Columns |-> entry(p)]
    BY <2>1
  <2>3. f' = [f EXCEPT ![n] = [p \in Columns |-> entry(p)]]
    BY <1>2, <2>2
  <2> QED
    BY <1>3, <1>5, <2>3
<1>7. \A p \in Columns : p \in Nat /\ (p >= num => p - num \in Columns)
  BY <1>3, <1>4 DEF Columns
<1>8. ASSUME NEW p \in Columns
      PROVE  /\ f[n][p] \in EntryType
             /\ p >= num => above(p) \in EntryType
             /\ entry(p) \in EntryType
  <2>1. f[n][p] \in EntryType
    BY <1>3, <1>5
  <2>2. p >= num => above(p) \in EntryType
    BY <1>3, <1>5, <1>7
  <2>3. ASSUME better(p) PROVE entry(p) \in EntryType
    <3>1. above(p).val \in Nat /\ p - num \in Columns
      BY <1>7, <2>2, <2>3 DEF EntryType
    <3>2. above(p).val + time \in Nat
      BY <1>4, <3>1
    <3> HIDE DEF above
    <3> QED
      BY <1>4, <2>3, <3>1, <3>2 DEF EntryType
  <2> QED
    BY <2>1, <2>2, <2>3
<1>9. ASSUME NEW p \in Columns
      PROVE  IsLeast(Tried(n, p, k + 1), n, entry(p).val)
  <2>1. IsLeast(Tried(n, p, k), n, f[n][p].val)
    BY <1>1 DEF RowsInv, n, k
  <2>2. p >= num => IsLeast(Fitting(n - 1, p - num), n - 1, above(p).val)
    BY <1>3, <1>7 DEF RowsInv, n
  <2>3. IsLeast(Tried(n, p, k + 1), n, IF better(p) THEN above(p).val + time ELSE f[n][p].val)
    <3> HIDE DEF above
    <3> QED
      BY <1>3, <1>4, <2>1, <2>2, TryKeepsLeast DEF num, time
  <2>4. entry(p).val = IF better(p) THEN above(p).val + time ELSE f[n][p].val
    OBVIOUS
  <2> QED
    BY <2>3, <2>4
<1>10. ASSUME NEW p \in Columns PROVE EntryOK(n, p)'
  <2>1. f'[n][p] = entry(p) /\ \A q \in Columns : f'[n - 1][q] = f[n - 1][q]
    BY <1>3, <1>6
  <2>2. CASE better(p)
    <3>1. entry(p).val # Infeasible /\ above(p).val # Infeasible
      <4>1. above(p).val \in Nat /\ time \in Nat
        BY <1>4, <1>8, <2>2 DEF EntryType
      <4>2. entry(p).val = above(p).val + time
        BY <2>2
      <4> HIDE DEF above, entry
      <4>3. above(p).val + time # -1
        BY <4>1
      <4> QED
        BY <2>2, <4>1, <4>2, <4>3 DEF Infeasible
    <3>2. /\ entry(p).candidate = k /\ entry(p).previous = p - num /\ p - num \in Columns
          /\ entry(p).val = above(p).val + time
      BY <1>7, <2>2
    <3>3. f'[n - 1][p - num] = above(p)
      BY <2>1, <3>2
    <3>4. Options' = Options /\ k \in Options
      BY <1>1, <1>4, PlansKept
    <3> HIDE DEF entry, above
    <3>5. n' = n /\ candidates' = candidates
      BY <1>1 DEF n
    <3> QED
      BY <2>1, <3>1, <3>2, <3>3, <3>4, <3>5 DEF EntryOK, num, time
  <2>3. CASE ~better(p)
    <3>1. f'[n][p] = f[n][p]
      BY <2>1, <2>3
    <3>2. EntryOK(n, p)
      BY <1>3 DEF TableInv
    <3>3. Options' = Options /\ n' = n /\ candidates' = candidates
      BY <1>1, PlansKept DEF n
    <3>4. EmptyEntry' = EmptyEntry
      BY DEF EmptyEntry
    <3> QED
      BY <2>1, <3>1, <3>2, <3>3, <3>4 DEF EntryOK
  <2> QED
    BY <2>2, <2>3
<1>11. ASSUME NEW m \in 1 .. G, NEW p \in Columns PROVE EntryOK(m, p)'
  <2>1. CASE m = n
    BY <1>1, <1>10, <2>1 DEF n
  <2>2. CASE m # n
    <3>1. m \in 0 .. G /\ f'[m] = f[m] /\ EntryOK(m, p)
      BY <1>3, <1>6, <2>2 DEF TableInv
    <3>2. Options' = Options /\ candidates' = candidates
      BY <1>1, PlansKept
    <3>3. CASE m = n + 1
      <4>1. f[m][p].val = Infeasible
        <5>1. \A x \in g_i + 1 .. G : \A q \in Columns : f[x][q].val = Infeasible
          BY <1>1, <1>3 DEF RowsInv
        <5>2. m \in g_i + 1 .. G
          BY <1>1, <1>3, <3>3 DEF n
        <5> QED
          BY <5>1, <5>2
      <4> QED
        BY <3>1, <4>1 DEF EntryOK
    <3>4. CASE m # n + 1
      <4>1. m - 1 \in 0 .. G /\ m - 1 # n
        BY <1>3, <3>4
      <4>2. f'[m - 1] = f[m - 1]
        BY <1>6, <4>1
      <4> QED
        BY <3>1, <3>2, <4>2 DEF EntryOK
    <3> QED
      BY <3>3, <3>4
  <2> QED
    BY <2>1, <2>2
<1>12. TableInv'
  <2>1. f' \in [0 .. G -> [Columns -> EntryType]]
    <3>1. [p \in Columns |-> entry(p)] \in [Columns -> EntryType]
      BY <1>8
    <3> HIDE DEF entry
    <3> QED
      BY <1>5, <1>6, <3>1
  <2>2. \A p \in Columns : f'[0][p].val = 0
    <3>1. 0 \in 0 .. G /\ 0 # n
      BY <1>3
    <3> QED
      BY <1>6, <3>1 DEF TableInv
  <2> QED
    BY <1>11, <2>1, <2>2 DEF TableInv
<1>13. RowsInv'
  <2>1. ASSUME NEW m \in 0 .. G, m < n, NEW p \in Columns
        PROVE  IsLeast(Fitting(m, p), m, f[m][p].val)'
    <3>1. IsLeast(Fitting(m, p), m, f[m][p].val) /\ f'[m] = f[m]
      BY <1>3, <1>6, <2>1 DEF RowsInv, n
    <3>2. PICK S, v : S = Fitting(m, p) /\ v = f[m][p].val /\ IsLeast(S, m, v)
      BY <3>1
    <3>3. IsLeast(S, m, v)' /\ Fitting(m, p)' = S
      BY <1>1, <3>2, PlansKept
    <3> QED
      BY <3>1, <3>2, <3>3
  <2>2. ASSUME NEW p \in Columns PROVE IsLeast(Tried(g_i, p, idx), g_i, f[g_i][p].val)'
    <3>1. PICK S, m, v, x : m = n /\ x = k + 1 /\ S = Tried(m, p, x) /\ v = entry(p).val /\ IsLeast(S, m, v)
      BY <1>9
    <3>2. IsLeast(S, m, v)' /\ Tried(m, p, x)' = S
      BY <1>1, <3>1, PlansKept
    <3>3. g_i' = m /\ idx' = x /\ f'[m][p].val = v
      BY <1>1, <1>6, <3>1 DEF n, k
    <3> HIDE DEF entry
    <3> QED
      BY <3>2, <3>3
  <2>3. ASSUME NEW m \in n + 1 .. G, NEW p \in Columns PROVE f'[m][p].val = Infeasible
    <3>1. m \in 0 .. G /\ m # n
      BY <1>3
    <3> QED
      BY <1>1, <1>6, <3>1 DEF RowsInv, n
  <2>4. idx' \in 1 .. Len(candidates'[0]) + 1
    BY <1>1, <1>4 DEF k
  <2>5. n' = n
    BY <1>1 DEF n
  <2> QED
    BY <1>1, <1>3, <2>1, <2>2, <2>3, <2>4 DEF RowsInv, RowsEnded, n
<1>14. ReadInv'
  BY <1>1 DEF ReadInv, RowsEnded
<1>15. CandidatesInv' /\ idx' \in Nat
  BY <1>1, PlansKept
<1> QED
  BY <1>1, <1>12, <1>13, <1>14, <1>15

\* A row that is done stays so, and so does the table.
LEMMA LeastKept ==
    ASSUME candidates' = candidates
    PROVE  /\ \A m, p, v : IsLeast(Fitting(m, p), m, v) => IsLeast(Fitting(m, p), m, v)'
           /\ TableInv /\ f' = f => TableInv'
<1>1. ASSUME NEW m, NEW p, NEW v, IsLeast(Fitting(m, p), m, v) PROVE IsLeast(Fitting(m, p), m, v)'
  <2>1. PICK S : S = Fitting(m, p) /\ IsLeast(S, m, v)
    BY <1>1
  <2> QED
    BY <2>1, PlansKept
<1>2. ASSUME TableInv, f' = f PROVE TableInv'
  <2>1. Options' = Options /\ EmptyEntry' = EmptyEntry
    BY PlansKept DEF EmptyEntry
  <2>2. \A n, p : EntryOK(n, p) => EntryOK(n, p)'
    <3> SUFFICES ASSUME NEW n, NEW p, EntryOK(n, p) PROVE EntryOK(n, p)'
      OBVIOUS
    <3> QED
      BY <1>2, <2>1, Zenon DEF EntryOK
  <2> QED
    BY <1>2, <2>2 DEF TableInv
<1> QED
  BY <1>1, <1>2

LEMMA RowTriedStep == ASSUME PlanIInv, RowTried PROVE PlanIInv'
<1> USE DEF PlanIInv
<1>1. /\ stage = "rows" /\ stage' = "carry" /\ idx > Len(candidates[g_i - 1])
      /\ UNCHANGED <<g_i, candidates, idx, f, at, results>>
  BY DEF RowTried
<1>2. CandidatesInv' /\ TableInv' /\ g_i \in 1 .. G
  BY <1>1, PlansKept, LeastKept DEF RowsInv
<1>3. idx = Len(candidates[0]) + 1
  <2>1. g_i - 1 \in PlannedGroups
    BY <1>2, GroupsPlanned DEF PlannedGroups
  <2>2. Len(candidates[g_i - 1]) = Len(candidates[0]) /\ Len(candidates[0]) \in Nat
    BY <2>1 DEF CandidatesInv
  <2>3. idx \in 1 .. Len(candidates[0]) + 1
    BY <1>1 DEF RowsInv
  <2> QED
    BY <1>1, <2>2, <2>3
<1>4. \A p \in Columns : IsLeast(Fitting(g_i, p), g_i, f[g_i][p].val)
  <2>1. g_i \in Nat \ {0}
    BY <1>2, GroupsPlanned
  <2>2. \A p : Tried(g_i, p, idx) = Fitting(g_i, p)
    BY <1>3, <2>1, TriedEnds
  <2> QED
    BY <1>1, <2>2 DEF RowsInv
<1>5. RowsInv'
  <2>1. \A p \in Columns : IsLeast(Fitting(g_i, p), g_i, f[g_i][p].val)'
    <3> SUFFICES ASSUME NEW p \in Columns PROVE IsLeast(Fitting(g_i, p), g_i, f[g_i][p].val)'
      OBVIOUS
    <3>1. PICK m, v : m = g_i /\ v = f[g_i][p].val
      OBVIOUS
    <3>2. IsLeast(Fitting(m, p), m, v)'
      BY <1>1, <1>4, <3>1, LeastKept
    <3> QED
      BY <1>1, <3>1, <3>2
  <2>2. ASSUME NEW m \in 0 .. G, m < g_i, NEW p \in Columns PROVE IsLeast(Fitting(m, p), m, f[m][p].val)'
    <3>1. PICK v : v = f[m][p].val /\ IsLeast(Fitting(m, p), m, v)
      BY <2>2 DEF RowsInv
    <3>2. IsLeast(Fitting(m, p), m, v)'
      BY <1>1, <3>1, LeastKept
    <3> QED
      BY <1>1, <3>1, <3>2
  <2>3. \A m \in g_i + 1 .. G : \A p \in Columns : f[m][p].val = Infeasible
    BY <1>1 DEF RowsInv
  <2> QED
    BY <1>1, <1>2, <2>1, <2>2, <2>3 DEF RowsInv, RowsEnded
<1>6. ReadInv'
  BY <1>1 DEF ReadInv, RowsEnded
<1> QED
  BY <1>1, <1>2, <1>5, <1>6

\* A column without a plan has only such columns before it, so carrying over changes nothing.
LEMMA CarryOverKeeps == ASSUME PlanIInv, CarryOver PROVE f' = f
<1> USE DEF PlanIInv
<1> DEFINE row == f[g_i]
           Is(h) == h = [p \in Columns |-> IF p > 0 /\ row[p].val = Infeasible THEN h[p - 1] ELSE row[p]]
           carried == CHOOSE h : Is(h)
<1>1. stage = "carry" /\ f' = [f EXCEPT ![g_i] = carried]
  BY DEF CarryOver
<1>2. /\ g_i \in 1 .. G /\ g_i \in 0 .. G /\ G \in Nat /\ PartitionCap \in Nat
      /\ \A p \in Columns : IsLeast(Fitting(g_i, p), g_i, row[p].val)
  <2>1. g_i \in 1 .. G /\ G \in Nat /\ PartitionCap \in Nat
    BY <1>1, GroupsPlanned DEF RowsInv
  <2>2. g_i \in 0 .. G
    BY <2>1
  <2> QED
    BY <1>1, <2>1, <2>2 DEF RowsInv
<1>3. f \in [0 .. G -> [Columns -> EntryType]] /\ row \in [Columns -> EntryType]
  BY <1>2 DEF TableInv
<1>4. ASSUME NEW p \in Columns, p > 0, row[p].val = Infeasible
      PROVE  p - 1 \in Columns /\ row[p - 1] = row[p]
  <2>1. p - 1 \in Columns /\ p \in Int /\ p - 1 \in Int /\ p - 1 <= p
    BY <1>2, <1>4 DEF Columns
  <2>2. row[p - 1].val = Infeasible
    <3> SUFFICES ASSUME row[p - 1].val # Infeasible PROVE FALSE
      OBVIOUS
    <3> HIDE DEF row
    <3>1. row[p].val # Infeasible
      BY <1>2, <2>1, FittingGrows
    <3> QED
      BY <1>4, <3>1
  <2>3. EntryOK(g_i, p) /\ EntryOK(g_i, p - 1)
    BY <1>2, <2>1 DEF TableInv
  <2> QED
    BY <1>4, <2>1, <2>2, <2>3 DEF EntryOK
<1> HIDE DEF row
<1>5. Is(row)
  <2>1. \A p \in Columns : row[p] = IF p > 0 /\ row[p].val = Infeasible THEN row[p - 1] ELSE row[p]
    BY <1>4
  <2> QED
    BY <1>3, <2>1
<1>6. Is(carried)
  BY <1>5
<1> HIDE DEF carried
<1>7. \A p \in Columns : carried[p] = IF p > 0 /\ row[p].val = Infeasible THEN carried[p - 1] ELSE row[p]
  BY <1>6, Zenon
<1>8. \A p \in Columns : carried[p] = row[p]
  <2> DEFINE S == {p \in Nat : p \in Columns => carried[p] = row[p]}
  <2>1. 0 \in S
    BY <1>7
  <2>2. ASSUME NEW p \in Nat, p \in S PROVE p + 1 \in S
    <3> SUFFICES ASSUME p + 1 \in Columns PROVE carried[p + 1] = row[p + 1]
      OBVIOUS
    <3>1. p \in Columns /\ p + 1 > 0 /\ (p + 1) - 1 = p
      BY <1>2 DEF Columns
    <3> QED
      BY <1>4, <1>7, <2>2, <3>1
  <2> HIDE DEF S
  <2>3. Nat \subseteq S
    BY <2>1, <2>2, Induction
  <2> QED
    BY <1>2, <2>3 DEF S, Columns
<1>9. carried = row
  <2>1. carried = [p \in Columns |-> IF p > 0 /\ row[p].val = Infeasible THEN carried[p - 1] ELSE row[p]]
    BY <1>6
  <2>2. DOMAIN carried = Columns /\ carried = [p \in Columns |-> carried[p]]
    BY <1>7, <2>1, Zenon
  <2>3. [p \in Columns |-> carried[p]] = [p \in Columns |-> row[p]]
    BY <1>8
  <2> QED
    BY <1>3, <2>2, <2>3
<1> QED
  BY <1>1, <1>2, <1>3, <1>9 DEF row

LEMMA CarryOverStep == ASSUME PlanIInv, CarryOver PROVE PlanIInv'
<1> USE DEF PlanIInv
<1>1. stage = "carry" /\ f' = f /\ idx' = 1 /\ UNCHANGED <<candidates, results>>
  BY CarryOverKeeps DEF CarryOver
<1>2. CandidatesInv' /\ TableInv' /\ g_i \in 1 .. G /\ idx' \in Nat
  BY <1>1, PlansKept, LeastKept DEF RowsInv
<1>3. ASSUME NEW m \in 0 .. G, m < g_i + 1, NEW p \in Columns PROVE IsLeast(Fitting(m, p), m, f[m][p].val)'
  <2>1. IsLeast(Fitting(m, p), m, f[m][p].val)
    <3>1. m < g_i \/ m = g_i
      BY <1>2, <1>3
    <3> QED
      BY <1>1, <3>1 DEF RowsInv
  <2>2. PICK v : v = f[m][p].val /\ IsLeast(Fitting(m, p), m, v)
    BY <2>1
  <2>3. IsLeast(Fitting(m, p), m, v)'
    BY <1>1, <2>2, LeastKept
  <2> QED
    BY <1>1, <2>2, <2>3
<1>4. CASE g_i < G
  <2>1. stage' = "rows" /\ g_i' = g_i + 1 /\ at' = at
    BY <1>4 DEF CarryOver
  <2>2. /\ g_i + 1 \in 1 .. G /\ g_i + 1 \in Nat \ {0} /\ g_i + 1 \in g_i + 1 .. G
        /\ \A m \in (g_i + 1) + 1 .. G : m \in g_i + 1 .. G
    BY <1>2, <1>4, GroupsPlanned
  <2>3. \A m \in g_i + 1 .. G : \A p \in Columns : f[m][p].val = Infeasible
    BY <1>1 DEF RowsInv
  <2>4. ASSUME NEW p \in Columns PROVE IsLeast(Tried(g_i, p, idx), g_i, f[g_i][p].val)'
    <3>1. PICK m, S : m = g_i + 1 /\ S = Tried(m, p, 1)
      OBVIOUS
    <3>2. S = {}
      BY <2>2, <3>1, TriedEnds
    <3>3. IsLeast(S, m, Infeasible)
      BY <3>2 DEF IsLeast
    <3>4. IsLeast(S, m, Infeasible)' /\ Tried(m, p, 1)' = S
      BY <1>1, <3>1, <3>3, PlansKept
    <3>5. f'[m][p].val = Infeasible /\ g_i' = m /\ Infeasible' = Infeasible
      BY <1>1, <2>1, <2>2, <2>3, <3>1 DEF Infeasible
    <3> QED
      BY <1>1, <3>4, <3>5
  <2>5. idx' \in 1 .. Len(candidates'[0]) + 1
    BY <1>1 DEF CandidatesInv
  <2>6. RowsInv'
    BY <1>1, <1>3, <2>1, <2>2, <2>3, <2>4, <2>5 DEF RowsInv, RowsEnded, Infeasible
  <2>7. ReadInv'
    BY <2>1 DEF ReadInv, RowsEnded
  <2> QED
    BY <1>1, <1>2, <2>1, <2>6, <2>7
<1>5. CASE ~(g_i < G)
  <2>1. stage' = "read" /\ g_i' = g_i /\ at' = PartitionCap /\ g_i = G
    <3>1. g_i = G
      BY <1>2, <1>5, GroupsPlanned
    <3> QED
      BY <1>5, <3>1 DEF CarryOver
  <2>2. /\ G \in Nat /\ G \in 0 .. G /\ PartitionCap \in Columns /\ PartitionCap # Null
        /\ PartitionCap \in Nat /\ (\A m \in 0 .. G : m < G + 1) /\ PartitionCap - PartitionCap = 0
    BY GroupsPlanned
  <2>3. RowsInv'
    BY <1>3, <2>1, <2>2 DEF RowsInv, RowsEnded
  <2> DEFINE best == f[G][PartitionCap].val
             none == [i \in 0 .. G |-> 0]
  <2>4. none \in [0 .. G -> Nat] /\ none[G] = 0 /\ \A i \in G .. G - 1 : FALSE
    BY <2>2
  <2> HIDE DEF none
  <2>5. NumRead(0)' /\ TimeRead(0)'
    BY <2>1, <2>4 DEF NumRead, TimeRead
  <2>6. best # Infeasible => best \in Nat /\ best - best = 0
    BY <2>2 DEF TableInv, EntryType
  <2>7. ReadInv'
    <3>1. NumRead(PartitionCap - at)'
      BY <2>1, <2>2, <2>5
    <3>2. best # Infeasible => TimeRead(f[G][PartitionCap].val - f[g_i][at].val)'
      <4> HAVE best # Infeasible
      <4>1. (f[G][PartitionCap].val - f[g_i][at].val)' = 0
        BY <1>1, <2>1, <2>6
      <4> QED
        BY <2>5, <4>1
    <3> QED
      BY <1>1, <2>1, <2>2, <2>4, <3>1, <3>2 DEF ReadInv, RowsEnded, Null, Infeasible
  <2> QED
    BY <1>1, <1>2, <2>1, <2>2, <2>3, <2>7
<1> QED
  BY <1>4, <1>5

\* One entry is read: what it and those read before stand for adds up as before.
LEMMA ReadBackStep == ASSUME PlanIInv, ReadBack PROVE PlanIInv'
<1> USE DEF PlanIInv
<1> DEFINE n == g_i
           e == f[n][at]
           k == e.candidate
           best == f[G][PartitionCap].val
<1>1. /\ stage = "read" /\ g_i >= 1 /\ at # Null
      /\ results' = [results EXCEPT ![n - 1] = k]
      /\ at' = e.previous /\ g_i' = n - 1
      /\ UNCHANGED <<stage, candidates, idx, f>>
  BY DEF ReadBack
<1>2. /\ n \in 0 .. G /\ n \in 1 .. G /\ n - 1 \in 0 .. G - 1 /\ n - 1 \in 0 .. G /\ n \in Nat
      /\ n - 1 \in PlannedGroups /\ G \in Nat /\ PartitionCap \in Nat /\ PartitionCap \in Columns
      /\ G \in 0 .. G
  <2>1. n \in 0 .. G
    BY <1>1 DEF ReadInv, RowsEnded
  <2> HIDE DEF n
  <2>2. n >= 1
    BY <1>1 DEF n
  <2> QED
    BY <2>1, <2>2, GroupsPlanned DEF PlannedGroups
<1> HIDE DEF n
<1>3. at \in Columns /\ at \in Nat /\ at <= PartitionCap
  BY <1>1, <1>2 DEF Columns
<1>4. /\ \A i \in n .. G - 1 : results[i] \in Options
      /\ NumRead(PartitionCap - at)
      /\ best # Infeasible => f[n][at].val # Infeasible /\ TimeRead(best - f[n][at].val)
      /\ best = Infeasible => n = G
  BY <1>1 DEF ReadInv, RowsEnded, n
<1>5. EntryOK(n, at) /\ e \in EntryType /\ best \in Nat \cup {Infeasible}
  BY <1>2, <1>3 DEF TableInv, EntryType
<1>6. CandidatesInv' /\ TableInv' /\ Options' = Options
  BY <1>1, PlansKept, LeastKept
<1>7. RowsInv'
  <2>1. ASSUME NEW m \in 0 .. G, NEW p \in Columns PROVE IsLeast(Fitting(m, p), m, f[m][p].val)'
    <3>1. PICK v : v = f[m][p].val /\ IsLeast(Fitting(m, p), m, v)
      BY <1>1 DEF RowsInv, RowsEnded
    <3>2. IsLeast(Fitting(m, p), m, v)'
      BY <1>1, <3>1, LeastKept
    <3> QED
      BY <1>1, <3>1, <3>2
  <2> QED
    BY <1>1, <2>1 DEF RowsInv
<1>8. results' \in [PlannedGroups -> Nat \cup {Null}] /\ at' \in Columns \cup {Null}
  <2>1. k \in Nat \cup {Null} /\ e.previous \in Columns \cup {Null}
    BY <1>5 DEF EntryType
  <2> HIDE DEF k, e
  <2> QED
    BY <1>1, <2>1
<1>9. CASE best = Infeasible
  <2>1. n = G
    BY <1>4, <1>9
  <2>2. at = PartitionCap
    <3>1. PICK rest \in [0 .. G -> Nat] : rest[G] = 0 /\ rest[g_i] = PartitionCap - at
      BY <1>4 DEF NumRead
    <3> QED
      BY <1>2, <1>3, <2>1, <3>1 DEF n
  <2>3. at' = Null /\ g_i' = G - 1 /\ e = EmptyEntry
    BY <1>1, <1>5, <1>9, <2>1, <2>2 DEF EntryOK, EmptyEntry
  <2>4. ReadInv'
    BY <1>1, <1>2, <1>9, <2>1, <2>3 DEF ReadInv, RowsEnded, Null, Infeasible
  <2> QED
    BY <1>1, <1>6, <1>7, <1>8, <2>4
<1>10. CASE best # Infeasible
  <2> DEFINE num == candidates[n - 1][k].num
             time == candidates[n - 1][k].time
             v == f[n][at].val
             w == f[n - 1][e.previous].val
  <2>1. /\ k \in Options /\ e.previous \in Columns /\ e.previous = at - num
        /\ w # Infeasible /\ v = w + time /\ v # Infeasible
    BY <1>4, <1>5, <1>10 DEF EntryOK
  <2>2. num \in Nat /\ time \in Nat /\ w \in Nat /\ v \in Nat /\ best \in Nat /\ e.previous \in Nat
    <3>1. candidates[n - 1][k] \in [bits : Nat, num : Nat, time : Nat]
      BY <1>2, <2>1 DEF CandidatesInv
    <3>2. f[n - 1][e.previous] \in EntryType
      BY <1>2, <2>1 DEF TableInv
    <3>3. w \in Nat
      BY <2>1, <3>2 DEF EntryType
    <3>4. v \in Nat
      BY <1>5, <2>1 DEF EntryType
    <3>5. best \in Nat
      BY <1>5, <1>10
    <3>6. e.previous \in Nat
      <4>1. e.previous \in 0 .. PartitionCap
        BY <2>1 DEF Columns
      <4> HIDE DEF e
      <4> QED
        BY <1>2, <4>1
    <3>7. num \in Nat /\ time \in Nat
      BY <3>1
    <3> QED
      BY <3>3, <3>4, <3>5, <3>6, <3>7
  <2>3. \A i \in n - 1 .. G - 1 : results'[i] = IF i = n - 1 THEN k ELSE results[i]
    <3>1. \A i \in n - 1 .. G - 1 : i \in PlannedGroups
      BY <1>2 DEF PlannedGroups
    <3> HIDE DEF k
    <3> QED
      BY <1>1, <1>2, <3>1
  <2>4. \A i \in n - 1 .. G - 1 : i # n - 1 => i \in n .. G - 1
    BY <1>2
  <2>5. \A i \in n - 1 .. G - 1 : results'[i] \in Options
    BY <1>4, <2>1, <2>3, <2>4
  <2> HIDE DEF num, time, v, w
  <2>6. NumRead(PartitionCap - at)'
    <3>1. PICK rest \in [0 .. G -> Nat] :
             /\ rest[G] = 0 /\ rest[n] = PartitionCap - at
             /\ \A i \in n .. G - 1 : rest[i] = rest[i + 1] + candidates[i][results[i]].num
      BY <1>4 DEF NumRead, n
    <3> DEFINE more == [rest EXCEPT ![n - 1] = rest[n] + num]
    <3>2. /\ more \in [0 .. G -> Nat] /\ more[G] = 0 /\ more[n - 1] = rest[n] + num
          /\ \A i \in n .. G : more[i] = rest[i]
      <4>1. rest[n] \in Nat
        BY <1>2
      <4>2. G # n - 1 /\ \A i \in n .. G : i # n - 1 /\ i \in 0 .. G
        BY <1>2
      <4>3. rest[n] + num \in Nat
        BY <2>2, <4>1
      <4> QED
        BY <1>2, <3>1, <4>2, <4>3
    <3>3. ASSUME NEW i \in n - 1 .. G - 1 PROVE more[i] = more[i + 1] + candidates[i][results'[i]].num
      <4>1. CASE i = n - 1
        <5>1. i + 1 = n /\ n \in n .. G
          BY <1>2, <4>1
        <5> HIDE DEF more
        <5> QED
          BY <2>3, <3>2, <4>1, <5>1 DEF num
      <4>2. CASE i # n - 1
        <5>1. i \in n .. G - 1 /\ i \in n .. G /\ i + 1 \in n .. G
          BY <1>2, <4>2
        <5> HIDE DEF more
        <5> QED
          BY <2>3, <3>1, <3>2, <4>2, <5>1
      <4> QED
        BY <4>1, <4>2
    <3>4. more[n - 1] = PartitionCap - e.previous
      <4> HIDE DEF more, e
      <4>1. e.previous = at - num
        BY <2>1
      <4> QED
        BY <1>2, <1>3, <2>2, <3>1, <3>2, <4>1
    <3> HIDE DEF more
    <3>5. \E x \in [0 .. G -> Nat] :
             /\ x[G] = 0 /\ x[n - 1] = PartitionCap - e.previous
             /\ \A i \in n - 1 .. G - 1 : x[i] = x[i + 1] + candidates[i][results'[i]].num
      BY <3>2, <3>3, <3>4, Zenon
    <3>6. at' = e.previous /\ g_i' = n - 1 /\ candidates' = candidates
      BY <1>1
    <3> HIDE DEF e
    <3> QED
      BY <3>5, <3>6, Zenon DEF NumRead
  <2>7. PICK b : b = best - w
    OBVIOUS
  <2>8. TimeRead(b)'
    <3>1. PICK rest \in [0 .. G -> Nat] :
             /\ rest[G] = 0 /\ rest[n] = best - v
             /\ \A i \in n .. G - 1 : rest[i] = rest[i + 1] + candidates[i][results[i]].time
      BY <1>4, <1>10 DEF TimeRead, n, v
    <3> DEFINE more == [rest EXCEPT ![n - 1] = rest[n] + time]
    <3>2. /\ more \in [0 .. G -> Nat] /\ more[G] = 0 /\ more[n - 1] = rest[n] + time
          /\ \A i \in n .. G : more[i] = rest[i]
      <4>1. rest[n] \in Nat
        BY <1>2
      <4>2. G # n - 1 /\ \A i \in n .. G : i # n - 1 /\ i \in 0 .. G
        BY <1>2
      <4>3. rest[n] + time \in Nat
        BY <2>2, <4>1
      <4> QED
        BY <1>2, <3>1, <4>2, <4>3
    <3>3. ASSUME NEW i \in n - 1 .. G - 1 PROVE more[i] = more[i + 1] + candidates[i][results'[i]].time
      <4>1. CASE i = n - 1
        <5>1. i + 1 = n /\ n \in n .. G
          BY <1>2, <4>1
        <5> HIDE DEF more
        <5> QED
          BY <2>3, <3>2, <4>1, <5>1 DEF time
      <4>2. CASE i # n - 1
        <5>1. i \in n .. G - 1 /\ i \in n .. G /\ i + 1 \in n .. G
          BY <1>2, <4>2
        <5> HIDE DEF more
        <5> QED
          BY <2>3, <3>1, <3>2, <4>2, <5>1
      <4> QED
        BY <4>1, <4>2
    <3>4. more[n - 1] = best - w
      <4>1. v = w + time
        BY <2>1
      <4> HIDE DEF more, best
      <4> QED
        BY <2>2, <3>1, <3>2, <4>1
    <3> HIDE DEF more
    <3>5. \E x \in [0 .. G -> Nat] :
             /\ x[G] = 0 /\ x[n - 1] = b
             /\ \A i \in n - 1 .. G - 1 : x[i] = x[i + 1] + candidates[i][results'[i]].time
      BY <2>7, <3>2, <3>3, <3>4
    <3>6. g_i' = n - 1 /\ candidates' = candidates
      BY <1>1
    <3> QED
      BY <3>5, <3>6, Zenon DEF TimeRead
  <2>9. ReadInv'
    <3>1. (PartitionCap - at)' = PartitionCap - e.previous /\ at' # Null /\ f'[g_i'][at'].val = w
      BY <1>1, <2>1, <2>2 DEF Null, w, n
    <3>2. (f[G][PartitionCap].val - f[g_i][at].val)' = b
      BY <1>1, <2>7, <3>1
    <3>3. TimeRead(f[G][PartitionCap].val - f[g_i][at].val)'
      BY <2>8, <3>2
    <3>4. \A i \in g_i' .. G - 1 : results'[i] \in Options'
      BY <1>1, <1>6, <2>5
    <3>5. g_i' \in 0 .. G /\ stage' = "read"
      BY <1>1, <1>2
    <3>6. f'[g_i'][at'].val # Infeasible /\ f'[G][PartitionCap].val # Infeasible
      BY <1>1, <1>10, <2>1, <3>1
    <3> HIDE DEF e, best
    <3> QED
      BY <2>6, <3>1, <3>3, <3>4, <3>5, <3>6 DEF ReadInv, RowsEnded
  <2> QED
    BY <1>1, <1>6, <1>7, <1>8, <2>9
<1> QED
  BY <1>9, <1>10

\* The steps that leave the table and what was read alone.
LEMMA ReadingKept ==
    ASSUME PlanIInv, UNCHANGED <<g_i, candidates, idx, f, at, results>>,
           \/ stage' = stage
           \/ stage = "read" /\ stage' = "done" /\ g_i = 0
           \/ stage = "read" /\ stage' = "failed" /\ at = Null
    PROVE  PlanIInv'
<1> USE DEF PlanIInv
<1>1. /\ CandidatesInv' /\ TableInv' /\ Options' = Options
      /\ (RowsEnded' <=> RowsEnded) /\ Null' = Null /\ Infeasible' = Infeasible
  BY PlansKept, LeastKept DEF RowsEnded, Null, Infeasible
<1>2. ASSUME NEW m \in 0 .. G, NEW p \in Columns, IsLeast(Fitting(m, p), m, f[m][p].val)
      PROVE  IsLeast(Fitting(m, p), m, f[m][p].val)'
  <2>1. PICK v : v = f[m][p].val /\ IsLeast(Fitting(m, p), m, v)
    BY <1>2
  <2>2. IsLeast(Fitting(m, p), m, v)'
    BY <2>1, LeastKept
  <2> QED
    BY <2>1, <2>2
<1>3. RowsInv'
  <2>1. \A m \in 0 .. G : m < g_i' \/ RowsEnded' =>
           \A p \in Columns : IsLeast(Fitting(m, p), m, f[m][p].val)'
    BY <1>1, <1>2 DEF RowsInv
  <2>2. ASSUME stage' \in {"rows", "carry"}
        PROVE  g_i \in 1 .. G /\ \A m \in g_i + 1 .. G : \A p \in Columns : f[m][p].val = Infeasible
    BY <2>2 DEF RowsInv
  <2>3. ASSUME stage' = "rows", NEW p \in Columns
        PROVE  idx \in 1 .. Len(candidates[0]) + 1 /\ IsLeast(Tried(g_i, p, idx), g_i, f[g_i][p].val)'
    <3>1. IsLeast(Tried(g_i, p, idx), g_i, f[g_i][p].val) /\ idx \in 1 .. Len(candidates[0]) + 1
      BY <2>3 DEF RowsInv
    <3>2. PICK m, k, S, v : m = g_i /\ k = idx /\ S = Tried(m, p, k) /\ v = f[m][p].val /\ IsLeast(S, m, v)
      BY <3>1
    <3>3. IsLeast(S, m, v)' /\ Tried(m, p, k)' = S
      BY <3>2, PlansKept
    <3> QED
      BY <3>1, <3>2, <3>3
  <2>4. ASSUME stage' = "carry", NEW p \in Columns PROVE IsLeast(Fitting(g_i, p), g_i, f[g_i][p].val)'
    <3>1. PICK m : m = g_i /\ m \in 0 .. G
      BY <2>2, <2>4, GroupsPlanned
    <3>2. IsLeast(Fitting(m, p), m, f[m][p].val)
      BY <2>4, <3>1 DEF RowsInv
    <3>3. IsLeast(Fitting(m, p), m, f[m][p].val)'
      BY <1>2, <3>1, <3>2
    <3> QED
      BY <3>1, <3>3
  <2>5. stage' = "rows" => idx' \in 1 .. Len(candidates'[0]) + 1
    BY DEF RowsInv
  <2> QED
    BY <1>1, <2>1, <2>2, <2>3, <2>4, <2>5 DEF RowsInv
<1>4. \A m : (NumRead(m) => NumRead(m)') /\ (TimeRead(m) => TimeRead(m)')
  BY DEF NumRead, TimeRead
<1>5. ReadInv'
  <2> SUFFICES ASSUME RowsEnded' PROVE ReadInv'
    BY DEF ReadInv
  <2> DEFINE best == f[G][PartitionCap].val
  <2>1. /\ g_i \in 0 .. G
        /\ at # Null =>
              /\ \A i \in g_i .. G - 1 : results[i] \in Options
              /\ NumRead(PartitionCap - at)
              /\ best # Infeasible => f[g_i][at].val # Infeasible /\ TimeRead(best - f[g_i][at].val)
              /\ best = Infeasible => g_i = G
        /\ at = Null => best = Infeasible /\ g_i = G - 1
        /\ stage = "done" => g_i = 0
        /\ stage = "failed" => at = Null
    BY <1>1 DEF ReadInv
  <2>2. PICK m, t : m = PartitionCap - at /\ t = best - f[g_i][at].val
    OBVIOUS
  <2>3. /\ at # Null => NumRead(m)'
        /\ at # Null /\ best # Infeasible => TimeRead(t)'
    BY <1>4, <2>1, <2>2
  <2>4. (PartitionCap - at)' = m /\ (best - f[g_i][at].val)' = t /\ best' = best
    BY <2>2
  <2>5. /\ at # Null => NumRead(PartitionCap - at)'
        /\ at # Null /\ best # Infeasible => TimeRead(best - f[g_i][at].val)'
    BY <2>3, <2>4
  <2> QED
    BY <1>1, <2>1, <2>5 DEF ReadInv
<1> QED
  BY <1>1, <1>3, <1>5

LEMMA PlanStep == ASSUME PlanIInv, [PlanNext]_planVars PROVE PlanIInv'
<1>1. CASE TryCandidate
  BY <1>1, TryCandidateStep
<1>2. CASE RowTried
  BY <1>2, RowTriedStep
<1>3. CASE CarryOver
  BY <1>3, CarryOverStep
<1>4. CASE ReadBack
  BY <1>4, ReadBackStep
<1>5. CASE CheckFails
  BY <1>5, ReadingKept DEF CheckFails
<1>6. CASE PlanRead
  BY <1>6, ReadingKept DEF PlanRead
<1>7. CASE Returned \/ UNCHANGED planVars
  BY <1>7, ReadingKept DEF Returned, planVars
<1> QED
  BY <1>1, <1>2, <1>3, <1>4, <1>5, <1>6, <1>7 DEF PlanNext
-----------------------------------------------------------------------------
(* The plan: what the invariant implies                                    *)

\* Numbers that fall by the next value at each step, to zero, start from the sum.
LEMMA SumIsFirst ==
    ASSUME NEW n \in Nat, NEW rest \in [0 .. n -> Nat], rest[n] = 0,
           NEW a, \A i \in 0 .. n - 1 : a[i] \in Nat /\ rest[i] = rest[i + 1] + a[i]
    PROVE  Sum(a, n) = rest[0]
<1> DEFINE S == {m \in Nat : m <= n => Sum(a, m) + rest[m] = rest[0] /\ Sum(a, m) \in Nat}
<1>1. 0 \in S
  <2>1. rest[0] \in Nat
    OBVIOUS
  <2>2. Sum(a, 0) = 0
    BY SumStep
  <2>3. Sum(a, 0) + rest[0] = rest[0] /\ Sum(a, 0) \in Nat
    BY <2>1, <2>2
  <2> QED
    BY <2>3
<1>2. ASSUME NEW m \in Nat, m \in S PROVE m + 1 \in S
  <2> SUFFICES ASSUME m + 1 <= n
               PROVE  Sum(a, m + 1) + rest[m + 1] = rest[0] /\ Sum(a, m + 1) \in Nat
    OBVIOUS
  <2>1. m \in 0 .. n - 1 /\ m \in 0 .. n /\ m + 1 \in 0 .. n /\ m <= n
    OBVIOUS
  <2>2. /\ Sum(a, m + 1) = Sum(a, m) + a[m] /\ a[m] \in Nat /\ rest[m] = rest[m + 1] + a[m]
        /\ rest[m] \in Nat /\ rest[m + 1] \in Nat
    BY <2>1, SumStep
  <2>3. Sum(a, m) + rest[m] = rest[0] /\ Sum(a, m) \in Nat
    BY <1>2, <2>1
  <2> QED
    BY <2>2, <2>3
<1> HIDE DEF S
<1>3. Nat \subseteq S
  BY <1>1, <1>2, Induction
<1>4. Sum(a, n) + 0 = rest[0] /\ Sum(a, n) \in Nat
  BY <1>3 DEF S
<1> QED
  BY <1>4

LEMMA TypeFollows == ASSUME PlanIInv PROVE PlanTypeOK
<1>1. g_i \in 0 .. G
  <2>1. CASE stage \in {"rows", "carry"}
    BY <2>1, GroupsPlanned DEF PlanIInv, RowsInv
  <2>2. CASE stage \notin {"rows", "carry"}
    BY <2>2 DEF PlanIInv, ReadInv, RowsEnded
  <2> QED
    BY <2>1, <2>2
<1> QED
  BY <1>1 DEF PlanIInv, PlanTypeOK, TableInv

LEMMA OptimumFollows == ASSUME PlanIInv PROVE RowsOptimal
<1> SUFFICES ASSUME NEW n \in 0 .. G, n < g_i \/ RowsEnded, NEW p \in Columns
             PROVE  f[n][p].val = Best(n, p)
  BY DEF RowsOptimal, RowsEnded
<1>1. IsLeast(Fitting(n, p), n, f[n][p].val)
  BY DEF PlanIInv, RowsInv
<1> QED
  BY <1>1, GroupsPlanned, LeastIsBest DEF PlanIInv

LEMMA PlanFollows == ASSUME PlanIInv PROVE PlanOptimal
<1> DEFINE best == f[G][PartitionCap].val
<1>1. RowsEnded => best = Best(G, PartitionCap)
  <2>1. G \in 0 .. G
    BY GroupsPlanned
  <2> QED
    BY <2>1, OptimumFollows, GroupsPlanned DEF RowsOptimal, RowsEnded
<1>2. CASE stage = "failed"
  BY <1>1, <1>2 DEF PlanIInv, ReadInv, RowsEnded, PlanOptimal
<1>3. CASE stage = "done"
  <2>1. g_i = 0 /\ at # Null /\ best # Infeasible
    <3>1. g_i = 0
      BY <1>3 DEF PlanIInv, ReadInv, RowsEnded
    <3>2. 0 # G - 1 /\ 0 # G
      BY GroupsPlanned
    <3> QED
      BY <1>3, <3>1, <3>2 DEF PlanIInv, ReadInv, RowsEnded
  <2>2. /\ \A i \in 0 .. G - 1 : results[i] \in Options
        /\ NumRead(PartitionCap - at) /\ TimeRead(best - f[0][at].val)
    BY <1>3, <2>1 DEF PlanIInv, ReadInv, RowsEnded
  <2>3. at \in Columns /\ f[0][at].val = 0 /\ best \in Nat
    <3>1. at \in Columns
      BY <2>1 DEF PlanIInv
    <3>2. f[G][PartitionCap] \in EntryType
      <4>1. G \in 0 .. G
        BY GroupsPlanned
      <4> QED
        BY <4>1, GroupsPlanned DEF PlanIInv, TableInv
    <3> QED
      BY <2>1, <3>1, <3>2 DEF PlanIInv, TableInv, EntryType
  <2> DEFINE a == [group \in DOMAIN results |-> candidates[group][results[group]].num]
             b == [group \in DOMAIN results |-> candidates[group][results[group]].time]
  <2>4. ASSUME NEW i \in 0 .. G - 1
        PROVE  /\ a[i] = candidates[i][results[i]].num /\ b[i] = candidates[i][results[i]].time
               /\ a[i] \in Nat /\ b[i] \in Nat
    <3>1. DOMAIN results = PlannedGroups /\ i \in PlannedGroups
      BY DEF PlanIInv, PlannedGroups
    <3>2. candidates[i][results[i]] \in [bits : Nat, num : Nat, time : Nat]
      BY <2>2, <3>1 DEF PlanIInv, CandidatesInv
    <3> QED
      BY <3>1, <3>2
  <2> HIDE DEF a, b
  <2>5. Num(results, G) <= PartitionCap
    <3>1. PICK rest \in [0 .. G -> Nat] :
             /\ rest[G] = 0 /\ rest[0] = PartitionCap - at
             /\ \A i \in 0 .. G - 1 : rest[i] = rest[i + 1] + candidates[i][results[i]].num
      BY <2>1, <2>2 DEF NumRead
    <3>2. Sum(a, G) = PartitionCap - at
      <4>1. \A i \in 0 .. G - 1 : a[i] \in Nat /\ rest[i] = rest[i + 1] + a[i]
        BY <2>4, <3>1
      <4>2. G \in Nat
        BY GroupsPlanned
      <4>3. Sum(a, G) = rest[0]
        BY <3>1, <4>1, <4>2, SumIsFirst
      <4> QED
        BY <3>1, <4>3
    <3>3. PartitionCap - at <= PartitionCap
      BY <2>3, GroupsPlanned DEF Columns
    <3> QED
      BY <3>2, <3>3 DEF Num, a
  <2>6. Time(results, G) = best
    <3>1. PICK rest \in [0 .. G -> Nat] :
             /\ rest[G] = 0 /\ rest[0] = best
             /\ \A i \in 0 .. G - 1 : rest[i] = rest[i + 1] + candidates[i][results[i]].time
      <4>1. best - f[0][at].val = best
        BY <2>3
      <4>2. TimeRead(best)
        BY <2>2, <4>1
      <4> QED
        BY <2>1, <4>2 DEF TimeRead
    <3>2. Sum(b, G) = best
      <4>1. \A i \in 0 .. G - 1 : b[i] \in Nat /\ rest[i] = rest[i + 1] + b[i]
        BY <2>4, <3>1
      <4>2. G \in Nat
        BY GroupsPlanned
      <4>3. Sum(b, G) = rest[0]
        BY <3>1, <4>1, <4>2, SumIsFirst
      <4> QED
        BY <3>1, <4>3
    <3> QED
      BY <3>2 DEF Time, b
  <2>7. \A group \in PlannedGroups : results[group] \in DOMAIN candidates[group]
    <3>1. \A group \in PlannedGroups : DOMAIN candidates[group] = Options /\ group \in 0 .. G - 1
      BY DEF PlanIInv, CandidatesInv, PlannedGroups
    <3> QED
      BY <2>2, <3>1
  <2> QED
    BY <1>1, <1>3, <2>5, <2>6, <2>7 DEF PlanOptimal, RowsEnded
<1> QED
  BY <1>2, <1>3 DEF PlanOptimal
-----------------------------------------------------------------------------
(* The plan: theorems                                                      *)

(***************************************************************************)
(* The rows that are done hold the least times, the one at work those of   *)
(* the candidates tried; what dp read back and the entry it reads next     *)
(* make up the best plan.  The groups must fit into the words the code     *)
(* counts in, or PartitionsOf is not the number of a group's partitions.   *)
(***************************************************************************)
THEOREM PlanInvariant == ASSUME WholeGroupsFit(VertexNum) PROVE PlanSpec => []PlanIInv
<1>1. PlanInit => PlanIInv
  BY PlanIInvInit
<1>2. PlanIInv /\ [PlanNext]_planVars => PlanIInv'
  BY PlanStep
<1> QED
  BY <1>1, <1>2, PTL DEF PlanSpec

\* The table of dp keeps its types, and its predecessors lie in it.
THEOREM PlanTypeCorrect == ASSUME WholeGroupsFit(VertexNum) PROVE PlanSpec => []PlanTypeOK
<1>1. PlanIInv => PlanTypeOK
  BY TypeFollows
<1> QED
  BY <1>1, PlanInvariant, PTL

\* dp's rows are optimal: each column of one that is done has the least time of all plans.
THEOREM RowsAreOptimal == ASSUME WholeGroupsFit(VertexNum) PROVE PlanSpec => []RowsOptimal
<1>1. PlanIInv => RowsOptimal
  BY OptimumFollows
<1> QED
  BY <1>1, PlanInvariant, PTL

\* dp reads back a plan that fits and is best, and its CHECK fails only if no plan fits.
THEOREM PlanIsOptimal == ASSUME WholeGroupsFit(VertexNum) PROVE PlanSpec => []PlanOptimal
<1>1. PlanIInv => PlanOptimal
  BY PlanFollows
<1> QED
  BY <1>1, PlanInvariant, PTL
=============================================================================
