---------------------------- MODULE CommonProofs ----------------------------
(***************************************************************************)
(* What several proofs rest on.  The arithmetic of MultiThreadConfig:      *)
(* every thread has a socket, every socket has threads.  Induction over    *)
(* the natural numbers.  Powers of two.  Sums.  Sequences.                 *)
(***************************************************************************)
EXTENDS Threads, Arithmetic, SequenceTheorems, WellFoundedInduction, TLAPS

\* Integer division, as the provers need it.
LEMMA DivMod ==
    ASSUME NEW a \in Nat, NEW b \in Nat \ {0}
    PROVE  /\ a \div b \in Nat
           /\ a % b \in 0 .. b - 1
           /\ a = b * (a \div b) + (a % b)
  BY Z3

\* A quotient is smaller than c when the dividend is smaller than b * c.
LEMMA DivLess ==
    ASSUME NEW a \in Nat, NEW b \in Nat \ {0}, NEW c \in Nat, a < b * c
    PROVE  a \div b < c
<1> DEFINE q == a \div b
<1>1. q \in Nat /\ a % b \in 0 .. b - 1 /\ a = b * q + (a % b)
  BY DivMod
<1>2. SUFFICES ASSUME q >= c PROVE FALSE
  BY <1>1
<1> HIDE DEF q
<1>3. PICK d \in Nat : q = c + d
  BY <1>1, <1>2
<1>4. b * q >= b * c
  BY <1>3, Z3
<1> QED
  BY <1>1, <1>4

\* The team is SocketNum groups of SocketThreadNum > 0 threads.
LEMMA TeamSize ==
    /\ SocketThreadNum \in Nat \ {0}
    /\ ThreadNum = SocketNum * SocketThreadNum
<1> USE ThreadsAssumption
<1>1. ThreadNum \div SocketNum \in Nat
      /\ ThreadNum = SocketNum * (ThreadNum \div SocketNum)
  BY DivMod
<1>2. ThreadNum \div SocketNum # 0
  BY <1>1
<1> QED
  BY <1>1, <1>2 DEF SocketThreadNum

\* Every thread runs on one of the sockets (MultiThreadConfig::socket_id).
LEMMA SocketIdType ==
    ASSUME NEW t \in Team PROVE SocketId(t) \in Sockets
<1>1. SocketThreadNum \in Nat \ {0} /\ SocketNum \in Nat
      /\ t \in Nat /\ t < SocketThreadNum * SocketNum
  BY TeamSize, ThreadsAssumption DEF Team
<1>2. t \div SocketThreadNum < SocketNum /\ t \div SocketThreadNum \in Nat
  BY <1>1, DivLess, DivMod
<1> QED
  BY <1>1, <1>2 DEF SocketId, Sockets

\* No socket is without a thread: its first one has offset 0.
LEMMA SocketHasThread ==
    ASSUME NEW s \in Sockets PROVE \E t \in Team : SocketId(t) = s
<1> DEFINE k == SocketThreadNum
<1>1. k \in Nat \ {0} /\ SocketNum \in Nat /\ ThreadNum = SocketNum * k /\ ThreadNum \in Nat
  BY TeamSize, ThreadsAssumption
<1>2. s \in Nat /\ s <= SocketNum - 1
  BY <1>1 DEF Sockets
<1> HIDE DEF k
<1>3. PICK d \in Nat : SocketNum = s + 1 + d
  BY <1>1, <1>2
<1>4. k * s \in Nat /\ k * s < SocketNum * k
  <2>1. SocketNum * k = k * s + k + d * k /\ d * k \in Nat /\ k * s \in Nat
    BY <1>1, <1>2, <1>3, Z3
  <2> QED
    BY <2>1, <1>1
<1>5. (k * s) \div k = s
  BY <1>1, <1>2, Z3
<1> QED
  BY <1>1, <1>4, <1>5 DEF Team, SocketId, k

\* Quotient and remainder are determined by the equation.
LEMMA DivUnique ==
    ASSUME NEW a \in Nat, NEW b \in Nat \ {0}, NEW q \in Nat, NEW r \in 0 .. b - 1, a = b * q + r
    PROVE  a \div b = q /\ a % b = r
  BY Z3

\* The first thread is the first of the first socket.
LEMMA FirstThread == 0 \in Team /\ SocketId(0) = 0 /\ SocketOffset(0) = 0
<1>1. 0 = SocketThreadNum * 0 + 0 /\ 0 \in 0 .. SocketThreadNum - 1
  BY TeamSize
<1> QED
  BY <1>1, TeamSize, DivUnique, ThreadsAssumption DEF Team, SocketId, SocketOffset

\* The next thread is the next one of its socket, or the first one of the next socket.
LEMMA NextThread ==
    ASSUME NEW t \in Nat
    PROVE  /\ SocketOffset(t) + 1 # SocketThreadNum =>
                SocketId(t + 1) = SocketId(t) /\ SocketOffset(t + 1) = SocketOffset(t) + 1
           /\ SocketOffset(t) + 1 = SocketThreadNum =>
                SocketId(t + 1) = SocketId(t) + 1 /\ SocketOffset(t + 1) = 0
<1> DEFINE k == SocketThreadNum
           q == t \div k
           r == t % k
<1>1. k \in Nat \ {0}
  BY TeamSize
<1>2. q \in Nat /\ r \in 0 .. k - 1 /\ t = k * q + r
  BY <1>1, DivMod
<1> HIDE DEF k, q, r
<1>3. CASE r + 1 # k
  <2>1. r + 1 \in 0 .. k - 1 /\ t + 1 = k * q + (r + 1)
    BY <1>1, <1>2, <1>3
  <2>2. (t + 1) \div k = q /\ (t + 1) % k = r + 1
    BY <2>1, <1>1, <1>2, DivUnique
  <2> QED
    BY <1>3, <2>2 DEF SocketId, SocketOffset, k, q, r
<1>4. CASE r + 1 = k
  <2>1. k * (q + 1) = k * q + k
    BY <1>1, <1>2, Z3
  <2>2. 0 \in 0 .. k - 1 /\ t + 1 = k * (q + 1) + 0 /\ q + 1 \in Nat
    BY <1>1, <1>2, <1>4, <2>1
  <2>3. (t + 1) \div k = q + 1 /\ (t + 1) % k = 0
    BY <2>2, <1>1, <1>2, DivUnique
  <2> QED
    BY <1>4, <2>3 DEF SocketId, SocketOffset, k, q, r
<1> QED
  BY <1>3, <1>4

\* The last thread is the last of the last socket.
LEMMA LastThread ==
    /\ ThreadNum - 1 \in Team
    /\ SocketId(ThreadNum - 1) = SocketNum - 1
    /\ SocketOffset(ThreadNum - 1) + 1 = SocketThreadNum
<1> DEFINE k == SocketThreadNum
           n == SocketNum
<1>1. k \in Nat \ {0} /\ n \in Nat \ {0} /\ ThreadNum = n * k /\ ThreadNum \in Nat \ {0}
  BY TeamSize, ThreadsAssumption
<1> HIDE DEF k, n
<1>2. n * k = k * (n - 1) + k
  BY <1>1, Z3
<1>3. ThreadNum - 1 = k * (n - 1) + (k - 1) /\ k - 1 \in 0 .. k - 1 /\ n - 1 \in Nat
  BY <1>1, <1>2
<1>4. (ThreadNum - 1) \div k = n - 1 /\ (ThreadNum - 1) % k = k - 1
  <2>1. PICK m, q, r \in Nat : m = ThreadNum - 1 /\ q = n - 1 /\ r = k - 1
    BY <1>1
  <2>2. m = k * q + r /\ r \in 0 .. k - 1
    BY <1>3, <2>1
  <2>3. m \div k = q /\ m % k = r
    BY <1>1, <2>2, DivUnique
  <2> QED
    BY <2>1, <2>3
<1> QED
  BY <1>1, <1>4 DEF SocketId, SocketOffset, Team, k, n

\* Where a thread stands in its socket.
LEMMA SocketOffsetType ==
    ASSUME NEW t \in Team PROVE SocketOffset(t) \in 0 .. SocketThreadNum - 1
  BY TeamSize, DivMod, ThreadsAssumption DEF Team, SocketOffset
-----------------------------------------------------------------------------
(* Induction over the natural numbers, for facts about sums and sequences: *)
(* the set of the numbers a fact holds for is all of them.                 *)

\* A set of numbers has a least one.
LEMMA LeastNumber ==
    ASSUME NEW T \in SUBSET Nat, T # {}
    PROVE  \E n \in T : \A m \in T : n <= m
<1> DEFINE R == OpToRel(<, Nat)
<1>1. IsWellFoundedOn(R, Nat)
  BY NatLessThanWellFounded
<1>2. \A x, y \in Nat : <<x, y>> \in R <=> x < y
  BY DEF OpToRel
<1> HIDE DEF R
<1>3. PICK x \in T : \A y \in T : ~(<<y, x>> \in R)
  BY <1>1, WFMin
<1>4. ASSUME NEW m \in T PROVE x <= m
  <2>1. x \in Nat /\ m \in Nat
    OBVIOUS
  <2>2. ~(m < x)
    BY <1>2, <1>3, <2>1
  <2> QED
    BY <2>1, <2>2
<1> QED
  BY <1>4

\* A set that has 0, and n + 1 with every n, has all natural numbers.
LEMMA Induction ==
    ASSUME NEW S, 0 \in S, \A n \in Nat : n \in S => n + 1 \in S
    PROVE  Nat \subseteq S
<1> SUFFICES ASSUME Nat \ S # {} PROVE FALSE
  OBVIOUS
<1>1. PICK n \in Nat \ S : \A m \in Nat \ S : n <= m
  <2>1. (Nat \ S) \in SUBSET Nat
    OBVIOUS
  <2> QED
    BY <2>1, LeastNumber
<1>2. n # 0 /\ n - 1 \in Nat /\ (n - 1) + 1 = n
  BY <1>1
<1>3. n - 1 \in S
  BY <1>1, <1>2
<1> QED
  BY <1>1, <1>2, <1>3
-----------------------------------------------------------------------------
(* Powers of two.                                                          *)

\* The recursion has a solution.
LEMMA TwoToIs == TwoTo = [n \in Nat |-> IF n = 0 THEN 1 ELSE 2 * TwoTo[n - 1]]
<1> DEFINE Is(f, m) == f = [n \in 0 .. m |-> IF n = 0 THEN 1 ELSE 2 * f[n - 1]]
           Exists == {m \in Nat : \E f : Is(f, m)}
           Agree  == {m \in Nat : \A k \in Nat : \A f, h : k >= m /\ Is(f, m) /\ Is(h, k) => f[m] = h[m]}
           upTo(m) == CHOOSE f : Is(f, m)
           whole == [m \in Nat |-> upTo(m)[m]]
<1>1. Nat \subseteq Exists
  <2>1. 0 \in Exists
    <3> DEFINE g == [n \in 0 .. 0 |-> 1]
    <3>1. Is(g, 0)
      OBVIOUS
    <3> HIDE DEF g, Is
    <3>2. \E f : Is(f, 0)
      BY <3>1
    <3> QED
      BY <3>2
  <2>2. ASSUME NEW m \in Nat, m \in Exists PROVE m + 1 \in Exists
    <3>1. PICK f : Is(f, m)
      BY <2>2
    <3> DEFINE g == [n \in 0 .. m + 1 |-> IF n = 0 THEN 1 ELSE 2 * f[n - 1]]
    <3>2. \A n \in 0 .. m : f[n] = IF n = 0 THEN 1 ELSE 2 * f[n - 1]
      BY <3>1, Zenon
    <3>3. \A n \in 0 .. m : g[n] = f[n]
      BY <3>2
    <3>4. \A n \in 0 .. m + 1 : g[n] = IF n = 0 THEN 1 ELSE 2 * g[n - 1]
      <4>1. \A n \in 0 .. m + 1 : n # 0 => n - 1 \in 0 .. m
        OBVIOUS
      <4>2. \A n \in 0 .. m + 1 : n # 0 => g[n - 1] = f[n - 1]
        BY <3>3, <4>1
      <4> QED
        BY <4>2
    <3>5. Is(g, m + 1)
      BY <3>4
    <3> HIDE DEF g, Is
    <3>6. \E h : Is(h, m + 1)
      BY <3>5
    <3> QED
      BY <3>6
  <2> HIDE DEF Exists
  <2> QED
    BY <2>1, <2>2, Induction
<1>2. \A m \in Nat : Is(upTo(m), m)
  BY <1>1, Zenon
<1>3. \A m \in Nat : \A f : Is(f, m) => \A n \in 0 .. m : f[n] = IF n = 0 THEN 1 ELSE 2 * f[n - 1]
  BY Zenon
<1> HIDE DEF upTo, Is
<1>4. Nat \subseteq Agree
  <2>1. 0 \in Agree
    BY <1>3
  <2>2. ASSUME NEW m \in Nat, m \in Agree PROVE m + 1 \in Agree
    <3> SUFFICES ASSUME NEW k \in Nat, NEW f, NEW h, k >= m + 1, Is(f, m + 1), Is(h, k)
                 PROVE  f[m + 1] = h[m + 1]
      OBVIOUS
    <3>1. f[m + 1] = 2 * f[m] /\ h[m + 1] = 2 * h[m]
      <4>1. m + 1 \in 0 .. m + 1 /\ m + 1 \in 0 .. k /\ m + 1 # 0 /\ (m + 1) - 1 = m
        OBVIOUS
      <4> QED
        BY <1>3, <4>1
    <3>2. PICK e : Is(e, m)
      BY <1>1
    <3>3. f[m] = e[m] /\ h[m] = e[m]
      BY <2>2, <3>2
    <3> QED
      BY <3>1, <3>3
  <2> HIDE DEF Agree
  <2> QED
    BY <2>1, <2>2, Induction
<1>5. whole = [n \in Nat |-> IF n = 0 THEN 1 ELSE 2 * whole[n - 1]]
  <2>1. ASSUME NEW n \in Nat PROVE whole[n] = IF n = 0 THEN 1 ELSE 2 * whole[n - 1]
    <3>1. CASE n = 0
      BY <1>2, <1>3, <3>1
    <3>2. CASE n # 0
      <4>1. n - 1 \in Nat /\ n >= n - 1 /\ n \in 0 .. n
        BY <3>2
      <4>2. upTo(n)[n] = 2 * upTo(n)[n - 1]
        BY <1>2, <1>3, <3>2, <4>1
      <4>3. upTo(n)[n - 1] = upTo(n - 1)[n - 1]
        BY <1>2, <1>4, <4>1
      <4> QED
        BY <3>2, <4>1, <4>2, <4>3
    <3> QED
      BY <3>1, <3>2
  <2> HIDE DEF whole
  <2>2. whole = [n \in Nat |-> whole[n]]
    BY DEF whole
  <2> QED
    BY <2>1, <2>2
<1> HIDE DEF whole
<1>6. \E f : f = [n \in Nat |-> IF n = 0 THEN 1 ELSE 2 * f[n - 1]]
  BY <1>5
<1> QED
  BY <1>6, Zenon DEF TwoTo

LEMMA TwoToStep == TwoTo[0] = 1 /\ \A n \in Nat : TwoTo[n + 1] = 2 * TwoTo[n]
<1>1. \A n \in Nat : TwoTo[n] = IF n = 0 THEN 1 ELSE 2 * TwoTo[n - 1]
  BY TwoToIs, Zenon
<1>2. ASSUME NEW n \in Nat PROVE TwoTo[n + 1] = 2 * TwoTo[n]
  <2>1. n + 1 \in Nat /\ n + 1 # 0 /\ (n + 1) - 1 = n
    OBVIOUS
  <2> QED
    BY <1>1, <2>1
<1> QED
  BY <1>1, <1>2

\* A power of two is greater than its exponent.
LEMMA TwoToType == \A n \in Nat : TwoTo[n] \in Nat /\ TwoTo[n] > n
<1> DEFINE S == {n \in Nat : TwoTo[n] \in Nat /\ TwoTo[n] > n}
<1>1. 0 \in S
  BY TwoToStep
<1>2. ASSUME NEW n \in Nat, n \in S PROVE n + 1 \in S
  BY <1>2, TwoToStep
<1> HIDE DEF S
<1>3. Nat \subseteq S
  BY <1>1, <1>2, Induction
<1> QED
  BY <1>3 DEF S

LEMMA TwoToSum == \A m, n \in Nat : TwoTo[m + n] = TwoTo[m] * TwoTo[n]
<1> SUFFICES ASSUME NEW m \in Nat PROVE \A n \in Nat : TwoTo[m + n] = TwoTo[m] * TwoTo[n]
  OBVIOUS
<1> DEFINE S == {n \in Nat : TwoTo[m + n] = TwoTo[m] * TwoTo[n]}
<1>1. 0 \in S
  BY TwoToStep, TwoToType
<1>2. ASSUME NEW n \in Nat, n \in S PROVE n + 1 \in S
  <2> DEFINE a == TwoTo[m]
             b == TwoTo[n]
  <2>1. a \in Nat /\ b \in Nat /\ TwoTo[m + n] = a * b
    BY <1>2, TwoToType
  <2>2. TwoTo[n + 1] = 2 * b /\ TwoTo[m + (n + 1)] = 2 * TwoTo[m + n]
    <3>1. m + n \in Nat /\ m + (n + 1) = (m + n) + 1
      OBVIOUS
    <3> QED
      BY <3>1, TwoToStep
  <2> HIDE DEF a, b
  <2>3. 2 * (a * b) = a * (2 * b)
    BY <2>1, Z3
  <2> QED
    BY <2>1, <2>2, <2>3 DEF a
<1> HIDE DEF S
<1>3. Nat \subseteq S
  BY <1>1, <1>2, Induction
<1> QED
  BY <1>3 DEF S
-----------------------------------------------------------------------------
(* Sums.                                                                   *)

\* The recursion has a solution.
LEMMA SumStep ==
    ASSUME NEW a
    PROVE  Sum(a, 0) = 0 /\ \A n \in Nat : Sum(a, n + 1) = Sum(a, n) + a[n]
<1> DEFINE Is(h, m) == h = [k \in 0 .. m |-> IF k = 0 THEN 0 ELSE h[k - 1] + a[k - 1]]
           Exists == {m \in Nat : \E h : Is(h, m)}
           Agree  == {m \in Nat : \A k \in Nat : \A h, e : k >= m /\ Is(h, m) /\ Is(e, k) => h[m] = e[m]}
           upTo(m) == CHOOSE h : Is(h, m)
           whole == [m \in Nat |-> upTo(m)[m]]
           s == CHOOSE h : h = [k \in Nat |-> IF k = 0 THEN 0 ELSE h[k - 1] + a[k - 1]]
<1>1. Nat \subseteq Exists
  <2>1. 0 \in Exists
    <3> DEFINE h == [k \in 0 .. 0 |-> 0]
    <3>1. Is(h, 0)
      OBVIOUS
    <3> HIDE DEF h, Is
    <3>2. \E e : Is(e, 0)
      BY <3>1
    <3> QED
      BY <3>2
  <2>2. ASSUME NEW m \in Nat, m \in Exists PROVE m + 1 \in Exists
    <3>1. PICK h : Is(h, m)
      BY <2>2
    <3> DEFINE e == [k \in 0 .. m + 1 |-> IF k = 0 THEN 0 ELSE h[k - 1] + a[k - 1]]
    <3>2. \A k \in 0 .. m : h[k] = IF k = 0 THEN 0 ELSE h[k - 1] + a[k - 1]
      BY <3>1, Zenon
    <3>3. \A k \in 0 .. m : e[k] = h[k]
      BY <3>2
    <3>4. \A k \in 0 .. m + 1 : e[k] = IF k = 0 THEN 0 ELSE e[k - 1] + a[k - 1]
      <4>1. \A k \in 0 .. m + 1 : k # 0 => k - 1 \in 0 .. m
        OBVIOUS
      <4>2. \A k \in 0 .. m + 1 : k # 0 => e[k - 1] = h[k - 1]
        BY <3>3, <4>1
      <4> QED
        BY <4>2
    <3>5. Is(e, m + 1)
      BY <3>4
    <3> HIDE DEF e, Is
    <3>6. \E x : Is(x, m + 1)
      BY <3>5
    <3> QED
      BY <3>6
  <2> HIDE DEF Exists
  <2> QED
    BY <2>1, <2>2, Induction
<1>2. \A m \in Nat : Is(upTo(m), m)
  BY <1>1, Zenon
<1>3. \A m \in Nat : \A h : Is(h, m) => \A k \in 0 .. m : h[k] = IF k = 0 THEN 0 ELSE h[k - 1] + a[k - 1]
  BY Zenon
<1> HIDE DEF upTo, Is
<1>4. Nat \subseteq Agree
  <2>1. 0 \in Agree
    BY <1>3
  <2>2. ASSUME NEW m \in Nat, m \in Agree PROVE m + 1 \in Agree
    <3> SUFFICES ASSUME NEW k \in Nat, NEW h, NEW e, k >= m + 1, Is(h, m + 1), Is(e, k)
                 PROVE  h[m + 1] = e[m + 1]
      OBVIOUS
    <3>1. h[m + 1] = h[m] + a[m] /\ e[m + 1] = e[m] + a[m]
      <4>1. m + 1 \in 0 .. m + 1 /\ m + 1 \in 0 .. k /\ m + 1 # 0 /\ (m + 1) - 1 = m
        OBVIOUS
      <4> QED
        BY <1>3, <4>1
    <3>2. PICK x : Is(x, m)
      BY <1>1
    <3>3. h[m] = x[m] /\ e[m] = x[m]
      BY <2>2, <3>2
    <3> QED
      BY <3>1, <3>3
  <2> HIDE DEF Agree
  <2> QED
    BY <2>1, <2>2, Induction
<1>5. ASSUME NEW k \in Nat PROVE whole[k] = IF k = 0 THEN 0 ELSE whole[k - 1] + a[k - 1]
  <2>1. CASE k = 0
    BY <1>2, <1>3, <2>1
  <2>2. CASE k # 0
    <3>1. k - 1 \in Nat /\ k >= k - 1 /\ k \in 0 .. k
      BY <2>2
    <3>2. upTo(k)[k] = upTo(k)[k - 1] + a[k - 1]
      BY <1>2, <1>3, <2>2, <3>1
    <3>3. upTo(k)[k - 1] = upTo(k - 1)[k - 1]
      BY <1>2, <1>4, <3>1
    <3> QED
      BY <2>2, <3>1, <3>2, <3>3
  <2> QED
    BY <2>1, <2>2
<1>6. whole = [k \in Nat |-> whole[k]]
  OBVIOUS
<1> HIDE DEF whole
<1>7. whole = [k \in Nat |-> IF k = 0 THEN 0 ELSE whole[k - 1] + a[k - 1]]
  BY <1>5, <1>6
<1>8. \E h : h = [k \in Nat |-> IF k = 0 THEN 0 ELSE h[k - 1] + a[k - 1]]
  BY <1>7
<1>9. s = [k \in Nat |-> IF k = 0 THEN 0 ELSE s[k - 1] + a[k - 1]]
  BY <1>8, Zenon
<1>10. \A n : Sum(a, n) = s[n]
  BY DEF Sum
<1> HIDE DEF s
<1>11. \A k \in Nat : s[k] = IF k = 0 THEN 0 ELSE s[k - 1] + a[k - 1]
  BY <1>9, Zenon
<1>12. ASSUME NEW n \in Nat PROVE s[n + 1] = s[n] + a[n]
  <2>1. n + 1 \in Nat /\ n + 1 # 0 /\ (n + 1) - 1 = n
    OBVIOUS
  <2> QED
    BY <1>11, <2>1
<1> QED
  BY <1>10, <1>11, <1>12

\* A sum of natural numbers is one.
LEMMA SumType ==
    ASSUME NEW a, NEW n \in Nat, \A i \in 0 .. n - 1 : a[i] \in Nat
    PROVE  Sum(a, n) \in Nat
<1> DEFINE S == {m \in Nat : m <= n => Sum(a, m) \in Nat}
<1>1. 0 \in S
  BY SumStep
<1>2. ASSUME NEW m \in Nat, m \in S PROVE m + 1 \in S
  <2> SUFFICES ASSUME m + 1 <= n PROVE Sum(a, m + 1) \in Nat
    OBVIOUS
  <2>1. Sum(a, m + 1) = Sum(a, m) + a[m] /\ m \in 0 .. n - 1
    BY SumStep
  <2> QED
    BY <1>2, <2>1
<1> HIDE DEF S
<1>3. Nat \subseteq S
  BY <1>1, <1>2, Induction
<1> QED
  BY <1>3 DEF S

\* It depends on no other values.
LEMMA SumSame ==
    ASSUME NEW a, NEW b, NEW n \in Nat, \A i \in 0 .. n - 1 : a[i] = b[i]
    PROVE  Sum(a, n) = Sum(b, n)
<1> DEFINE S == {m \in Nat : m <= n => Sum(a, m) = Sum(b, m)}
<1>1. 0 \in S
  BY SumStep
<1>2. ASSUME NEW m \in Nat, m \in S PROVE m + 1 \in S
  <2> SUFFICES ASSUME m + 1 <= n PROVE Sum(a, m + 1) = Sum(b, m + 1)
    OBVIOUS
  <2>1. /\ Sum(a, m + 1) = Sum(a, m) + a[m] /\ Sum(b, m + 1) = Sum(b, m) + b[m]
        /\ m \in 0 .. n - 1 /\ m <= n
    BY SumStep
  <2> QED
    BY <1>2, <2>1
<1> HIDE DEF S
<1>3. Nat \subseteq S
  BY <1>1, <1>2, Induction
<1> QED
  BY <1>3 DEF S
-----------------------------------------------------------------------------
\* A function on the first n numbers is a sequence of length n.
LEMMA FunctionIsSeq ==
    ASSUME NEW S, NEW n \in Nat, NEW q \in [1 .. n -> S]
    PROVE  q \in Seq(S) /\ Len(q) = n /\ DOMAIN q = 1 .. n
<1>1. q \in Seq(S)
  BY SeqDef, Zenon
<1> QED
  BY <1>1
=============================================================================
