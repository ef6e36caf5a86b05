----------------------------- MODULE DataInduction -----------------------------
(***************************************************************************)
(* Induction over the natural numbers as a statement about sets, which the *)
(* provers can use: an induction hypothesis P(n) is the set {n : P(n)}.    *)
(* It is what a recursive function needs to be unfolded and reasoned about. *)
(***************************************************************************)
EXTENDS Integers, FiniteSetsExt, WellFoundedInduction, FiniteSetTheorems, TLAPS

\* A set of numbers that has 0, and the successor of each of its numbers, has them all.
LEMMA SetInduction ==
    ASSUME NEW S, 0 \in S, \A n \in Nat : n \in S => n + 1 \in S
    PROVE  Nat \subseteq S
<1>. DEFINE T == {n \in Nat : n \notin S}
            R == OpToRel(<, Nat)
<1>1. SUFFICES ASSUME T # {} PROVE FALSE
  OBVIOUS
<1>2. IsWellFoundedOn(R, Nat)
  BY NatLessThanWellFounded, Zenon
<1>. HIDE DEF R
<1>3. \E x \in T : \A y \in T : ~ (<<y, x>> \in R)
  <2>1. T \subseteq Nat
    OBVIOUS
  <2>. HIDE DEF T
  <2>. QED  BY <1>1, <1>2, <2>1, WFMin, Zenon
<1>4. PICK x \in T : \A y \in T : ~ (<<y, x>> \in R)
  BY <1>3
<1>5. x \in Nat /\ x - 1 \in Nat /\ x - 1 < x /\ x - 1 \in T
  OBVIOUS
<1>6. <<x - 1, x>> \in R
  <2>. HIDE DEF T
  <2>. QED  BY <1>5, Zenon DEF OpToRel, R
<1>. QED  BY <1>4, <1>5, <1>6, Zenon

\* Every number has a quotient and a remainder, the ones that \div and % compute.
LEMMA Division ==
    ASSUME NEW n \in Nat, NEW l \in Nat, l > 0
    PROVE  \E q, r \in Nat : r < l /\ n = l * q + r /\ n \div l = q /\ n % l = r
<1>. DEFINE Splits(k) == \E q, r \in Nat : r < l /\ k = l * q + r
            S == {k \in Nat : Splits(k)}
<1>1. 0 \in S
  BY 0 = l * 0 + 0
<1>2. ASSUME NEW k \in Nat, k \in S
      PROVE  k + 1 \in S
  <2>1. PICK q, r \in Nat : r < l /\ k = l * q + r
    BY <1>2
  <2>2. CASE r + 1 < l
    <3>1. k + 1 = l * q + (r + 1) /\ r + 1 \in Nat
      BY <2>1
    <3>2. Splits(k + 1)
      BY <2>2, <3>1
    <3>. QED  BY <3>2
  <2>3. CASE r + 1 = l
    <3>. DEFINE p == q + 1
    <3>1. k + 1 = l * p + 0 /\ p \in Nat
      BY <2>1, <2>3
    <3>. HIDE DEF p
    <3>2. Splits(k + 1)
      BY <3>1
    <3>. QED  BY <3>2
  <2>. QED  BY <2>1, <2>2, <2>3
<1>. HIDE DEF S
<1>3. n \in S
  BY <1>1, <1>2, SetInduction
<1>4. PICK q, r \in Nat : r < l /\ n = l * q + r
  BY <1>3 DEF S
<1>5. n \div l = q
  BY <1>4
<1>6. n % l = r
  BY <1>4
<1>. QED  BY <1>4, <1>5, <1>6

\* A number without a remainder is a product, and conversely.
LEMMA Multiple ==
    ASSUME NEW n \in Nat, NEW l \in Nat, l > 0
    PROVE  n % l = 0 <=> \E q \in Nat : n = l * q
<1>1. ASSUME n % l = 0
      PROVE  \E q \in Nat : n = l * q
  BY <1>1, Division
<1>2. ASSUME NEW q \in Nat, n = l * q
      PROVE  n % l = 0
  BY <1>2, n = l * q + 0
<1>. QED  BY <1>1, <1>2

\* Two products of the same number are at least that number apart.
LEMMA Apart ==
    ASSUME NEW l \in Nat, l > 0, NEW x \in Nat, NEW y \in Nat, x % l = 0, y % l = 0, x < y
    PROVE  x + l <= y
<1>1. PICK p \in Nat : x = l * p
  BY Multiple
<1>2. PICK q \in Nat : y = l * q
  BY Multiple
<1>3. p + 1 <= q
  BY <1>1, <1>2
<1>4. l * (p + 1) <= l * q
  BY <1>3
<1>. QED  BY <1>1, <1>2, <1>4

\* A bounded set of numbers that has one has a greatest.
LEMMA MaxOfBounded ==
    ASSUME NEW n \in Nat, NEW T \in SUBSET (0..n), T # {}
    PROVE  Max(T) \in T /\ \A y \in T : y <= Max(T)
<1>. DEFINE Greatest(U) == \E x \in U : \A y \in U : x >= y
            S == {k \in Nat : \A U \in SUBSET (0..k) : U # {} => Greatest(U)}
<1>1. 0 \in S
  <2>1. ASSUME NEW U \in SUBSET (0..0), U # {}
        PROVE  Greatest(U)
    <3>1. \A y \in U : y \in 0..0
      BY <2>1
    <3>2. \A y \in 0..0 : y = 0
      OBVIOUS
    <3>3. \A y \in U : y = 0
      BY <3>1, <3>2
    <3>4. PICK x \in U : TRUE
      BY <2>1
    <3>. QED  BY <3>3, <3>4
  <2>. HIDE DEF Greatest
  <2>. QED  BY <2>1
<1>2. ASSUME NEW k \in Nat, k \in S
      PROVE  k + 1 \in S
  <2>1. ASSUME NEW U \in SUBSET (0..k + 1), U # {}
        PROVE  Greatest(U)
    <3>1. CASE k + 1 \in U
      BY <3>1
    <3>2. CASE k + 1 \notin U
      <4>1. U \in SUBSET (0..k)
        BY <3>2
      <4>. HIDE DEF Greatest
      <4>. QED  BY <1>2, <2>1, <4>1
    <3>. QED  BY <3>1, <3>2
  <2>. HIDE DEF Greatest
  <2>. QED  BY <2>1
<1>3. n \in S
  <2>. HIDE DEF S
  <2>. QED  BY <1>1, <1>2, SetInduction
<1>. QED  BY <1>3 DEF Max

\* Rules that give a value of V from the one before, and the functions over 0..n
\* that begin with v0 and follow them.
Rules(V, n) == [1..n -> [V -> V]]
Follows(g, V, v0, n, F) ==
  /\ g[0] = v0
  /\ \A i \in 1..n : g[i - 1] \in V => g[i] = F[i][g[i - 1]]

\* There is such a function.
LEMMA Recursion ==
    ASSUME NEW V, NEW v0 \in V, NEW n \in Nat, NEW F \in Rules(V, n)
    PROVE  \E g \in [0..n -> V] : Follows(g, V, v0, n, F)
<1>. DEFINE Upto(g, m) == /\ g \in [0..m -> V] /\ g[0] = v0
                          /\ \A i \in 1..m : g[i] = F[i][g[i - 1]]
            M == {m \in Nat : m <= n => \E g : Upto(g, m)}
<1>1. 0 \in M
  <2>1. Upto([i \in 0..0 |-> v0], 0)
    OBVIOUS
  <2>. HIDE DEF Upto
  <2>. QED  BY <2>1
<1>2. ASSUME NEW m \in Nat, m \in M
      PROVE  m + 1 \in M
  <2>. SUFFICES ASSUME m + 1 <= n
                PROVE  \E g : Upto(g, m + 1)
    OBVIOUS
  <2>1. PICK g : Upto(g, m)
    BY <1>2
  <2>. DEFINE x == F[m + 1][g[m]]
              h == [i \in 0..(m + 1) |-> IF i <= m THEN g[i] ELSE x]
  <2>2. g[m] \in V /\ m + 1 \in 1..n
    BY <2>1
  <2>3. x \in V
    <3>1. F[m + 1] \in [V -> V]
      BY <2>2 DEF Rules
    <3>. QED  BY <2>2, <3>1
  <2>. HIDE DEF x
  <2>4. h \in [0..(m + 1) -> V] /\ h[0] = v0
    BY <2>1, <2>3
  <2>5. ASSUME NEW i \in 1..(m + 1)
        PROVE  h[i] = F[i][h[i - 1]]
    <3>1. h[i - 1] = g[i - 1]
      OBVIOUS
    <3>2. CASE i <= m
      <4>1. h[i] = g[i] /\ i \in 1..m
        BY <3>2
      <4>. HIDE DEF h
      <4>. QED  BY <2>1, <3>1, <4>1
    <3>3. CASE i = m + 1
      <4>1. h[i] = x /\ i - 1 = m
        BY <3>3
      <4>. HIDE DEF h
      <4>. QED  BY <3>1, <3>3, <4>1 DEF x
    <3>. QED  BY <3>2, <3>3
  <2>6. Upto(h, m + 1)
    <3>. HIDE DEF h
    <3>. QED  BY <2>4, <2>5
  <2>. HIDE DEF Upto
  <2>. QED  BY <2>6
<1>3. n \in M
  <2>. HIDE DEF M
  <2>. QED  BY <1>1, <1>2, SetInduction
<1>. QED  BY <1>3 DEF Follows

\* All its values are in V.
LEMMA RecursionKeeps ==
    ASSUME NEW V, NEW v0 \in V, NEW n \in Nat, NEW F \in Rules(V, n), NEW g,
           Follows(g, V, v0, n, F)
    PROVE  \A i \in 0..n : g[i] \in V
<1>. DEFINE M == {i \in Nat : i <= n => g[i] \in V}
<1>1. 0 \in M
  BY DEF Follows
<1>2. ASSUME NEW i \in Nat, i \in M
      PROVE  i + 1 \in M
  <2>. SUFFICES ASSUME i + 1 <= n
                PROVE  g[i + 1] \in V
    OBVIOUS
  <2>1. g[i] \in V /\ i + 1 \in 1..n /\ (i + 1) - 1 = i
    BY <1>2
  <2>2. g[i + 1] = F[i + 1][g[i]]
    BY <2>1 DEF Follows
  <2>3. F[i + 1] \in [V -> V]
    BY <2>1 DEF Rules
  <2>. QED  BY <2>1, <2>2, <2>3
<1>. HIDE DEF M
<1>3. Nat \subseteq M
  BY <1>1, <1>2, SetInduction
<1>. QED  BY <1>3 DEF M

\* A set of natural numbers that has one has a least.
LEMMA MinOfNaturals ==
    ASSUME NEW T \in SUBSET Nat, T # {}
    PROVE  Min(T) \in T /\ \A y \in T : Min(T) <= y
<1>. DEFINE Above == {k \in Nat : \A y \in T : k <= y}
<1>1. PICK x \in T : TRUE
  OBVIOUS
<1>2. x + 1 \notin Above
  BY <1>1
<1>3. \E k \in Nat : k \in Above /\ k + 1 \notin Above
  <2>. SUFFICES ASSUME \A k \in Nat : k \in Above => k + 1 \in Above
                PROVE  FALSE
    OBVIOUS
  <2>1. 0 \in Above
    OBVIOUS
  <2>. HIDE DEF Above
  <2>2. Nat \subseteq Above
    BY <2>1, SetInduction
  <2>. QED  BY <1>1, <1>2, <2>2
<1>4. PICK k \in Nat : k \in Above /\ k + 1 \notin Above
  BY <1>3
<1>5. k \in T /\ \A y \in T : k <= y
  BY <1>4
<1>. QED  BY <1>5 DEF Min

\* A finite set of integers that has one has a greatest and a least.
LEMMA FiniteExtrema ==
    ASSUME NEW T \in SUBSET Int, IsFiniteSet(T), T # {}
    PROVE  /\ Max(T) \in T /\ \A y \in T : y <= Max(T)
           /\ Min(T) \in T /\ \A y \in T : Min(T) <= y
<1>. DEFINE Extrema(U) == /\ \E x \in U : \A y \in U : x >= y
                          /\ \E x \in U : \A y \in U : x <= y
            Small(U, k) == U \in SUBSET Int /\ IsFiniteSet(U) /\ Cardinality(U) = k
            S == {k \in Nat : \A U : Small(U, k) /\ U # {} => Extrema(U)}
<1>1. 0 \in S
  BY FS_EmptySet
<1>2. ASSUME NEW k \in Nat, k \in S
      PROVE  k + 1 \in S
  <2>1. ASSUME NEW U, Small(U, k + 1), U # {}
        PROVE  Extrema(U)
    <3>1. PICK x \in U : TRUE
      BY <2>1
    <3>. DEFINE W == U \ {x}
    <3>2. Small(W, k)
      BY <2>1, <3>1, FS_RemoveElement
    <3>3. CASE W = {}
      <4>1. U = {x} /\ x \in Int
        BY <2>1, <3>3
      <4>. QED  BY <4>1
    <3>4. CASE W # {}
      <4>1. Extrema(W)
        <5>. HIDE DEF W, Extrema, Small
        <5>. QED  BY <1>2, <3>2, <3>4
      <4>2. PICK m \in W : \A y \in W : m >= y
        BY <4>1
      <4>3. PICK l \in W : \A y \in W : l <= y
        BY <4>1
      <4>4. x \in Int /\ m \in Int /\ l \in Int /\ m \in U /\ l \in U
            /\ \A y \in U : y \in Int /\ (y = x \/ (m >= y /\ l <= y))
        BY <2>1, <4>2, <4>3
      <4>5. \E z \in U : \A y \in U : z >= y
        <5>. HIDE DEF W
        <5>1. CASE x >= m
          BY <4>4, <5>1
        <5>2. CASE ~(x >= m)
          BY <4>4, <5>2
        <5>. QED  BY <5>1, <5>2
      <4>6. \E z \in U : \A y \in U : z <= y
        <5>. HIDE DEF W
        <5>1. CASE x <= l
          BY <4>4, <5>1
        <5>2. CASE ~(x <= l)
          BY <4>4, <5>2
        <5>. QED  BY <5>1, <5>2
      <4>. QED  BY <4>5, <4>6
    <3>. QED  BY <3>3, <3>4
  <2>. HIDE DEF Extrema, Small
  <2>. QED  BY <2>1
<1>3. Cardinality(T) \in Nat
  BY FS_CardinalityType
<1>4. Cardinality(T) \in S
  <2>. HIDE DEF S
  <2>. QED  BY <1>1, <1>2, <1>3, SetInduction
<1>5. Extrema(T)
  <2>1. Small(T, Cardinality(T))
    OBVIOUS
  <2>. HIDE DEF Extrema, Small
  <2>. QED  BY <1>4, <2>1
<1>. QED  BY <1>5 DEF Max, Min

\* The greatest and the least of two numbers.
LEMMA ExtremaOfTwo ==
    ASSUME NEW a \in Int, NEW b \in Int
    PROVE  /\ Max({a, b}) = IF a >= b THEN a ELSE b
           /\ Min({a, b}) = IF a <= b THEN a ELSE b
BY DEF Max, Min
=============================================================================
