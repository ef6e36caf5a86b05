--------------------------- MODULE BacktestProofs ---------------------------
(***************************************************************************)
(* Proofs about Backtest and the engines it replays, for every admitted    *)
(* data set, every configuration and runs of any length: the clock only    *)
(* moves on and the candles are those of the data set, every object of the *)
(* state has its shape, the fate of a level or a zone is what the candles  *)
(* since its confirmation say, a decision depends on nothing the clock had *)
(* not made visible, the trades are ones that could have been made, a      *)
(* longer run revises only trades that a pending plan stands in the way    *)
(* of, and every break of structure is earned by closed candles.           *)
(***************************************************************************)
EXTENDS Backtest, DataInduction, FiniteSetTheorems, TLAPS

-----------------------------------------------------------------------------
(* Sequences *)

\* The elements of a sequence (SequencesExt's ToSet).
LEMMA ToSetOf ==
    ASSUME NEW T, NEW s \in Seq(T)
    PROVE  /\ Len(s) \in Nat /\ DOMAIN s = 1..Len(s)
           /\ ToSet(s) = {s[i] : i \in 1..Len(s)} /\ ToSet(s) \subseteq T
           /\ \A i \in 1..Len(s) : s[i] \in ToSet(s)
BY DEF ToSet

\* A concatenation has the elements of both sequences.
LEMMA ConcatIs ==
    ASSUME NEW T, NEW s \in Seq(T), NEW t \in Seq(T)
    PROVE  /\ s \o t \in Seq(T)
           /\ ToSet(s \o t) = ToSet(s) \cup ToSet(t)
<1>. DEFINE u == s \o t
<1>1. /\ u \in Seq(T) /\ Len(u) = Len(s) + Len(t) /\ Len(s) \in Nat /\ Len(t) \in Nat
      /\ \A i \in 1..Len(u) : u[i] = IF i <= Len(s) THEN s[i] ELSE t[i - Len(s)]
  OBVIOUS
<1>. HIDE DEF u
<1>2. /\ ToSet(u) = {u[i] : i \in 1..Len(u)} /\ ToSet(s) = {s[i] : i \in 1..Len(s)}
      /\ ToSet(t) = {t[i] : i \in 1..Len(t)}
  BY <1>1, ToSetOf
<1>3. \A i \in 1..Len(u) : u[i] \in ToSet(s) \cup ToSet(t)
  BY <1>1, <1>2
<1>4. \A i \in 1..Len(s) : s[i] \in ToSet(u)
  <2>1. \A i \in 1..Len(s) : i \in 1..Len(u) /\ u[i] = s[i]
    BY <1>1
  <2>. QED  BY <1>2, <2>1
<1>5. \A i \in 1..Len(t) : t[i] \in ToSet(u)
  <2>1. ASSUME NEW i \in 1..Len(t)
        PROVE  t[i] \in ToSet(u)
    <3>1. PICK j \in 1..Len(u) : j = Len(s) + i
      BY <1>1
    <3>2. ~(j <= Len(s)) /\ j - Len(s) = i
      BY <1>1, <3>1
    <3>3. u[j] = t[i]
      BY <1>1, <3>2
    <3>. QED  BY <1>2, <3>3
  <2>. QED  BY <2>1
<1>6. ToSet(u) = ToSet(s) \cup ToSet(t)
  BY <1>2, <1>3, <1>4, <1>5
<1>. QED  BY <1>1, <1>6 DEF u

\* An appended element comes last and the others stay where they are.
LEMMA AppendIs ==
    ASSUME NEW T, NEW s \in Seq(T), NEW x \in T
    PROVE  /\ Append(s, x) \in Seq(T) /\ Append(s, x) # <<>>
           /\ Len(Append(s, x)) = Len(s) + 1 /\ Len(s) \in Nat
           /\ Append(s, x)[Len(s) + 1] = x
           /\ \A i \in 1..Len(s) : Append(s, x)[i] = s[i]
           /\ ToSet(Append(s, x)) = ToSet(s) \cup {x}
           /\ Last(Append(s, x)) = x
<1>. DEFINE u == Append(s, x)
<1>1. /\ u \in Seq(T) /\ Len(u) = Len(s) + 1 /\ Len(s) \in Nat /\ u[Len(u)] = x
      /\ \A i \in 1..Len(s) : u[i] = s[i]
  OBVIOUS
<1>. HIDE DEF u
<1>2. \A i \in 1..Len(u) : u[i] \in ToSet(s) \cup {x}
  BY <1>1, ToSetOf
<1>3. \A i \in 1..Len(s) : s[i] \in ToSet(u)
  BY <1>1, ToSetOf
<1>4. x \in ToSet(u)
  BY <1>1, ToSetOf
<1>5. ToSet(u) = ToSet(s) \cup {x}
  BY <1>1, <1>2, <1>3, <1>4, ToSetOf
<1>6. u # <<>>
  BY <1>1
<1>. QED  BY <1>1, <1>5, <1>6 DEF u, Last

\* The cap on kept objects (engine.py _cap) leaves a suffix: every element kept
\* is one of before, the same distance from the end.
LEMMA LastNIs ==
    ASSUME NEW T, NEW s \in Seq(T), NEW n \in Nat
    PROVE  /\ LastN(s, n) \in Seq(T)
           /\ ToSet(LastN(s, n)) \subseteq ToSet(s)
           /\ Len(LastN(s, n)) = IF Len(s) > n THEN n ELSE Len(s)
           /\ \A i \in 1..Len(LastN(s, n)) :
                LastN(s, n)[i] = s[i + Len(s) - Len(LastN(s, n))]
<1>. DEFINE u == LastN(s, n)
            k == Len(s) - Len(u)
<1>1. /\ u \in Seq(T) /\ Len(s) \in Nat /\ Len(u) = IF Len(s) > n THEN n ELSE Len(s)
      /\ \A i \in 1..Len(u) : u[i] = s[i + k] /\ i + k \in 1..Len(s)
  <2>1. CASE Len(s) > n
    BY <2>1 DEF LastN
  <2>2. CASE ~(Len(s) > n)
    BY <2>2 DEF LastN
  <2>. QED  BY <2>1, <2>2
<1>. HIDE DEF u
<1>2. ToSet(u) \subseteq ToSet(s)
  BY <1>1, ToSetOf
<1>. QED  BY <1>1, <1>2 DEF u

\* LastIn is the last element of a sequence that lies in a set, if one does.
LEMMA LastInIs ==
    ASSUME NEW T, NEW s \in Seq(T), NEW S
    PROVE  \/ LastIn(s, S) = Nothing /\ ToSet(s) \cap S = {}
           \/ \E i \in 1..Len(s) : /\ LastIn(s, S) = s[i] /\ s[i] \in S /\ s[i] \in ToSet(s)
                                   /\ \A j \in i + 1..Len(s) : s[j] \notin S
<1>. DEFINE is == {i \in 1..Len(s) : s[i] \in S}
<1>1. Len(s) \in Nat /\ is \in SUBSET (0..Len(s))
  OBVIOUS
<1>2. CASE is = {}
  <2>1. LastIn(s, S) = Nothing
    BY <1>2 DEF LastIn
  <2>2. ToSet(s) \cap S = {}
    BY <1>2, ToSetOf
  <2>. QED  BY <2>1, <2>2
<1>3. CASE is # {}
  <2>1. Max(is) \in is /\ \A y \in is : y <= Max(is)
    <3>. HIDE DEF is
    <3>. QED  BY <1>1, <1>3, MaxOfBounded
  <2>2. LastIn(s, S) = s[Max(is)]
    BY <1>3 DEF LastIn
  <2>3. \A j \in Max(is) + 1..Len(s) : s[j] \notin S
    BY <2>1
  <2>. QED  BY <2>1, <2>2, <2>3, ToSetOf
<1>. QED  BY <1>2, <1>3

\* The recursive function that Only is defined by.
LEMMA OnlyUnfolds ==
    ASSUME NEW T, NEW s \in Seq(T), NEW S
    PROVE  \E kept :
             /\ kept[0] = <<>> /\ Only(s, S) = kept[Len(s)]
             /\ \A n \in 0..Len(s) : kept[n] \in Seq(T)
             /\ \A n \in 1..Len(s) :
                  kept[n] = IF s[n] \in S THEN Append(kept[n - 1], s[n]) ELSE kept[n - 1]
<1>. DEFINE Step(n, k) == IF s[n] \in S THEN Append(k, s[n]) ELSE k
            Rule(g, n) == IF n = 0 THEN <<>> ELSE Step(n, g[n - 1])
            F == [i \in 1..Len(s) |-> [k \in Seq(T) |-> Step(i, k)]]
            Upto(g) == g = [n \in 0..Len(s) |-> Rule(g, n)]
            kept == CHOOSE g : Upto(g)
<1>1. F \in Rules(Seq(T), Len(s)) /\ <<>> \in Seq(T) /\ Len(s) \in Nat
  BY DEF Rules
<1>2. \A i \in 1..Len(s), k \in Seq(T) : F[i][k] = Step(i, k)
  OBVIOUS
<1>. HIDE DEF F
<1>3. PICK g \in [0..Len(s) -> Seq(T)] : Follows(g, Seq(T), <<>>, Len(s), F)
  BY <1>1, Recursion
<1>4. \A n \in 0..Len(s) : g[n] = Rule(g, n)
  <2>1. \A i \in 1..Len(s) : i - 1 \in 0..Len(s)
    BY <1>1
  <2>. HIDE DEF Step
  <2>. QED  BY <1>1, <1>2, <1>3, <2>1 DEF Follows
<1>5. Upto(g)
  <2>. HIDE DEF Rule
  <2>. QED  BY <1>4
<1>6. Upto(kept)
  <2>. HIDE DEF Upto
  <2>. QED  BY <1>5
<1>7. Only(s, S) = kept[Len(s)]
  BY DEF Only
<1>. HIDE DEF kept
<1>8. \A n \in 0..Len(s) : kept[n] = Rule(kept, n)
  <2>. HIDE DEF Rule
  <2>. QED  BY <1>6
<1>9. kept[0] = <<>> /\ \A i \in 1..Len(s) : kept[i] = Step(i, kept[i - 1])
  <2>. HIDE DEF Step
  <2>. QED  BY <1>1, <1>8
<1>10. Follows(kept, Seq(T), <<>>, Len(s), F)
  <2>. HIDE DEF Step
  <2>. QED  BY <1>2, <1>9 DEF Follows
<1>11. \A n \in 0..Len(s) : kept[n] \in Seq(T)
  BY <1>1, <1>10, RecursionKeeps
<1>. QED  BY <1>7, <1>9, <1>11

\* Only keeps the elements of a set, all of them and no other.
LEMMA OnlyKeeps ==
    ASSUME NEW T, NEW s \in Seq(T), NEW S
    PROVE  /\ Only(s, S) \in Seq(T)
           /\ ToSet(Only(s, S)) = ToSet(s) \cap S
<1>1. PICK kept : /\ kept[0] = <<>> /\ Only(s, S) = kept[Len(s)]
                  /\ \A n \in 0..Len(s) : kept[n] \in Seq(T)
                  /\ \A n \in 1..Len(s) :
                       kept[n] = IF s[n] \in S THEN Append(kept[n - 1], s[n]) ELSE kept[n - 1]
  BY OnlyUnfolds
<1>. DEFINE Good(n) == ToSet(kept[n]) = {s[i] : i \in 1..n} \cap S
            M == {n \in Nat : n <= Len(s) => Good(n)}
<1>2. 0 \in M
  BY <1>1 DEF ToSet
<1>3. ASSUME NEW n \in Nat, n \in M
      PROVE  n + 1 \in M
  <2>. SUFFICES ASSUME n + 1 <= Len(s)
                PROVE  Good(n + 1)
    OBVIOUS
  <2>1. Good(n) /\ n \in 0..Len(s) /\ n + 1 \in 1..Len(s) /\ s[n + 1] \in T /\ (n + 1) - 1 = n
    BY <1>3, ToSetOf
  <2>2. {s[i] : i \in 1..n + 1} = {s[i] : i \in 1..n} \cup {s[n + 1]}
    OBVIOUS
  <2>3. kept[n + 1] = IF s[n + 1] \in S THEN Append(kept[n], s[n + 1]) ELSE kept[n]
    BY <1>1, <2>1
  <2>4. kept[n] \in Seq(T)
    BY <1>1, <2>1
  <2>5. CASE s[n + 1] \in S
    <3>1. ToSet(kept[n + 1]) = ToSet(kept[n]) \cup {s[n + 1]}
      BY <2>1, <2>3, <2>4, <2>5, AppendIs
    <3>. QED  BY <2>1, <2>2, <2>5, <3>1
  <2>6. CASE s[n + 1] \notin S
    BY <2>1, <2>2, <2>3, <2>6
  <2>. QED  BY <2>5, <2>6
<1>4. Len(s) \in M
  <2>. HIDE DEF M
  <2>. QED  BY <1>2, <1>3, SetInduction, ToSetOf
<1>. QED  BY <1>1, <1>4, ToSetOf

\* Flattening a sequence of sequences keeps all their elements.
LEMMA FlattenIs ==
    ASSUME NEW T, NEW ss \in Seq(Seq(T))
    PROVE  /\ FlattenSeq(ss) \in Seq(T)
           /\ ToSet(FlattenSeq(ss)) = UNION {ToSet(ss[i]) : i \in 1..Len(ss)}
<1>1. Len(ss) \in Nat /\ \A i \in 1..Len(ss) : ss[i] \in Seq(T)
  OBVIOUS
<1>2. CASE Len(ss) = 0
  <2>1. ss = <<>> /\ {ToSet(ss[i]) : i \in 1..Len(ss)} = {}
    BY <1>2
  <2>2. FlattenSeq(ss) = <<>>
    BY <1>2, <2>1 DEF FlattenSeq
  <2>3. ToSet(<<>>) = {}
    BY DEF ToSet
  <2>4. <<>> \in Seq(T) /\ UNION {} = {}
    OBVIOUS
  <2>. QED  BY <2>1, <2>2, <2>3, <2>4
<1>3. CASE Len(ss) # 0
  <2>. DEFINE F == [i \in 1..Len(ss) |-> [k \in Seq(T) |-> k \o ss[i]]]
              Rule(f, i) == IF i = 1 THEN ss[i] ELSE f[i - 1] \o ss[i]
              Upto(f) == f = [i \in 1..Len(ss) |-> Rule(f, i)]
              flat == CHOOSE f : Upto(f)
  <2>1. F \in Rules(Seq(T), Len(ss)) /\ <<>> \in Seq(T)
    BY <1>1 DEF Rules
  <2>2. \A i \in 1..Len(ss), k \in Seq(T) : F[i][k] = k \o ss[i]
    OBVIOUS
  <2>. HIDE DEF F
  <2>3. PICK g \in [0..Len(ss) -> Seq(T)] : Follows(g, Seq(T), <<>>, Len(ss), F)
    BY <1>1, <2>1, Recursion
  <2>4. \A i \in 1..Len(ss) : g[i - 1] \in Seq(T) /\ g[i] = g[i - 1] \o ss[i]
    <3>1. \A i \in 1..Len(ss) : i - 1 \in 0..Len(ss)
      BY <1>1
    <3>. QED  BY <2>2, <2>3, <3>1 DEF Follows
  <2>5. g[1] = ss[1]
    <3>1. 1 \in 1..Len(ss) /\ 1 - 1 = 0
      BY <1>1, <1>3
    <3>2. g[1] = <<>> \o ss[1]
      BY <2>3, <2>4, <3>1 DEF Follows
    <3>. QED  BY <1>1, <3>1, <3>2
  <2>. DEFINE h == [i \in 1..Len(ss) |-> g[i]]
  <2>6. \A i \in 1..Len(ss) : h[i] = Rule(h, i)
    <3>1. \A i \in 1..Len(ss) : i # 1 => h[i - 1] = g[i - 1]
      BY <1>1
    <3>. QED  BY <1>1, <2>4, <2>5, <3>1
  <2>7. Upto(h)
    <3>. HIDE DEF Rule
    <3>. QED  BY <2>6
  <2>8. Upto(flat)
    <3>. HIDE DEF Upto, h
    <3>. QED  BY <2>7
  <2>9. FlattenSeq(ss) = flat[Len(ss)]
    BY <1>3 DEF FlattenSeq
  <2>. HIDE DEF flat
  <2>10. \A i \in 1..Len(ss) : flat[i] = Rule(flat, i)
    <3>. HIDE DEF Rule
    <3>. QED  BY <2>8
  <2>. DEFINE Good(n) == /\ flat[n] \in Seq(T)
                         /\ ToSet(flat[n]) = UNION {ToSet(ss[i]) : i \in 1..n}
              M == {n \in Nat : 0 < n /\ n <= Len(ss) => Good(n)}
  <2>11. 0 \in M
    OBVIOUS
  <2>12. ASSUME NEW n \in Nat, n \in M
         PROVE  n + 1 \in M
    <3>. SUFFICES ASSUME n + 1 <= Len(ss)
                  PROVE  Good(n + 1)
      OBVIOUS
    <3>1. n + 1 \in 1..Len(ss) /\ (n + 1) - 1 = n
      BY <1>1
    <3>2. CASE n = 0
      <4>1. flat[n + 1] = ss[n + 1]
        BY <2>10, <3>1, <3>2
      <4>2. {ToSet(ss[i]) : i \in 1..n + 1} = {ToSet(ss[n + 1])}
        BY <3>2
      <4>. QED  BY <1>1, <3>1, <4>1, <4>2
    <3>3. CASE n # 0
      <4>1. Good(n)
        BY <2>12, <3>3
      <4>2. flat[n + 1] = flat[n] \o ss[n + 1]
        <5>1. n + 1 # 1
          BY <3>3
        <5>2. flat[n + 1] = Rule(flat, n + 1)
          BY <2>10, <3>1
        <5>. QED  BY <3>1, <5>1, <5>2
      <4>. DEFINE sets(k) == {ToSet(ss[i]) : i \in 1..k}
      <4>3. sets(n + 1) = sets(n) \cup {ToSet(ss[n + 1])}
        <5>1. \A i : i \in 1..n + 1 <=> i \in 1..n \/ i = n + 1
          OBVIOUS
        <5>. QED  BY <5>1
      <4>4. UNION sets(n + 1) = (UNION sets(n)) \cup ToSet(ss[n + 1])
        <5>. HIDE DEF sets
        <5>. QED  BY <4>3
      <4>5. flat[n + 1] \in Seq(T) /\ ToSet(flat[n + 1]) = ToSet(flat[n]) \cup ToSet(ss[n + 1])
        BY <1>1, <3>1, <4>1, <4>2, ConcatIs
      <4>. QED  BY <4>1, <4>4, <4>5
    <3>. QED  BY <3>2, <3>3
  <2>13. Len(ss) \in M
    <3>. HIDE DEF M
    <3>. QED  BY <1>1, <2>11, <2>12, SetInduction
  <2>. QED  BY <1>1, <1>3, <2>9, <2>13
<1>. QED  BY <1>2, <1>3

-----------------------------------------------------------------------------
(* The types of the engine *)

Candle ==
  {c \in [time : Nat, open : Price, high : Price, low : Price, close : Price] :
     /\ c.low <= c.open /\ c.low <= c.close
     /\ c.open <= c.high /\ c.close <= c.high}
PricedSwing == {s \in SwingPoint : s.price \in Price}
PricedLevel == {l \in LiquidityLevel : l.price \in Price}
PricedZone == {z \in Zone : z.low \in Price}
Group == [start : Nat, stop : Nat, first : Nat, high : Price, low : Price]

Engine ==
  [bars : Seq(Candle), swings : Seq(PricedSwing), events : Seq(StructureEvent),
   levels : Seq(PricedLevel), zones : Seq(PricedZone),
   latest : [ToSet(Sides) -> PricedSwing \cup {Nothing}],
   broken : [ToSet(Sides) -> PricedSwing \cup {Nothing}],
   trend : [ToSet(Scopes) -> Direction \cup {"UNKNOWN", "NEUTRAL"}],
   groups : [1..Len(Windows) -> Group \cup {Nothing}]]

\* What a candle adds is confirmed when it closes, and no candle has touched it.
FreshLevel(l, c) == l.confirmed = End(c) /\ l.status = "ACTIVE"
FreshZone(z, c) ==
  /\ z.confirmed = End(c) /\ z.fill = 0
  /\ z.status = IF z.kind \in {"FVG", "IFVG"} THEN "OPEN" ELSE "ACTIVE"

Grows(s, t, c) ==
  /\ t \in Engine /\ t.bars = s.bars
  /\ \A l \in ToSet(t.levels) : l \in ToSet(s.levels) \/ FreshLevel(l, c)
  /\ \A z \in ToSet(t.zones) : z \in ToSet(s.zones) \/ FreshZone(z, c)

\* A candle's prices are positive, and its body lies within its wicks.
LEMMA CandleTypes ==
    ASSUME NEW c \in Candle
    PROVE  /\ c.time \in Nat /\ End(c) \in Nat
           /\ c.open \in Price /\ c.high \in Price /\ c.low \in Price /\ c.close \in Price
           /\ c.open \in Nat /\ c.high \in Nat /\ c.low \in Nat /\ c.close \in Nat
           /\ c.low <= c.open /\ c.low <= c.close /\ c.open <= c.high /\ c.close <= c.high
           /\ c.low <= c.high
BY DEF Candle, Price, End

\* What analysis/domain.py admits of the engine's numbers.
LEMMA Configured ==
    /\ Tol \in Nat /\ MinGap \in Nat \ {0} /\ Atr \in Nat \ {0} /\ AtrBars \in Nat
    /\ ObLookback \in Nat /\ MaxObjects \in Nat \ {0}
    /\ Windows \in Seq([name : STRING, every : Nat, from : Nat, to : Nat])
BY StructureAssumption DEF AnalysisConfig

\* The four sides the engine goes over.
LEMMA SidesAre ==
    /\ ToSet(Scopes) = {"INTERNAL", "EXTERNAL"}
    /\ ToSet(Sides) = {<<"INTERNAL", "HIGH">>, <<"INTERNAL", "LOW">>,
                       <<"EXTERNAL", "HIGH">>, <<"EXTERNAL", "LOW">>}
    /\ \A side \in ToSet(Sides) : side[1] \in ToSet(Scopes) /\ side[2] \in {"HIGH", "LOW"}
    /\ Sides[1] \in ToSet(Sides) /\ Sides[2] \in ToSet(Sides)
    /\ Sides[3] \in ToSet(Sides) /\ Sides[4] \in ToSet(Sides)
<1>1. ToSet(Scopes) = {"INTERNAL", "EXTERNAL"}
  BY DEF ToSet, Scopes
<1>2. ToSet(Sides) = {Sides[1], Sides[2], Sides[3], Sides[4]}
  <2>1. DOMAIN Sides = {1, 2, 3, 4}
    BY DEF Sides
  <2>. QED  BY <2>1 DEF ToSet
<1>3. /\ Sides[1] = <<"INTERNAL", "HIGH">> /\ Sides[2] = <<"INTERNAL", "LOW">>
      /\ Sides[3] = <<"EXTERNAL", "HIGH">> /\ Sides[4] = <<"EXTERNAL", "LOW">>
  BY DEF Sides
<1>. QED  BY <1>1, <1>2, <1>3

-----------------------------------------------------------------------------
(* Levels and zones *)

\* A level that is made (_level) is a level, and no candle has touched it yet.
LEMMA NewLevelIs ==
    ASSUME NEW c \in Candle,
           NEW kind \in {"BSL", "SSL", "EQH", "EQL"} \cup {w.name : w \in ToSet(Windows)},
           NEW side \in {"HIGH", "LOW"}, NEW price \in Price, NEW created \in Nat
    PROVE  /\ NewLevel(kind, side, price, created, End(c)) \in PricedLevel
           /\ FreshLevel(NewLevel(kind, side, price, created, End(c)), c)
BY CandleTypes DEF NewLevel, PricedLevel, LiquidityLevel, Price, FreshLevel

\* The fields of a level.
LEMMA LevelTypes ==
    ASSUME NEW l \in PricedLevel
    PROVE  /\ l.kind \in {"BSL", "SSL", "EQH", "EQL"} \cup {w.name : w \in ToSet(Windows)}
           /\ l.side \in {"HIGH", "LOW"} /\ l.price \in Price /\ l.price \in Nat
           /\ l.created \in Nat /\ l.confirmed \in Nat /\ l.sweep \in Int /\ l.ended \in Nat
           /\ l.status \in {"ACTIVE", "SWEPT", "INVALIDATED"}
BY DEF PricedLevel, LiquidityLevel, Price

\* A candle may end a level (_liquidity) but never moves it.
LEMMA LevelAfterIs ==
    ASSUME NEW l \in PricedLevel, NEW c \in Candle
    PROVE  LET k == LevelAfter(l, c)
           IN /\ k \in PricedLevel
              /\ k.side = l.side /\ k.price = l.price /\ k.confirmed = l.confirmed
<1>. DEFINE Same(k) == /\ k \in PricedLevel
                       /\ k.side = l.side /\ k.price = l.price /\ k.confirmed = l.confirmed
<1>1. \A e \in Nat, w \in Int : Same([l EXCEPT !.status = "SWEPT", !.ended = e, !.sweep = w])
  BY DEF PricedLevel, LiquidityLevel, Price
<1>2. \A e \in Nat : Same([l EXCEPT !.status = "INVALIDATED", !.ended = e])
  BY DEF PricedLevel, LiquidityLevel, Price
<1>. DEFINE w == IF l.side = "HIGH" THEN c.high ELSE c.low
<1>3. \/ LevelAfter(l, c) = l
      \/ LevelAfter(l, c) = [l EXCEPT !.status = "SWEPT", !.ended = End(c), !.sweep = w]
      \/ LevelAfter(l, c) = [l EXCEPT !.status = "INVALIDATED", !.ended = End(c)]
  BY SMT DEF LevelAfter
<1>4. w \in Int /\ End(c) \in Nat
  BY CandleTypes
<1>5. Same(l)
  OBVIOUS
<1>. HIDE DEF w, Same
<1>6. Same(LevelAfter(l, c))
  BY <1>1, <1>2, <1>3, <1>4, <1>5, Zenon
<1>. QED  BY <1>6 DEF Same

\* The fields of a zone.
LEMMA ZoneTypes ==
    ASSUME NEW z \in PricedZone
    PROVE  /\ z.kind \in {"FVG", "IFVG", "OB", "BREAKER"} /\ z.direction \in Direction
           /\ z.low \in Price /\ z.low \in Nat /\ z.high \in Nat /\ z.low < z.high
           /\ z.occurred \in Nat /\ z.confirmed \in Nat /\ z.ended \in Nat
           /\ z.fill \in Nat /\ z.fill <= z.high - z.low
           /\ z.status \in {"OPEN", "PARTIALLY_FILLED", "FILLED", "ACTIVE", "MITIGATED",
                            "INVALIDATED"}
BY DEF PricedZone, Zone, Price

\* A zone that is made (_zone) is a zone, and no candle has touched it yet.
LEMMA NewZoneIs ==
    ASSUME NEW c \in Candle, NEW kind \in {"FVG", "IFVG", "OB", "BREAKER"},
           NEW direction \in Direction, NEW low \in Price, NEW high \in Nat, low < high,
           NEW occurred \in Nat
    PROVE  /\ NewZone(kind, direction, low, high, occurred, End(c)) \in PricedZone
           /\ FreshZone(NewZone(kind, direction, low, high, occurred, End(c)), c)
BY CandleTypes DEF NewZone, PricedZone, Zone, Price, FreshZone

\* The fill of a gap is the deepest a candle has gone into it, within its height.
LEMMA FillIs ==
    ASSUME NEW z \in PricedZone, NEW c \in Candle
    PROVE  /\ Depth(z, c) \in Int
           /\ Fill(z, c) = LET deepest == IF z.fill >= Depth(z, c) THEN z.fill ELSE Depth(z, c)
                           IN IF z.high - z.low <= deepest THEN z.high - z.low ELSE deepest
           /\ Fill(z, c) \in Nat /\ Fill(z, c) <= z.high - z.low
<1>1. Depth(z, c) \in Int /\ z.fill \in Nat /\ z.high - z.low \in Nat
  BY CandleTypes, ZoneTypes DEF Depth
<1>2. Max({z.fill, Depth(z, c)}) = IF z.fill >= Depth(z, c) THEN z.fill ELSE Depth(z, c)
  BY <1>1, ExtremaOfTwo
<1>. DEFINE m == Max({z.fill, Depth(z, c)})
<1>3. m \in Nat
  BY <1>1, <1>2
<1>4. Min({z.high - z.low, m}) = IF z.high - z.low <= m THEN z.high - z.low ELSE m
  <2>. HIDE DEF m
  <2>1. \A h \in Nat : Min({h, m}) = IF h <= m THEN h ELSE m
    BY <1>3, ExtremaOfTwo
  <2>. QED  BY <1>1, <2>1, Zenon
<1>. QED  BY <1>1, <1>2, <1>3, <1>4 DEF Fill

\* A candle may fill or end a zone (_zones) but never moves it.
LEMMA ZoneAfterIs ==
    ASSUME NEW z \in PricedZone, NEW c \in Candle
    PROVE  LET y == ZoneAfter(z, c)
           IN /\ y \in PricedZone /\ y.kind = z.kind /\ y.direction = z.direction
              /\ y.low = z.low /\ y.high = z.high /\ y.confirmed = z.confirmed
<1>. DEFINE Same(y) == /\ y \in PricedZone /\ y.kind = z.kind /\ y.direction = z.direction
                       /\ y.low = z.low /\ y.high = z.high /\ y.confirmed = z.confirmed
<1>1. \A e \in Nat : Same([z EXCEPT !.status = "INVALIDATED", !.ended = e])
  BY DEF PricedZone, Zone, Price
<1>2. Same([z EXCEPT !.status = "MITIGATED"])
  BY DEF PricedZone, Zone, Price
<1>3. \A f \in Nat, e \in Nat : f <= z.high - z.low =>
        /\ Same([z EXCEPT !.status = "FILLED", !.fill = f, !.ended = e])
        /\ Same([z EXCEPT !.status = "PARTIALLY_FILLED", !.fill = f])
  BY DEF PricedZone, Zone, Price
<1>4. Same(z)
  OBVIOUS
<1>. HIDE DEF Same
<1>5. Same(ZoneAfter(z, c))
  BY <1>1, <1>2, <1>3, <1>4, CandleTypes, FillIs, Zenon DEF ZoneAfter
<1>. QED  BY <1>5 DEF Same

\* After a candle the zones are those of before, each one step older, and
\* the inversions of those it closed through.
LEMMA ZonesAfterIs ==
    ASSUME NEW zones \in Seq(PricedZone), NEW c \in Candle
    PROVE  /\ ZonesAfter(zones, c) \in Seq(PricedZone)
           /\ \A z \in ToSet(ZonesAfter(zones, c)) :
                \/ \E y \in ToSet(zones) : z = ZoneAfter(y, c)
                \/ FreshZone(z, c)
<1>. DEFINE Falls == {z \in ToSet(zones) : /\ z.kind \in {"FVG", "OB"} /\ ~ZoneIsOver(z)
                                          /\ z.confirmed <= c.time /\ ClosedThrough(z, c)}
            fallen == Only(zones, Falls)
            aged == [i \in 1..Len(zones) |-> ZoneAfter(zones[i], c)]
            turned == [i \in 1..Len(fallen) |-> Inversion(fallen[i], c)]
<1>1. ZonesAfter(zones, c) = aged \o turned
  BY DEF ZonesAfter
<1>2. aged \in Seq(PricedZone)
  BY ZoneAfterIs, ToSetOf
<1>3. fallen \in Seq(PricedZone)
  <2>. HIDE DEF Falls
  <2>. QED  BY OnlyKeeps
<1>. HIDE DEF fallen, Falls
<1>4. \A z \in PricedZone : Inversion(z, c) \in PricedZone /\ FreshZone(Inversion(z, c), c)
  <2>. SUFFICES ASSUME NEW z \in PricedZone
                PROVE  Inversion(z, c) \in PricedZone /\ FreshZone(Inversion(z, c), c)
    OBVIOUS
  <2>1. Opposite(z.direction) \in Direction
    BY ZoneTypes DEF Opposite, Direction
  <2>. QED  BY <2>1, ZoneTypes, CandleTypes, NewZoneIs DEF Inversion
<1>5. turned \in Seq(PricedZone)
  BY <1>3, <1>4, ToSetOf
<1>6. \A z \in ToSet(aged) : \E y \in ToSet(zones) : z = ZoneAfter(y, c)
  <2>1. DOMAIN aged = 1..Len(zones)
    OBVIOUS
  <2>. QED  BY <2>1, ToSetOf DEF ToSet
<1>7. \A z \in ToSet(turned) : FreshZone(z, c)
  <2>1. DOMAIN turned = 1..Len(fallen)
    OBVIOUS
  <2>. QED  BY <1>3, <1>4, <2>1, ToSetOf DEF ToSet
<1>. HIDE DEF aged, turned
<1>. QED  BY <1>1, <1>2, <1>5, <1>6, <1>7, ConcatIs

-----------------------------------------------------------------------------
(* The engine *)

\* The fields of the engine.
LEMMA EngineTypes ==
    ASSUME NEW s \in Engine
    PROVE  /\ s.bars \in Seq(Candle) /\ s.swings \in Seq(PricedSwing)
           /\ s.events \in Seq(StructureEvent) /\ s.levels \in Seq(PricedLevel)
           /\ s.zones \in Seq(PricedZone)
           /\ s.latest \in [ToSet(Sides) -> PricedSwing \cup {Nothing}]
           /\ s.broken \in [ToSet(Sides) -> PricedSwing \cup {Nothing}]
           /\ s.trend \in [ToSet(Scopes) -> Direction \cup {"UNKNOWN", "NEUTRAL"}]
           /\ s.groups \in [1..Len(Windows) -> Group \cup {Nothing}]
BY DEF Engine

\* Growing is reflexive and transitive.
LEMMA GrowsIs ==
    ASSUME NEW s \in Engine, NEW c
    PROVE  /\ Grows(s, s, c)
           /\ \A t, u : Grows(s, t, c) /\ Grows(t, u, c) => Grows(s, u, c)
BY DEF Grows

\* The first thing a candle does is to age the levels and the zones.
LEMMA LifecyclesIs ==
    ASSUME NEW s \in Engine, NEW c \in Candle
    PROVE  /\ Lifecycles(s, c) \in Engine /\ Lifecycles(s, c).bars = s.bars
           /\ \A l \in ToSet(Lifecycles(s, c).levels) :
                \E k \in ToSet(s.levels) : l = LevelAfter(k, c)
           /\ \A z \in ToSet(Lifecycles(s, c).zones) :
                \/ \E y \in ToSet(s.zones) : z = ZoneAfter(y, c)
                \/ FreshZone(z, c)
<1>. DEFINE aged == [i \in 1..Len(s.levels) |-> LevelAfter(s.levels[i], c)]
            zs == ZonesAfter(s.zones, c)
<1>1. Lifecycles(s, c) = [s EXCEPT !.levels = aged, !.zones = zs]
  BY DEF Lifecycles
<1>2. aged \in Seq(PricedLevel)
  BY EngineTypes, LevelAfterIs, ToSetOf
<1>3. \A l \in ToSet(aged) : \E k \in ToSet(s.levels) : l = LevelAfter(k, c)
  <2>1. ToSet(aged) = {aged[i] : i \in 1..Len(s.levels)}
    BY DEF ToSet
  <2>2. \A i \in 1..Len(s.levels) : s.levels[i] \in ToSet(s.levels)
    BY EngineTypes, ToSetOf
  <2>. QED  BY <2>1, <2>2
<1>4. /\ zs \in Seq(PricedZone)
      /\ \A z \in ToSet(zs) : \/ \E y \in ToSet(s.zones) : z = ZoneAfter(y, c)
                              \/ FreshZone(z, c)
  BY EngineTypes, ZonesAfterIs
<1>. HIDE DEF aged, zs
<1>5. Lifecycles(s, c) \in Engine
  BY <1>1, <1>2, <1>4 DEF Engine
<1>6. /\ Lifecycles(s, c).bars = s.bars /\ Lifecycles(s, c).levels = aged
      /\ Lifecycles(s, c).zones = zs
  BY <1>1 DEF Engine
<1>. QED  BY <1>3, <1>4, <1>5, <1>6

\* The order block of a break (_order_block) starts out untouched.
LEMMA OrderBlockIs ==
    ASSUME NEW s \in Engine, NEW c \in Candle, NEW direction \in Direction
    PROVE  /\ OrderBlock(s, c, direction) \in Seq(PricedZone)
           /\ \A z \in ToSet(OrderBlock(s, c, direction)) : FreshZone(z, c)
<1>. DEFINE recent == LastN(s.bars, ObLookback)
            origins == {i \in 1..Len(recent) :
                          /\ recent[i].high > recent[i].low
                          /\ IF direction = "BULLISH" THEN recent[i].close < recent[i].open
                                                      ELSE recent[i].close > recent[i].open}
            o == recent[Max(origins)]
            block == NewZone("OB", direction, o.low, o.high, o.time, End(c))
<1>1. \/ OrderBlock(s, c, direction) = <<>>
      \/ OrderBlock(s, c, direction) = <<block>> /\ origins # {}
  <2>. DEFINE there == \E z \in ToSet(s.zones) :
                         z.kind = "OB" /\ z.direction = direction /\ z.occurred = o.time
  <2>1. OrderBlock(s, c, direction)
          = IF origins = {} THEN <<>> ELSE IF there THEN <<>> ELSE <<block>>
    BY DEF OrderBlock
  <2>. HIDE DEF origins, there, block
  <2>. QED  BY <2>1
<1>2. recent \in Seq(Candle) /\ Len(recent) \in Nat
  BY EngineTypes, Configured, LastNIs, ToSetOf
<1>3. ToSet(<<>>) = {} /\ <<>> \in Seq(PricedZone)
  BY DEF ToSet
<1>4. CASE origins # {}
  <2>1. Max(origins) \in origins
    <3>1. origins \in SUBSET (0..Len(recent))
      BY <1>2
    <3>. HIDE DEF origins
    <3>. QED  BY <1>2, <1>4, <3>1, MaxOfBounded
  <2>2. o \in Candle /\ o.high > o.low
    <3>. HIDE DEF recent
    <3>. QED  BY <1>2, <2>1
  <2>. HIDE DEF o
  <2>3. block \in PricedZone /\ FreshZone(block, c)
    BY <2>2, CandleTypes, NewZoneIs
  <2>. HIDE DEF block
  <2>4. <<block>> \in Seq(PricedZone) /\ ToSet(<<block>>) = {block}
    BY <2>3 DEF ToSet
  <2>. QED  BY <1>1, <1>3, <2>3, <2>4
<1>5. CASE origins = {}
  BY <1>1, <1>3, <1>5
<1>. QED  BY <1>4, <1>5

\* A structure event is recorded, and possibly an order block.
EventOf(s, kind, side, direction, c, displaced) ==
  [kind |-> kind, scope |-> side[1], direction |-> direction, swing |-> s.latest[side],
   at |-> c.time, confirmed |-> End(c), displaced |-> displaced]

\* Recording an event (_event) appends it, and its order block if it has one.
LEMMA RecordIs ==
    ASSUME NEW s \in Engine, NEW c \in Candle, NEW side \in ToSet(Sides),
           NEW kind \in {"BOS", "CHOCH", "MSS"}, NEW direction \in Direction,
           NEW displaced \in BOOLEAN, s.latest[side] # Nothing
    PROVE  LET t == Record(s, kind, side, direction, c, displaced)
           IN /\ Grows(s, t, c)
              /\ t.events = Append(s.events, EventOf(s, kind, side, direction, c, displaced))
              /\ EventOf(s, kind, side, direction, c, displaced) \in StructureEvent
              /\ t.swings = s.swings /\ t.latest = s.latest /\ t.broken = s.broken
              /\ t.trend = s.trend
<1>. DEFINE e == EventOf(s, kind, side, direction, c, displaced)
            es == Append(s.events, e)
            ob == IF displaced /\ kind \in {"BOS", "MSS"} THEN OrderBlock(s, c, direction) ELSE <<>>
            zs == s.zones \o ob
            t == Record(s, kind, side, direction, c, displaced)
<1>1. t = [s EXCEPT !.events = es, !.zones = zs]
  BY DEF Record, EventOf
<1>2. e \in StructureEvent
  <2>1. s.latest[side] \in SwingPoint
    BY EngineTypes DEF PricedSwing
  <2>2. side[1] \in ToSet(Scopes)
    BY SidesAre
  <2>. QED  BY <2>1, <2>2, CandleTypes DEF EventOf, StructureEvent
<1>. HIDE DEF e
<1>3. es \in Seq(StructureEvent)
  BY <1>2, EngineTypes, AppendIs
<1>4. ob \in Seq(PricedZone) /\ \A z \in ToSet(ob) : FreshZone(z, c)
  <2>1. ToSet(<<>>) = {} /\ <<>> \in Seq(PricedZone)
    BY DEF ToSet
  <2>. QED  BY <2>1, OrderBlockIs
<1>. HIDE DEF ob
<1>5. zs \in Seq(PricedZone) /\ ToSet(zs) = ToSet(s.zones) \cup ToSet(ob)
  BY <1>4, EngineTypes, ConcatIs
<1>. HIDE DEF es, zs, t
<1>6. t \in Engine
  BY <1>1, <1>3, <1>5 DEF Engine
<1>7. /\ t.bars = s.bars /\ t.levels = s.levels /\ t.zones = zs /\ t.events = es
      /\ t.swings = s.swings /\ t.latest = s.latest /\ t.broken = s.broken /\ t.trend = s.trend
  BY <1>1 DEF Engine
<1>8. Grows(s, t, c)
  BY <1>4, <1>5, <1>6, <1>7 DEF Grows
<1>. QED  BY <1>2, <1>7, <1>8 DEF e, es, t

\* The trend of one scope, and the swing that is broken on one side.
LEMMA EngineChanges ==
    ASSUME NEW s \in Engine, NEW c, NEW side \in ToSet(Sides)
    PROVE  /\ \A trend \in Direction \cup {"UNKNOWN", "NEUTRAL"} :
                LET t == [s EXCEPT !.trend[side[1]] = trend]
                IN /\ Grows(s, t, c) /\ t.events = s.events /\ t.swings = s.swings
                   /\ t.latest = s.latest /\ t.broken = s.broken
                   /\ t.trend = [s.trend EXCEPT ![side[1]] = trend]
           /\ LET t == [s EXCEPT !.broken[side] = s.latest[side]]
              IN /\ Grows(s, t, c) /\ t.events = s.events /\ t.swings = s.swings
                 /\ t.latest = s.latest /\ t.trend = s.trend
                 /\ t.broken = [s.broken EXCEPT ![side] = s.latest[side]]
<1>1. ASSUME NEW trend \in Direction \cup {"UNKNOWN", "NEUTRAL"}
      PROVE  LET t == [s EXCEPT !.trend[side[1]] = trend]
             IN /\ Grows(s, t, c) /\ t.events = s.events /\ t.swings = s.swings
                /\ t.latest = s.latest /\ t.broken = s.broken
                /\ t.trend = [s.trend EXCEPT ![side[1]] = trend]
  <2>. DEFINE x == [s.trend EXCEPT ![side[1]] = trend]
              t == [s EXCEPT !.trend = x]
  <2>1. x \in [ToSet(Scopes) -> Direction \cup {"UNKNOWN", "NEUTRAL"}]
    BY EngineTypes
  <2>2. [s EXCEPT !.trend[side[1]] = trend] = t
    OBVIOUS
  <2>. HIDE DEF x
  <2>3. t \in Engine
    BY <2>1 DEF Engine
  <2>4. /\ t.bars = s.bars /\ t.levels = s.levels /\ t.zones = s.zones /\ t.events = s.events
        /\ t.swings = s.swings /\ t.latest = s.latest /\ t.broken = s.broken /\ t.trend = x
    BY DEF Engine
  <2>. HIDE DEF t
  <2>5. Grows(s, t, c)
    BY <2>3, <2>4 DEF Grows
  <2>. QED  BY <2>2, <2>4, <2>5 DEF x
<1>2. LET t == [s EXCEPT !.broken[side] = s.latest[side]]
      IN /\ Grows(s, t, c) /\ t.events = s.events /\ t.swings = s.swings
         /\ t.latest = s.latest /\ t.trend = s.trend
         /\ t.broken = [s.broken EXCEPT ![side] = s.latest[side]]
  <2>. DEFINE x == [s.broken EXCEPT ![side] = s.latest[side]]
              t == [s EXCEPT !.broken = x]
  <2>1. x \in [ToSet(Sides) -> PricedSwing \cup {Nothing}]
    BY EngineTypes
  <2>2. [s EXCEPT !.broken[side] = s.latest[side]] = t
    OBVIOUS
  <2>. HIDE DEF x
  <2>3. t \in Engine
    BY <2>1 DEF Engine
  <2>4. /\ t.bars = s.bars /\ t.levels = s.levels /\ t.zones = s.zones /\ t.events = s.events
        /\ t.swings = s.swings /\ t.latest = s.latest /\ t.trend = s.trend /\ t.broken = x
    BY DEF Engine
  <2>. HIDE DEF t
  <2>5. Grows(s, t, c)
    BY <2>3, <2>4 DEF Grows
  <2>. QED  BY <2>2, <2>4, <2>5 DEF x
<1>. QED  BY <1>1, <1>2

\* A break of one side (_breaks) adds only what is new.
LEMMA BreakSideIs ==
    ASSUME NEW s \in Engine, NEW c \in Candle, NEW side \in ToSet(Sides)
    PROVE  Grows(s, BreakSide(s, c, side), c)
<1>. DEFINE direction == IF side[2] = "HIGH" THEN "BULLISH" ELSE "BEARISH"
            old == s.trend[side[1]]
            displaced == Displacement(s, c, direction)
            marked == [s EXCEPT !.broken[side] = s.latest[side]]
            warned == Record(marked, "CHOCH", side, direction, c, displaced)
            mss == Record(warned, "MSS", side, direction, c, TRUE)
            bos == Record(marked, "BOS", side, direction, c, displaced)
            toward(t, trend) == [t EXCEPT !.trend[side[1]] = trend]
            t == BreakSide(s, c, side)
<1>1. /\ direction \in Direction /\ displaced \in BOOLEAN
      /\ direction \in Direction \cup {"UNKNOWN", "NEUTRAL"}
      /\ "NEUTRAL" \in Direction \cup {"UNKNOWN", "NEUTRAL"}
  BY DEF Direction, Displacement
<1>2. \/ t = s
      \/ s.latest[side] # Nothing /\ t \in {bos, toward(mss, direction),
                                            toward(warned, "NEUTRAL"), toward(marked, direction)}
  <2>1. ~Unbroken(s, side) \/ s.latest[side] # Nothing
    BY DEF Unbroken
  <2>. DEFINE unbroken == Unbroken(s, side)
              crossed == Crossed(s.latest[side], c)
  <2>2. t = IF ~unbroken THEN s
            ELSE IF ~crossed THEN s
            ELSE IF old = direction THEN bos
            ELSE IF old = Opposite(direction) /\ displaced THEN toward(mss, direction)
            ELSE IF old = Opposite(direction) THEN toward(warned, "NEUTRAL")
            ELSE toward(marked, direction)
    BY DEF BreakSide
  <2>. HIDE DEF t, old, direction, displaced, marked, warned, mss, bos, toward, unbroken, crossed
  <2>3. \/ t = s
        \/ unbroken /\ t \in {bos, toward(mss, direction),
                              toward(warned, "NEUTRAL"), toward(marked, direction)}
    BY <2>2, Zenon
  <2>. QED  BY <2>1, <2>3 DEF unbroken
<1>. HIDE DEF t, direction, displaced
<1>3. CASE t = s
  BY <1>3, GrowsIs DEF t
<1>4. CASE s.latest[side] # Nothing /\ t \in {bos, toward(mss, direction),
                                toward(warned, "NEUTRAL"), toward(marked, direction)}
  <2>1. Grows(s, marked, c) /\ marked.latest = s.latest
    BY EngineChanges
  <2>. HIDE DEF marked
  <2>2. marked \in Engine
    BY <2>1 DEF Grows
  <2>3. Grows(marked, bos, c)
    BY <1>1, <1>4, <2>1, <2>2, RecordIs
  <2>4. Grows(marked, warned, c) /\ warned.latest = s.latest
    BY <1>1, <1>4, <2>1, <2>2, RecordIs
  <2>. HIDE DEF warned
  <2>5. warned \in Engine
    BY <2>4 DEF Grows
  <2>6. Grows(warned, mss, c)
    BY <1>1, <1>4, <2>4, <2>5, RecordIs
  <2>. HIDE DEF mss, bos
  <2>7. mss \in Engine
    BY <2>6 DEF Grows
  <2>8. /\ Grows(mss, toward(mss, direction), c)
        /\ Grows(warned, toward(warned, "NEUTRAL"), c)
        /\ Grows(marked, toward(marked, direction), c)
    BY <1>1, <2>2, <2>5, <2>7, EngineChanges
  <2>. HIDE DEF toward
  <2>9. /\ Grows(s, bos, c) /\ Grows(s, warned, c) /\ Grows(s, mss, c)
    BY <2>1, <2>2, <2>3, <2>4, <2>5, <2>6, <2>7, GrowsIs
  <2>10. /\ Grows(s, toward(mss, direction), c)
         /\ Grows(s, toward(warned, "NEUTRAL"), c)
         /\ Grows(s, toward(marked, direction), c)
    BY <2>1, <2>8, <2>9, GrowsIs
  <2>. QED  BY <1>4, <2>9, <2>10 DEF t
<1>. QED  BY <1>2, <1>3, <1>4

\* An equal high or low has one before it that it equals.
LEMMA LabelIs ==
    ASSUME NEW kind \in {"HIGH", "LOW"}, NEW price \in Price,
           NEW previous \in PricedSwing \cup {Nothing}
    PROVE  /\ Label(kind, price, previous) \in
                {"SH", "SL", "HH", "HL", "LH", "LL", "EQH", "EQL"}
           /\ Label(kind, price, previous) \in {"EQH", "EQL"} => previous # Nothing
BY DEF Label

\* A confirmed swing (_swing) adds only levels that are new.
LEMMA AddSwingIs ==
    ASSUME NEW s \in Engine, NEW c \in Candle, NEW side \in ToSet(Sides), NEW pivot \in Candle
    PROVE  Grows(s, AddSwing(s, side, pivot, End(c)), c)
<1>. DEFINE scope == side[1]
            kind == side[2]
            price == IF kind = "HIGH" THEN pivot.high ELSE pivot.low
            previous == s.latest[side]
            label == Label(kind, price, previous)
            swing == [scope |-> scope, kind |-> kind, label |-> label, price |-> price,
                      at |-> pivot.time, confirmed |-> End(c)]
            latest == [s.latest EXCEPT ![side] = swing]
            own == NewLevel(IF kind = "HIGH" THEN "BSL" ELSE "SSL", kind, price, pivot.time, End(c))
            equal == NewLevel(label, kind, (price + previous.price) \div 2, previous.at, End(c))
            more == IF scope = "INTERNAL" THEN <<>>
                    ELSE IF label \in {"EQH", "EQL"} THEN <<own, equal>>
                    ELSE <<own>>
            trend == [s.trend EXCEPT ![scope] = TrendOfPair(latest, s.broken, scope, @)]
            swings == Append(s.swings, swing)
            levels == s.levels \o more
            t == AddSwing(s, side, pivot, End(c))
<1>1. t = [s EXCEPT !.swings = swings, !.latest = latest, !.levels = levels, !.trend = trend]
  BY DEF AddSwing
<1>2. /\ scope \in ToSet(Scopes) /\ kind \in {"HIGH", "LOW"} /\ price \in Price /\ price \in Nat
      /\ previous \in PricedSwing \cup {Nothing}
  BY SidesAre, EngineTypes, CandleTypes
<1>. HIDE DEF scope, kind, price, previous
<1>3. /\ label \in {"SH", "SL", "HH", "HL", "LH", "LL", "EQH", "EQL"}
      /\ label \in {"EQH", "EQL"} => previous \in PricedSwing
  BY <1>2, LabelIs
<1>. HIDE DEF label
<1>4. swing \in PricedSwing
  BY <1>2, <1>3, CandleTypes DEF PricedSwing, SwingPoint, Price
<1>5. more \in Seq(PricedLevel) /\ \A l \in ToSet(more) : FreshLevel(l, c)
  <2>1. own \in PricedLevel /\ FreshLevel(own, c)
    BY <1>2, CandleTypes, NewLevelIs
  <2>2. CASE label \in {"EQH", "EQL"}
    <3>1. previous.price \in Price /\ previous.price \in Nat /\ previous.at \in Nat
      BY <1>3, <2>2 DEF PricedSwing, SwingPoint, Price
    <3>2. (price + previous.price) \div 2 \in Price
      BY <1>2, <3>1 DEF Price
    <3>3. equal \in PricedLevel /\ FreshLevel(equal, c)
      BY <1>2, <2>2, <3>1, <3>2, NewLevelIs
    <3>. HIDE DEF own, equal
    <3>4. /\ <<>> \in Seq(PricedLevel) /\ ToSet(<<>>) = {}
          /\ <<own>> \in Seq(PricedLevel) /\ ToSet(<<own>>) = {own}
          /\ <<own, equal>> \in Seq(PricedLevel) /\ ToSet(<<own, equal>>) = {own, equal}
      <4>1. DOMAIN <<own, equal>> = {1, 2} /\ DOMAIN <<own>> = {1}
        OBVIOUS
      <4>. QED  BY <2>1, <3>3, <4>1 DEF ToSet
    <3>. QED  BY <2>1, <3>3, <3>4
  <2>3. CASE label \notin {"EQH", "EQL"}
    <3>1. more = <<>> \/ more = <<own>>
      BY <2>3
    <3>. HIDE DEF own
    <3>2. /\ <<>> \in Seq(PricedLevel) /\ ToSet(<<>>) = {}
          /\ <<own>> \in Seq(PricedLevel) /\ ToSet(<<own>>) = {own}
      BY <2>1 DEF ToSet
    <3>. HIDE DEF more
    <3>. QED  BY <2>1, <3>1, <3>2
  <2>. QED  BY <2>2, <2>3
<1>6. latest \in [ToSet(Sides) -> PricedSwing \cup {Nothing}]
  <2>. HIDE DEF swing
  <2>. QED  BY <1>4, EngineTypes
<1>. HIDE DEF more, swing, latest
<1>7. swings \in Seq(PricedSwing)
  BY <1>4, EngineTypes, AppendIs
<1>8. levels \in Seq(PricedLevel) /\ ToSet(levels) = ToSet(s.levels) \cup ToSet(more)
  BY <1>5, EngineTypes, ConcatIs
<1>9. trend \in [ToSet(Scopes) -> Direction \cup {"UNKNOWN", "NEUTRAL"}]
  <2>1. s.trend[scope] \in Direction \cup {"UNKNOWN", "NEUTRAL"}
    BY <1>2, EngineTypes
  <2>2. TrendOfPair(latest, s.broken, scope, s.trend[scope])
          \in Direction \cup {"UNKNOWN", "NEUTRAL"}
    BY <2>1 DEF TrendOfPair, Direction
  <2>. QED  BY <1>2, <2>2, EngineTypes
<1>. HIDE DEF swings, levels, trend, t
<1>10. t \in Engine
  BY <1>1, <1>6, <1>7, <1>8, <1>9 DEF Engine
<1>11. t.bars = s.bars /\ t.levels = levels /\ t.zones = s.zones
  BY <1>1 DEF Engine
<1>12. Grows(s, t, c)
  BY <1>5, <1>8, <1>10, <1>11 DEF Grows
<1>. QED  BY <1>12 DEF t

\* A pivot of one side (_pivots) adds only what is new.
LEMMA PivotSideIs ==
    ASSUME NEW s \in Engine, NEW c \in Candle, NEW side \in ToSet(Sides)
    PROVE  Grows(s, PivotSide(s, c, side), c)
<1>1. CASE ~IsPivot(s, side)
  BY <1>1, GrowsIs DEF PivotSide
<1>2. CASE IsPivot(s, side)
  <2>1. side[1] \in ToSet(Scopes)
    BY SidesAre
  <2>2. Left[side[1]] \in Nat \ {0} /\ Right[side[1]] \in Nat \ {0}
    BY <2>1, StructureAssumption DEF AnalysisConfig
  <2>3. Len(s.bars) >= Left[side[1]] + Right[side[1]] + 1 /\ Len(s.bars) \in Nat
    BY <1>2, EngineTypes, ToSetOf DEF IsPivot
  <2>4. Len(s.bars) - Right[side[1]] \in 1..Len(s.bars)
    BY <2>2, <2>3
  <2>5. PivotOf(s, side[1]) \in Candle
    BY <2>4, EngineTypes, ToSetOf DEF PivotOf
  <2>6. PivotSide(s, c, side) = AddSwing(s, side, PivotOf(s, side[1]), End(c))
    BY <1>2 DEF PivotSide
  <2>. QED  BY <2>5, <2>6, AddSwingIs
<1>. QED  BY <1>1, <1>2

\* So do all four sides, of the breaks and of the pivots.
LEMMA BreaksGrow ==
    ASSUME NEW s \in Engine, NEW c \in Candle
    PROVE  Grows(s, Breaks(s, c), c) /\ Grows(s, Pivots(s, c), c)
<1>1. \A t : Grows(s, t, c) => t \in Engine
  BY DEF Grows
<1>2. Grows(s, s, c)
  BY GrowsIs
<1>3. Breaks(s, c) = BreakSide(BreakSide(BreakSide(BreakSide(s, c, Sides[1]), c, Sides[2]),
                                         c, Sides[3]), c, Sides[4])
  BY DEF Breaks, OverSides
<1>4. Pivots(s, c) = PivotSide(PivotSide(PivotSide(PivotSide(s, c, Sides[1]), c, Sides[2]),
                                         c, Sides[3]), c, Sides[4])
  BY DEF Pivots, OverSides
<1>5. \A t, side : Grows(s, t, c) /\ side \in ToSet(Sides) =>
        Grows(s, BreakSide(t, c, side), c) /\ Grows(s, PivotSide(t, c, side), c)
  BY <1>1, BreakSideIs, PivotSideIs, GrowsIs
<1>. QED  BY <1>2, <1>3, <1>4, <1>5, SidesAre

\* The gap of the last three candles (engine.py _gaps) is a zone that starts out open.
LEMMA GapIs ==
    ASSUME NEW bars \in Seq(Candle), NEW c \in Candle
    PROVE  /\ Gap(Append(bars, c)) \in Seq(PricedZone)
           /\ \A z \in ToSet(Gap(Append(bars, c))) : FreshZone(z, c)
<1>. DEFINE u == Append(bars, c)
            n == Len(u)
            first == u[n - 2]
            last == u[n]
            apart == End(first) # u[n - 1].time \/ End(u[n - 1]) # last.time
            up == last.low - first.high >= MinGap
            down == first.low - last.high >= MinGap
            rise == NewZone("FVG", "BULLISH", first.high, last.low, first.time, End(last))
            fall == NewZone("FVG", "BEARISH", last.high, first.low, first.time, End(last))
<1>1. Gap(u) = IF n < 3 THEN <<>>
               ELSE IF apart THEN <<>>
               ELSE IF up THEN <<rise>>
               ELSE IF down THEN <<fall>>
               ELSE <<>>
  BY DEF Gap
<1>2. u \in Seq(Candle) /\ n \in Nat /\ last = c
  BY AppendIs
<1>3. ToSet(<<>>) = {} /\ <<>> \in Seq(PricedZone)
  BY DEF ToSet
<1>4. CASE n >= 3
  <2>1. first \in Candle
    <3>1. n - 2 \in 1..Len(u)
      BY <1>2, <1>4
    <3>. QED  BY <1>2, <3>1, ToSetOf
  <2>2. "BULLISH" \in Direction /\ "BEARISH" \in Direction
    BY DEF Direction
  <2>. HIDE DEF u, n, first, last, apart
  <2>3. ASSUME up
        PROVE  rise \in PricedZone /\ FreshZone(rise, c)
    <3>1. first.high < last.low
      BY <1>2, <2>1, <2>3, CandleTypes, Configured
    <3>. QED  BY <1>2, <2>1, <2>2, <3>1, CandleTypes, NewZoneIs
  <2>4. ASSUME down
        PROVE  fall \in PricedZone /\ FreshZone(fall, c)
    <3>1. last.high < first.low
      BY <1>2, <2>1, <2>4, CandleTypes, Configured
    <3>. QED  BY <1>2, <2>1, <2>2, <3>1, CandleTypes, NewZoneIs
  <2>. HIDE DEF up, down, rise, fall
  <2>5. \/ Gap(u) = <<>>
        \/ up /\ Gap(u) = <<rise>>
        \/ down /\ Gap(u) = <<fall>>
    BY <1>1
  <2>6. \A z \in PricedZone : <<z>> \in Seq(PricedZone) /\ ToSet(<<z>>) = {z}
    BY DEF ToSet
  <2>7. Gap(u) \in Seq(PricedZone) /\ \A z \in ToSet(Gap(u)) : FreshZone(z, c)
    BY <1>3, <2>3, <2>4, <2>5, <2>6
  <2>. QED  BY <2>7 DEF u
<1>5. CASE ~(n >= 3)
  <2>1. Gap(u) = <<>>
    BY <1>1, <1>2, <1>5
  <2>. QED  BY <1>3, <2>1
<1>. QED  BY <1>4, <1>5

\* A window's extrema stay prices, and it opens at a time of the run
\* (engine.py _periods).
LEMMA WindowsAre ==
    ASSUME NEW c \in Candle, NEW g \in Group \cup {Nothing}, NEW w \in ToSet(Windows)
    PROVE  /\ OpenWindow(g, c, w) \in Group \cup {Nothing}
           /\ CloseWindow(g, c, w.name) \in Seq(PricedLevel)
           /\ \A l \in ToSet(CloseWindow(g, c, w.name)) : FreshLevel(l, c)
<1>1. ASSUME g # Nothing
      PROVE  /\ g \in Group /\ g.start \in Nat /\ g.high \in Price /\ g.low \in Price
             /\ Widened(g, c) \in Group
             /\ Widened(g, c).high \in Price /\ Widened(g, c).low \in Price
  <2>1. /\ g \in Group /\ g.start \in Nat /\ g.high \in Price /\ g.low \in Price
        /\ g.high \in Int /\ g.low \in Int
    BY <1>1 DEF Group, Price
  <2>2. /\ c.high \in Price /\ c.low \in Price /\ c.high \in Int /\ c.low \in Int
    BY CandleTypes
  <2>3. Max({g.high, c.high}) \in Price /\ Min({g.low, c.low}) \in Price
    BY <2>1, <2>2, ExtremaOfTwo
  <2>. DEFINE h == Max({g.high, c.high})
              k == Min({g.low, c.low})
  <2>4. Widened(g, c) = [g EXCEPT !.high = h, !.low = k]
    BY DEF Widened
  <2>. HIDE DEF h, k
  <2>. QED  BY <2>1, <2>3, <2>4 DEF Group, h, k
<1>2. CloseWindow(g, c, w.name) \in Seq(PricedLevel)
      /\ \A l \in ToSet(CloseWindow(g, c, w.name)) : FreshLevel(l, c)
  <2>. DEFINE whole == IF g.start <= c.time /\ End(c) <= g.stop THEN Widened(g, c) ELSE g
              high == NewLevel(w.name, "HIGH", whole.high, g.start, End(c))
              low == NewLevel(w.name, "LOW", whole.low, g.start, End(c))
              early == ~IsOver(g, c) \/ (IsOver(g, c) /\ g.first # g.start)
  <2>1. CloseWindow(g, c, w.name) = IF early THEN <<>> ELSE <<high, low>>
    BY DEF CloseWindow
  <2>2. CASE g # Nothing
    <3>1. whole.high \in Price /\ whole.low \in Price /\ g.start \in Nat
      BY <1>1, <2>2
    <3>. HIDE DEF whole
    <3>2. w.name \in {v.name : v \in ToSet(Windows)}
      OBVIOUS
    <3>3. w.name \in {"BSL", "SSL", "EQH", "EQL"} \cup {v.name : v \in ToSet(Windows)}
      BY <3>2
    <3>. DEFINE name == w.name
    <3>4. name \in {"BSL", "SSL", "EQH", "EQL"} \cup {v.name : v \in ToSet(Windows)}
      BY <3>3
    <3>5. /\ high = NewLevel(name, "HIGH", whole.high, g.start, End(c))
          /\ low = NewLevel(name, "LOW", whole.low, g.start, End(c))
      OBVIOUS
    <3>. HIDE DEF name, high, low
    <3>6. /\ high \in PricedLevel /\ FreshLevel(high, c)
          /\ low \in PricedLevel /\ FreshLevel(low, c)
      BY <3>1, <3>4, <3>5, NewLevelIs
    <3>7. /\ <<>> \in Seq(PricedLevel) /\ ToSet(<<>>) = {}
          /\ <<high, low>> \in Seq(PricedLevel) /\ ToSet(<<high, low>>) = {high, low}
      <4>1. DOMAIN <<high, low>> = {1, 2}
        OBVIOUS
      <4>. QED  BY <3>6, <4>1 DEF ToSet
    <3>. QED  BY <2>1, <3>6, <3>7
  <2>3. CASE g = Nothing
    <3>1. CloseWindow(g, c, w.name) = <<>>
      BY <2>1, <2>3 DEF IsOver
    <3>2. <<>> \in Seq(PricedLevel) /\ ToSet(<<>>) = {}
      BY DEF ToSet
    <3>. QED  BY <3>1, <3>2
  <2>. QED  BY <2>2, <2>3
<1>3. OpenWindow(g, c, w) \in Group \cup {Nothing}
  <2>. DEFINE start == (c.time \div w.every) * w.every + w.from
              stop == (c.time \div w.every) * w.every + w.to
              new == [start |-> start, stop |-> stop, first |-> c.time, high |-> c.high,
                      low |-> c.low]
  <2>1. w.every \in Nat /\ w.from \in Nat /\ w.to \in Nat /\ w.every > 0
    <3>1. w \in [name : STRING, every : Nat, from : Nat, to : Nat]
      BY Configured, ToSetOf
    <3>2. w.from < w.to /\ w.to <= w.every
      BY StructureAssumption DEF AnalysisConfig
    <3>. QED  BY <3>1, <3>2
  <2>2. c.time \div w.every \in Nat
    <3>. DEFINE t == c.time
                e == w.every
    <3>1. t \in Nat /\ e \in Nat /\ e > 0
      BY <2>1, CandleTypes
    <3>. HIDE DEF t, e
    <3>2. t \div e \in Nat
      BY <3>1, Division
    <3>. QED  BY <3>2 DEF t, e
  <2>3. start \in Nat /\ stop \in Nat
    <3>. DEFINE d == c.time \div w.every
    <3>. HIDE DEF d
    <3>1. \A a \in Nat, b \in Nat, f \in Nat : a * b + f \in Nat
      OBVIOUS
    <3>2. d \in Nat
      BY <2>2 DEF d
    <3>3. d * w.every + w.from \in Nat /\ d * w.every + w.to \in Nat
      BY <2>1, <3>1, <3>2, Zenon
    <3>. QED  BY <3>3 DEF d
  <2>. HIDE DEF start, stop
  <2>4. new \in Group
    BY <2>3, CandleTypes DEF Group
  <2>. HIDE DEF new
  <2>5. OpenWindow(g, c, w) \in {g, Widened(g, c), new}
        /\ (OpenWindow(g, c, w) = Widened(g, c) /\ g = Nothing => OpenWindow(g, c, w) \in {g, new})
    <3>1. OpenWindow(g, c, w) = IF c.time < start \/ End(c) >= stop THEN g
                                ELSE IF g # Nothing THEN Widened(g, c) ELSE new
      BY DEF OpenWindow, start, stop, new
    <3>. QED  BY <3>1
  <2>. QED  BY <1>1, <2>4, <2>5
<1>. QED  BY <1>2, <1>3

\* Windows that close add levels that are new.
LEMMA PeriodsIs ==
    ASSUME NEW s \in Engine, NEW c \in Candle
    PROVE  Grows(s, Periods(s, c), c)
<1>. DEFINE group(i) == OpenWindow(IF IsOver(s.groups[i], c) THEN Nothing ELSE s.groups[i], c,
                                   Windows[i])
            gs == [i \in 1..Len(Windows) |-> group(i)]
            closed == [i \in 1..Len(Windows) |-> CloseWindow(s.groups[i], c, Windows[i].name)]
            levels == s.levels \o FlattenSeq(closed)
            t == Periods(s, c)
<1>1. t = [s EXCEPT !.groups = gs, !.levels = levels]
  BY DEF Periods
<1>2. Len(Windows) \in Nat /\ \A i \in 1..Len(Windows) : Windows[i] \in ToSet(Windows)
  BY Configured, ToSetOf
<1>3. \A i \in 1..Len(Windows) : s.groups[i] \in Group \cup {Nothing}
  BY EngineTypes
<1>4. gs \in [1..Len(Windows) -> Group \cup {Nothing}]
  <2>1. \A i \in 1..Len(Windows) : group(i) \in Group \cup {Nothing}
    BY <1>2, <1>3, WindowsAre
  <2>. HIDE DEF group
  <2>. QED  BY <2>1
<1>5. /\ closed \in Seq(Seq(PricedLevel)) /\ Len(closed) = Len(Windows)
      /\ \A i \in 1..Len(closed) : \A l \in ToSet(closed[i]) : FreshLevel(l, c)
  <2>1. \A i \in 1..Len(Windows) : /\ CloseWindow(s.groups[i], c, Windows[i].name) \in Seq(PricedLevel)
                                   /\ \A l \in ToSet(CloseWindow(s.groups[i], c, Windows[i].name)) :
                                        FreshLevel(l, c)
    BY <1>2, <1>3, WindowsAre
  <2>. DEFINE f(i) == CloseWindow(s.groups[i], c, Windows[i].name)
  <2>2. closed = [i \in 1..Len(Windows) |-> f(i)]
    OBVIOUS
  <2>. HIDE DEF f, closed
  <2>3. closed \in Seq(Seq(PricedLevel)) /\ Len(closed) = Len(Windows)
        /\ \A i \in 1..Len(Windows) : closed[i] = f(i)
    <3>1. \A i \in 1..Len(Windows) : f(i) \in Seq(PricedLevel)
      BY <2>1 DEF f
    <3>. QED  BY <1>2, <2>2, <3>1
  <2>. QED  BY <2>1, <2>3 DEF f
<1>. HIDE DEF closed, gs
<1>6. /\ FlattenSeq(closed) \in Seq(PricedLevel)
      /\ \A l \in ToSet(FlattenSeq(closed)) : FreshLevel(l, c)
  BY <1>5, FlattenIs
<1>7. levels \in Seq(PricedLevel) /\ ToSet(levels) = ToSet(s.levels) \cup ToSet(FlattenSeq(closed))
  BY <1>6, EngineTypes, ConcatIs
<1>. HIDE DEF levels, t
<1>8. t \in Engine
  BY <1>1, <1>4, <1>7 DEF Engine
<1>9. t.bars = s.bars /\ t.levels = levels /\ t.zones = s.zones
  BY <1>1 DEF Engine
<1>10. Grows(s, t, c)
  BY <1>6, <1>7, <1>8, <1>9 DEF Grows
<1>. QED  BY <1>10 DEF t

\* The cap drops the oldest objects and changes none.
LEMMA CappedIs ==
    ASSUME NEW s \in Engine
    PROVE  /\ Capped(s) \in Engine /\ Capped(s).bars = s.bars
           /\ ToSet(Capped(s).levels) \subseteq ToSet(s.levels)
           /\ ToSet(Capped(s).zones) \subseteq ToSet(s.zones)
<1>. DEFINE sw == LastN(s.swings, MaxObjects)
            ev == LastN(s.events, MaxObjects)
            lv == LastN(s.levels, MaxObjects)
            zs == LastN(s.zones, MaxObjects)
            t == Capped(s)
<1>1. t = [s EXCEPT !.swings = sw, !.events = ev, !.levels = lv, !.zones = zs]
  BY DEF Capped
<1>2. /\ sw \in Seq(PricedSwing) /\ ev \in Seq(StructureEvent)
      /\ lv \in Seq(PricedLevel) /\ zs \in Seq(PricedZone)
      /\ ToSet(lv) \subseteq ToSet(s.levels) /\ ToSet(zs) \subseteq ToSet(s.zones)
  BY EngineTypes, Configured, LastNIs
<1>. HIDE DEF sw, ev, lv, zs, t
<1>3. t \in Engine
  BY <1>1, <1>2 DEF Engine
<1>4. t.bars = s.bars /\ t.levels = lv /\ t.zones = zs
  BY <1>1 DEF Engine
<1>. QED  BY <1>2, <1>3, <1>4 DEF t

\* The engine before the first candle.
LEMMA EmptyEngineIs ==
    EmptyEngine \in Engine /\ EmptyEngine.bars = <<>>
    /\ EmptyEngine.levels = <<>> /\ EmptyEngine.zones = <<>>
BY DEF EmptyEngine, Engine

\* One candle: it is kept, the levels and the zones are those it leaves of the
\* ones before, and what it adds is new.
LEMMA FeedIs ==
    ASSUME NEW s \in Engine, NEW c \in Candle
    PROVE  /\ Feed(s, c) \in Engine /\ Feed(s, c).bars = Append(s.bars, c)
           /\ \A l \in ToSet(Feed(s, c).levels) :
                (\E k \in ToSet(s.levels) : l = LevelAfter(k, c)) \/ FreshLevel(l, c)
           /\ \A z \in ToSet(Feed(s, c).zones) :
                (\E y \in ToSet(s.zones) : z = ZoneAfter(y, c)) \/ FreshZone(z, c)
<1>. DEFINE aged == Lifecycles(s, c)
            broken == Breaks(aged, c)
            bars == Append(broken.bars, c)
            fed == [broken EXCEPT !.bars = bars]
            grown == Pivots(fed, c)
            zs == grown.zones \o Gap(grown.bars)
            gapped == [grown EXCEPT !.zones = zs]
            closed == Periods(gapped, c)
<1>1. Feed(s, c) = Capped(closed)
  BY DEF Feed
<1>2. /\ aged \in Engine /\ aged.bars = s.bars
      /\ \A l \in ToSet(aged.levels) : \E k \in ToSet(s.levels) : l = LevelAfter(k, c)
      /\ \A z \in ToSet(aged.zones) : (\E y \in ToSet(s.zones) : z = ZoneAfter(y, c)) \/ FreshZone(z, c)
  BY LifecyclesIs
<1>. HIDE DEF aged
<1>3. Grows(aged, broken, c)
  BY <1>2, BreaksGrow
<1>. HIDE DEF broken
<1>4. broken \in Engine /\ broken.bars = s.bars
  BY <1>2, <1>3 DEF Grows
<1>5. bars \in Seq(Candle) /\ bars = Append(s.bars, c)
  BY <1>4, EngineTypes, AppendIs
<1>. HIDE DEF bars
<1>6. fed \in Engine /\ fed.bars = bars /\ fed.levels = broken.levels /\ fed.zones = broken.zones
  BY <1>4, <1>5 DEF Engine
<1>. HIDE DEF fed
<1>7. Grows(fed, grown, c)
  BY <1>6, BreaksGrow
<1>. HIDE DEF grown
<1>8. grown \in Engine /\ grown.bars = Append(s.bars, c)
  BY <1>5, <1>6, <1>7 DEF Grows
<1>9. /\ Gap(grown.bars) \in Seq(PricedZone)
      /\ \A z \in ToSet(Gap(grown.bars)) : FreshZone(z, c)
  BY <1>8, EngineTypes, GapIs
<1>10. zs \in Seq(PricedZone) /\ ToSet(zs) = ToSet(grown.zones) \cup ToSet(Gap(grown.bars))
  BY <1>8, <1>9, EngineTypes, ConcatIs
<1>. HIDE DEF zs
<1>11. gapped \in Engine /\ gapped.bars = grown.bars /\ gapped.levels = grown.levels /\ gapped.zones = zs
  BY <1>8, <1>10 DEF Engine
<1>. HIDE DEF gapped
<1>12. Grows(gapped, closed, c)
  BY <1>11, PeriodsIs
<1>. HIDE DEF closed
<1>13. closed \in Engine /\ closed.bars = Append(s.bars, c)
  BY <1>8, <1>11, <1>12 DEF Grows
<1>14. /\ Feed(s, c) \in Engine /\ Feed(s, c).bars = Append(s.bars, c)
       /\ ToSet(Feed(s, c).levels) \subseteq ToSet(closed.levels)
       /\ ToSet(Feed(s, c).zones) \subseteq ToSet(closed.zones)
  BY <1>1, <1>13, CappedIs
<1>15. \A l \in ToSet(closed.levels) : l \in ToSet(aged.levels) \/ FreshLevel(l, c)
  BY <1>3, <1>6, <1>7, <1>11, <1>12 DEF Grows
<1>16. \A z \in ToSet(closed.zones) : z \in ToSet(aged.zones) \/ FreshZone(z, c)
  BY <1>3, <1>6, <1>7, <1>9, <1>10, <1>11, <1>12 DEF Grows
<1>. QED  BY <1>2, <1>14, <1>15, <1>16

-----------------------------------------------------------------------------
(* The fate of a level or a zone, one candle later *)

\* The candles before c: one a time, all of them earlier.
Before(cs, c) ==
  /\ cs \in SUBSET Candle
  /\ \A a \in cs : a.time < c.time
  /\ \A a, b \in cs : a.time = b.time => a = b

\* Of some candles there is a first.
LEMMA FirstOfIs ==
    ASSUME NEW ds \in SUBSET Candle, ds # {}
    PROVE  FirstOf(ds) \in ds /\ \A d \in ds : FirstOf(ds).time <= d.time
<1>. DEFINE ts == {d.time : d \in ds}
<1>1. ts \in SUBSET Nat /\ ts # {}
  BY CandleTypes
<1>2. Min(ts) \in ts /\ \A t \in ts : Min(ts) <= t
  <2>. HIDE DEF ts
  <2>. QED  BY <1>1, MinOfNaturals
<1>3. PICK e \in ds : e.time = Min(ts)
  BY <1>2
<1>4. \A d \in ds : e.time <= d.time
  BY <1>2, <1>3
<1>. QED  BY <1>4 DEF FirstOf

\* A later candle is never the first.
LEMMA FirstStays ==
    ASSUME NEW c \in Candle, NEW ds \in SUBSET Candle, ds # {}, NEW cs, Before(cs, c),
           ds \subseteq cs
    PROVE  FirstOf(ds \cup {c}) = FirstOf(ds)
<1>. DEFINE f == FirstOf(ds)
            g == FirstOf(ds \cup {c})
<1>1. f \in ds /\ \A d \in ds : f.time <= d.time
  BY FirstOfIs
<1>2. g \in ds \cup {c} /\ \A d \in ds \cup {c} : g.time <= d.time
  <2>1. ds \cup {c} \in SUBSET Candle /\ ds \cup {c} # {}
    OBVIOUS
  <2>. QED  BY <2>1, FirstOfIs
<1>. HIDE DEF f, g
<1>3. f.time < c.time /\ f.time \in Nat /\ c.time \in Nat
  BY <1>1, CandleTypes DEF Before
<1>4. g.time <= f.time /\ g # c
  BY <1>1, <1>2, <1>3
<1>5. g \in ds /\ g.time \in Nat /\ f.time <= g.time
  BY <1>1, <1>2, <1>4, CandleTypes
<1>6. f = g
  BY <1>1, <1>3, <1>4, <1>5 DEF Before
<1>. QED  BY <1>6 DEF f, g

\* A candle alone is the first.
LEMMA FirstAlone ==
    ASSUME NEW c
    PROVE  c.time <= c.time => FirstOf({c}) = c
BY DEF FirstOf

\* One more candle is one more candle since a confirmation that it follows, and
\* there is none since a confirmation that is still to come.
LEMMA SinceIs ==
    ASSUME NEW c \in Candle, NEW cs, Before(cs, c), NEW o, o.confirmed \in Nat
    PROVE  /\ Since(o, cs) \in SUBSET Candle /\ Since(o, cs) \subseteq cs
           /\ Since(o, cs \cup {c}) = IF o.confirmed > c.time THEN Since(o, cs)
                                      ELSE Since(o, cs) \cup {c}
           /\ o.confirmed > c.time => Since(o, cs) = {}
BY CandleTypes DEF Since, Before

\* A candle later than all others carries the fate of a level on: if none of
\* before decided it, this one may.
LEMMA LevelFateStep ==
    ASSUME NEW c \in Candle, NEW cs, Before(cs, c), NEW l \in PricedLevel, LevelFate(l, cs)
    PROVE  LevelFate(LevelAfter(l, c), cs \cup {c})
<1>. DEFINE decides(k, d) == Through(k, d) \/ Wick(k, d)
            deciding(k, ds) == {d \in Since(k, ds) : decides(k, d)}
            k == LevelAfter(l, c)
            old == deciding(l, cs)
            new == deciding(l, cs \cup {c})
<1>1. /\ k.side = l.side /\ k.price = l.price /\ k.confirmed = l.confirmed
      /\ l.confirmed \in Nat /\ c.time \in Nat
  BY LevelAfterIs, LevelTypes, CandleTypes
<1>2. deciding(k, cs \cup {c}) = new /\ \A d : Through(k, d) = Through(l, d)
  BY <1>1 DEF Since, Through, Wick
<1>3. new = IF l.confirmed <= c.time /\ decides(l, c) THEN old \cup {c} ELSE old
  <2>. DEFINE S == Since(l, cs)
              D(d) == decides(l, d)
  <2>1. Since(l, cs \cup {c}) = (IF l.confirmed > c.time THEN S ELSE S \cup {c})
    BY <1>1, SinceIs
  <2>2. old = {d \in S : D(d)} /\ new = {d \in Since(l, cs \cup {c}) : D(d)}
    OBVIOUS
  <2>. HIDE DEF old, new, S, D
  <2>3. new = IF l.confirmed <= c.time /\ D(c) THEN old \cup {c} ELSE old
    BY <1>1, <2>1, <2>2
  <2>. QED  BY <2>3 DEF D
<1>4. old \in SUBSET Candle /\ old \subseteq cs /\ (l.confirmed > c.time => old = {})
  BY <1>1, SinceIs
<1>5. IF old = {} THEN l.status = "ACTIVE"
      ELSE /\ l.ended = End(FirstOf(old))
           /\ l.status = IF Through(l, FirstOf(old)) THEN "INVALIDATED" ELSE "SWEPT"
  BY DEF LevelFate
<1>6. SUFFICES IF new = {} THEN k.status = "ACTIVE"
               ELSE /\ k.ended = End(FirstOf(new))
                    /\ k.status = IF Through(l, FirstOf(new)) THEN "INVALIDATED" ELSE "SWEPT"
  BY <1>2 DEF LevelFate
<1>7. CASE old # {}
  <2>1. new # {} /\ FirstOf(new) = FirstOf(old)
    <3>. HIDE DEF old, new
    <3>. QED  BY <1>3, <1>4, <1>7, FirstStays
  <2>2. l.status # "ACTIVE"
    BY <1>5, <1>7
  <2>3. k = l
    BY <2>2 DEF LevelAfter
  <2>. QED  BY <1>5, <1>7, <2>1, <2>3
<1>8. CASE old = {} /\ l.confirmed > c.time
  <2>1. k = l
    BY <1>8 DEF LevelAfter
  <2>. QED  BY <1>1, <1>3, <1>5, <1>8, <2>1
<1>9. CASE old = {} /\ l.confirmed <= c.time
  <2>1. l.status = "ACTIVE" /\ ~(l.confirmed > c.time)
    BY <1>1, <1>5, <1>9
  <2>2. /\ l.price \in Nat /\ c.close \in Nat /\ c.high \in Nat /\ c.low \in Nat
        /\ c.low <= c.close /\ c.close <= c.high /\ Tol \in Nat
    BY LevelTypes, CandleTypes, Configured
  <2>. DEFINE w == IF l.side = "HIGH" THEN c.high ELSE c.low
  <2>3. k = IF Wick(l, c) THEN [l EXCEPT !.status = "SWEPT", !.ended = End(c), !.sweep = w]
            ELSE IF Through(l, c) THEN [l EXCEPT !.status = "INVALIDATED", !.ended = End(c)]
            ELSE l
    <3>1. CASE l.side = "HIGH"
      BY <2>1, <3>1 DEF LevelAfter, Wick, Through
    <3>2. CASE l.side # "HIGH"
      BY <2>1, <3>2 DEF LevelAfter, Wick, Through
    <3>. QED  BY <3>1, <3>2
  <2>4. ~(Wick(l, c) /\ Through(l, c))
    BY <2>2 DEF Wick, Through
  <2>5. FirstOf({c}) = c
    BY <1>1, FirstAlone
  <2>. HIDE DEF old, new, k, w
  <2>6. CASE Wick(l, c)
    <3>1. new = {c} /\ ~Through(l, c)
      BY <1>3, <1>9, <2>4, <2>6
    <3>2. k.status = "SWEPT" /\ k.ended = End(c)
      BY <2>3, <2>6 DEF PricedLevel, LiquidityLevel
    <3>. QED  BY <2>5, <3>1, <3>2
  <2>7. CASE ~Wick(l, c) /\ Through(l, c)
    <3>1. new = {c}
      BY <1>3, <1>9, <2>7
    <3>2. k.status = "INVALIDATED" /\ k.ended = End(c)
      BY <2>3, <2>7 DEF PricedLevel, LiquidityLevel
    <3>. QED  BY <2>5, <2>7, <3>1, <3>2
  <2>8. CASE ~Wick(l, c) /\ ~Through(l, c)
    <3>1. new = {} /\ k = l
      BY <1>3, <1>9, <2>3, <2>8
    <3>. QED  BY <2>1, <3>1
  <2>. QED  BY <2>6, <2>7, <2>8
<1>. QED  BY <1>1, <1>7, <1>8, <1>9

\* A level just confirmed has no fate yet.
LEMMA FreshLevelFate ==
    ASSUME NEW c \in Candle, NEW cs, Before(cs, c), NEW l \in PricedLevel, FreshLevel(l, c)
    PROVE  LevelFate(l, cs \cup {c})
<1>1. Since(l, cs \cup {c}) = {}
  BY CandleTypes DEF FreshLevel, Since, Before, End
<1>. QED  BY <1>1 DEF LevelFate, FreshLevel

\* Of some naturals up to n, one that is no less than the others is the greatest.
LEMMA GreatestIs ==
    ASSUME NEW n \in Nat, NEW T \in SUBSET (0..n), NEW m \in T, \A y \in T : y <= m
    PROVE  Max(T) = m
<1>1. Max(T) \in T /\ \A y \in T : y <= Max(T)
  BY MaxOfBounded
<1>2. m \in 0..n /\ Max(T) \in 0..n
  BY <1>1
<1>3. Max(T) <= m /\ m <= Max(T) /\ m \in Int /\ Max(T) \in Int
  BY <1>1, <1>2
<1>. QED  BY <1>3

Touched(z, c) == c.low <= z.high /\ c.high >= z.low
Decides(z, c) == ClosedThrough(z, c) \/ Passes(z, c)

\* What a candle that does not decide the fate of a gap leaves of it to fill.
LEMMA DepthIs ==
    ASSUME NEW z \in PricedZone, NEW c \in Candle
    PROVE  /\ Depth(z, c) \in Int
           /\ Touched(z, c) => Depth(z, c) \in Nat
           /\ Passes(z, c) => Touched(z, c)
           /\ IsGap(z) /\ Touched(z, c) => (Passes(z, c) <=> z.high - z.low <= Depth(z, c))
BY ZoneTypes, CandleTypes DEF Depth, Touched, Passes, Direction

\* The deepest fill of some candles of which none decides, and with one more.
LEMMA DeepestIs ==
    ASSUME NEW z \in PricedZone, IsGap(z), NEW T \in SUBSET Candle,
           \A c \in T : Touched(z, c) /\ ~Decides(z, c)
    PROVE  LET D == {Depth(z, c) : c \in T} \cup {0}
           IN /\ Max(D) \in Nat /\ Max(D) < z.high - z.low
              /\ \A d \in Candle : Touched(z, d) /\ ~Decides(z, d) =>
                   Max({Depth(z, c) : c \in T \cup {d}} \cup {0})
                     = IF Max(D) >= Depth(z, d) THEN Max(D) ELSE Depth(z, d)
<1>. DEFINE h == z.high - z.low
            D == {Depth(z, c) : c \in T} \cup {0}
<1>1. h \in Nat /\ h > 0
  BY ZoneTypes
<1>2. \A c \in Candle : Touched(z, c) /\ ~Decides(z, c) => Depth(z, c) \in 0..(h - 1)
  <2>1. \A c \in Candle : Touched(z, c) /\ ~Decides(z, c) =>
          Depth(z, c) \in Nat /\ ~(h <= Depth(z, c))
    BY DepthIs DEF Decides
  <2>. HIDE DEF h
  <2>. QED  BY <1>1, <2>1
<1>. HIDE DEF h
<1>3. D \in SUBSET (0..(h - 1)) /\ D # {} /\ h - 1 \in Nat
  BY <1>1, <1>2
<1>4. Max(D) \in D /\ \A y \in D : y <= Max(D)
  <2>. HIDE DEF D
  <2>. QED  BY <1>3, MaxOfBounded
<1>5. Max(D) \in Nat /\ Max(D) < h
  BY <1>1, <1>3, <1>4
<1>6. ASSUME NEW d \in Candle, Touched(z, d), ~Decides(z, d)
      PROVE  Max({Depth(z, c) : c \in T \cup {d}} \cup {0})
               = IF Max(D) >= Depth(z, d) THEN Max(D) ELSE Depth(z, d)
  <2>. DEFINE x == Depth(z, d)
              m == Max(D)
  <2>1. {Depth(z, c) : c \in T \cup {d}} \cup {0} = D \cup {x}
    OBVIOUS
  <2>2. x \in 0..(h - 1)
    BY <1>2, <1>6
  <2>. HIDE DEF x, D
  <2>3. \A k \in Int : (\A y \in D : y <= k) /\ k \in D => Max(D \cup {x}) = IF k >= x THEN k ELSE x
    <3>. SUFFICES ASSUME NEW k \in Int, \A y \in D : y <= k, k \in D
                  PROVE  Max(D \cup {x}) = IF k >= x THEN k ELSE x
      OBVIOUS
    <3>1. D \cup {x} \in SUBSET (0..(h - 1))
      BY <1>3, <2>2
    <3>2. CASE k >= x
      BY <1>3, <2>2, <3>1, <3>2, GreatestIs
    <3>3. CASE ~(k >= x)
      <4>1. \A y \in D \cup {x} : y <= x
        BY <1>3, <2>2, <3>3
      <4>. QED  BY <1>3, <3>1, <3>3, <4>1, GreatestIs
    <3>. QED  BY <3>2, <3>3
  <2>. QED  BY <1>4, <1>5, <2>1, <2>3 DEF x
<1>. QED  BY <1>5, <1>6 DEF h

\* ZoneFate, by the names above.
LEMMA ZoneFateIs ==
    ASSUME NEW z, NEW cs
    PROVE  LET deciding == {c \in Since(z, cs) : Decides(z, c)}
               touching == {c \in Since(z, cs) : Touched(z, c)}
               first == FirstOf(deciding)
           IN ZoneFate(z, cs) <=>
              IF deciding = {}
                THEN /\ IsGap(z) => z.fill = Max({Depth(z, c) : c \in touching} \cup {0})
                     /\ z.status = IF touching = {} THEN IF IsGap(z) THEN "OPEN" ELSE "ACTIVE"
                                   ELSE IF IsGap(z) THEN "PARTIALLY_FILLED" ELSE "MITIGATED"
                ELSE /\ z.ended = End(first)
                     /\ z.status = IF ClosedThrough(z, first) THEN "INVALIDATED" ELSE "FILLED"
<1>1. \A c : Depth(z, c) = IF z.direction = "BULLISH" THEN z.high - c.low ELSE c.high - z.low
  BY DEF Depth
<1>. QED  BY <1>1 DEF ZoneFate, Decides, Touched

\* A candle later than all others carries the fate of a zone on: it ends it or
\* fills it deeper, unless an earlier one has ended it.
LEMMA ZoneFateStep ==
    ASSUME NEW c \in Candle, NEW cs, Before(cs, c), NEW z \in PricedZone, ZoneFate(z, cs)
    PROVE  ZoneFate(ZoneAfter(z, c), cs \cup {c})
<1>. DEFINE y == ZoneAfter(z, c)
            ds == cs \cup {c}
            old == {d \in Since(z, cs) : Decides(z, d)}
            new == {d \in Since(z, ds) : Decides(z, d)}
            touched == {d \in Since(z, cs) : Touched(z, d)}
            touching == {d \in Since(z, ds) : Touched(z, d)}
            deepest == Max({Depth(z, d) : d \in touched} \cup {0})
            deeper == Max({Depth(z, d) : d \in touching} \cup {0})
<1>1. /\ y \in PricedZone /\ y.kind = z.kind /\ y.direction = z.direction
      /\ y.low = z.low /\ y.high = z.high /\ y.confirmed = z.confirmed
      /\ z.confirmed \in Nat /\ c.time \in Nat
  BY ZoneAfterIs, ZoneTypes, CandleTypes
<1>2. IF old = {}
        THEN /\ IsGap(z) => z.fill = deepest
             /\ z.status = IF touched = {} THEN IF IsGap(z) THEN "OPEN" ELSE "ACTIVE"
                           ELSE IF IsGap(z) THEN "PARTIALLY_FILLED" ELSE "MITIGATED"
        ELSE /\ z.ended = End(FirstOf(old))
             /\ z.status = IF ClosedThrough(z, FirstOf(old)) THEN "INVALIDATED" ELSE "FILLED"
  BY ZoneFateIs
<1>3. SUFFICES
        IF new = {}
          THEN /\ IsGap(z) => y.fill = deeper
               /\ y.status = IF touching = {} THEN IF IsGap(z) THEN "OPEN" ELSE "ACTIVE"
                             ELSE IF IsGap(z) THEN "PARTIALLY_FILLED" ELSE "MITIGATED"
          ELSE /\ y.ended = End(FirstOf(new))
               /\ y.status = IF ClosedThrough(z, FirstOf(new)) THEN "INVALIDATED" ELSE "FILLED"
  <2>1. /\ Since(y, ds) = Since(z, ds) /\ IsGap(y) = IsGap(z)
        /\ \A d : /\ Decides(y, d) = Decides(z, d) /\ Touched(y, d) = Touched(z, d)
                  /\ ClosedThrough(y, d) = ClosedThrough(z, d) /\ Depth(y, d) = Depth(z, d)
    BY <1>1 DEF Since, IsGap, Decides, Touched, ClosedThrough, Depth, Passes
  <2>2. /\ {d \in Since(y, ds) : Decides(y, d)} = new
        /\ {d \in Since(y, ds) : Touched(y, d)} = touching
        /\ {Depth(y, d) : d \in touching} = {Depth(z, d) : d \in touching}
        /\ ClosedThrough(y, FirstOf(new)) = ClosedThrough(z, FirstOf(new))
    BY <2>1
  <2>. DEFINE moving == {Depth(y, d) : d \in touching} \cup {0}
  <2>3. Max(moving) = deeper
    BY <2>2
  <2>. HIDE DEF new, touching, deeper, moving
  <2>4. ZoneFate(y, ds) <=>
          IF new = {}
            THEN /\ IsGap(y) => y.fill = Max(moving)
                 /\ y.status = IF touching = {} THEN IF IsGap(y) THEN "OPEN" ELSE "ACTIVE"
                               ELSE IF IsGap(y) THEN "PARTIALLY_FILLED" ELSE "MITIGATED"
            ELSE /\ y.ended = End(FirstOf(new))
                 /\ y.status = IF ClosedThrough(y, FirstOf(new)) THEN "INVALIDATED" ELSE "FILLED"
    <3>. HIDE DEF y, ds
    <3>. QED  BY <2>2, ZoneFateIs DEF moving
  <2>. HIDE DEF y
  <2>5. ZoneFate(y, ds)
    BY <1>3, <2>1, <2>2, <2>3, <2>4
  <2>. QED  BY <2>5 DEF y
<1>. DEFINE later == z.confirmed > c.time
<1>4. /\ new = IF ~later /\ Decides(z, c) THEN old \cup {c} ELSE old
      /\ touching = IF ~later /\ Touched(z, c) THEN touched \cup {c} ELSE touched
      /\ later => old = {}
  <2>. DEFINE S == Since(z, cs)
              U == Since(z, ds)
  <2>1. U = (IF later THEN S ELSE S \cup {c}) /\ (later => S = {})
    BY <1>1, SinceIs
  <2>2. /\ old = {d \in S : Decides(z, d)} /\ new = {d \in U : Decides(z, d)}
        /\ touched = {d \in S : Touched(z, d)} /\ touching = {d \in U : Touched(z, d)}
    OBVIOUS
  <2>. HIDE DEF old, new, touched, touching, S, U, later
  <2>. QED  BY <2>1, <2>2
<1>5. /\ old \in SUBSET Candle /\ old \subseteq cs
      /\ touched \in SUBSET Candle /\ touched \subseteq Since(z, cs)
  BY <1>1, SinceIs
<1>6. CASE old # {}
  <2>1. new # {} /\ FirstOf(new) = FirstOf(old)
    <3>. HIDE DEF old, new, later
    <3>. QED  BY <1>4, <1>5, <1>6, FirstStays
  <2>2. y = z
    <3>1. ZoneIsOver(z)
      BY <1>2, <1>6 DEF ZoneIsOver
    <3>. QED  BY <3>1 DEF ZoneAfter
  <2>. QED  BY <1>2, <1>6, <2>1, <2>2
<1>7. CASE old = {} /\ later
  <2>1. y = z
    BY <1>7 DEF ZoneAfter
  <2>. QED  BY <1>2, <1>4, <1>7, <2>1
<1>8. CASE old = {} /\ ~later
  <2>. DEFINE fill == Fill(z, c)
              h == z.high - z.low
              invalid == [z EXCEPT !.status = "INVALIDATED", !.ended = End(c)]
              filled == [z EXCEPT !.status = "FILLED", !.fill = fill, !.ended = End(c)]
              partly == [z EXCEPT !.status = "PARTIALLY_FILLED", !.fill = fill]
              mitigated == [z EXCEPT !.status = "MITIGATED"]
  <2>1. ~ZoneIsOver(z)
    BY <1>2, <1>8 DEF ZoneIsOver
  <2>2. y = IF ClosedThrough(z, c) THEN invalid
            ELSE IF c.low > z.high \/ c.high < z.low THEN z
            ELSE IF z.kind \in {"OB", "BREAKER"} THEN mitigated
            ELSE IF fill = h THEN filled ELSE partly
    BY <1>8, <2>1 DEF ZoneAfter
  <2>3. /\ (c.low > z.high \/ c.high < z.low) <=> ~Touched(z, c)
        /\ z.kind \in {"OB", "BREAKER"} <=> ~IsGap(z)
    BY ZoneTypes, CandleTypes DEF Touched, IsGap
  <2>4. FirstOf({c}) = c
    BY <1>1, FirstAlone
  <2>5. /\ invalid.status = "INVALIDATED" /\ invalid.ended = End(c)
        /\ filled.status = "FILLED" /\ filled.ended = End(c)
        /\ partly.status = "PARTIALLY_FILLED" /\ partly.fill = fill
        /\ mitigated.status = "MITIGATED"
    BY DEF PricedZone, Zone
  <2>. HIDE DEF y, old, new, touched, touching, later, fill, invalid, filled, partly, mitigated
  <2>6. CASE ClosedThrough(z, c)
    <3>1. new = {c}
      BY <1>4, <1>8, <2>6 DEF Decides
    <3>. QED  BY <2>2, <2>4, <2>5, <2>6, <3>1
  <2>7. CASE ~ClosedThrough(z, c) /\ ~Touched(z, c)
    <3>1. ~Decides(z, c)
      BY <2>7, DepthIs DEF Decides
    <3>2. new = {} /\ touching = touched /\ y = z
      BY <1>4, <1>8, <2>2, <2>3, <2>7, <3>1
    <3>. QED  BY <1>2, <1>8, <3>2
  <2>8. CASE ~ClosedThrough(z, c) /\ Touched(z, c) /\ ~IsGap(z)
    <3>1. ~Decides(z, c)
      BY <2>8 DEF Decides, Passes
    <3>2. new = {} /\ touching # {} /\ y = mitigated
      BY <1>4, <1>8, <2>2, <2>3, <2>8, <3>1
    <3>. QED  BY <2>5, <2>8, <3>2
  <2>9. CASE ~ClosedThrough(z, c) /\ Touched(z, c) /\ IsGap(z)
    <3>1. \A d \in touched : Touched(z, d) /\ ~Decides(z, d)
      BY <1>5, <1>8 DEF touched, old
    <3>2. /\ deepest \in Nat /\ deepest < h
          /\ ~Decides(z, c) => Max({Depth(z, d) : d \in touched \cup {c}} \cup {0})
                                 = IF deepest >= Depth(z, c) THEN deepest ELSE Depth(z, c)
      BY <1>5, <2>9, <3>1, DeepestIs
    <3>3. z.fill = deepest
      BY <1>2, <1>8, <2>9
    <3>4. /\ h \in Nat /\ Depth(z, c) \in Nat /\ (Passes(z, c) <=> h <= Depth(z, c))
      BY <2>9, ZoneTypes, DepthIs
    <3>5. fill = LET deep == IF z.fill >= Depth(z, c) THEN z.fill ELSE Depth(z, c)
                 IN IF h <= deep THEN h ELSE deep
      BY FillIs DEF fill
    <3>. HIDE DEF h, deepest
    <3>6. CASE Passes(z, c)
      <4>1. fill = h
        BY <3>2, <3>3, <3>4, <3>5, <3>6
      <4>2. new = {c} /\ y = filled
        BY <1>4, <1>8, <2>2, <2>3, <2>9, <3>6, <4>1 DEF Decides
      <4>. QED  BY <2>4, <2>5, <2>9, <4>2
    <3>7. CASE ~Passes(z, c)
      <4>1. ~Decides(z, c)
        BY <2>9, <3>7 DEF Decides
      <4>2. fill = (IF deepest >= Depth(z, c) THEN deepest ELSE Depth(z, c)) /\ fill # h
        BY <3>2, <3>3, <3>4, <3>5, <3>7
      <4>3. new = {} /\ touching = touched \cup {c} /\ y = partly
        BY <1>4, <1>8, <2>2, <2>3, <2>9, <4>1, <4>2
      <4>4. deeper = fill
        BY <3>2, <4>1, <4>2, <4>3
      <4>. QED  BY <2>5, <2>9, <4>3, <4>4
    <3>. QED  BY <3>6, <3>7
  <2>. QED  BY <2>6, <2>7, <2>8, <2>9
<1>. QED  BY <1>6, <1>7, <1>8

\* A zone just confirmed has no fate yet.
LEMMA FreshZoneFate ==
    ASSUME NEW c \in Candle, NEW cs, Before(cs, c), NEW z \in PricedZone, FreshZone(z, c)
    PROVE  ZoneFate(z, cs \cup {c})
<1>1. Since(z, cs \cup {c}) = {}
  BY CandleTypes DEF FreshZone, Since, Before, End
<1>. DEFINE none == {Depth(z, d) : d \in {d \in Since(z, cs \cup {c}) : Touched(z, d)}} \cup {0}
<1>2. none = {0}
  BY <1>1
<1>3. Max(none) = 0
  <2>1. {0} \in SUBSET (0..0) /\ 0 \in {0} /\ \A y \in {0} : y <= 0
    OBVIOUS
  <2>. QED  BY <1>2, <2>1, GreatestIs
<1>4. {d \in Since(z, cs \cup {c}) : Decides(z, d)} = {} /\
      {d \in Since(z, cs \cup {c}) : Touched(z, d)} = {}
  BY <1>1
<1>5. IsGap(z) => z.fill = Max(none)
  BY <1>3 DEF FreshZone
<1>6. z.status = IF IsGap(z) THEN "OPEN" ELSE "ACTIVE"
  BY DEF FreshZone, IsGap
<1>. QED  BY <1>4, <1>5, <1>6, ZoneFateIs

-----------------------------------------------------------------------------
(* Finite sets of what a sequence holds *)

\* A sequence has finitely many elements.
LEMMA ToSetIsFinite ==
    ASSUME NEW T, NEW s \in Seq(T)
    PROVE  IsFiniteSet(ToSet(s))
<1>1. Len(s) \in Nat /\ ToSet(s) = {s[i] : i \in 1..Len(s)} /\ DOMAIN s = 1..Len(s)
  BY ToSetOf
<1>2. s \in Surjection(1..Len(s), ToSet(s))
  <2>1. s \in [1..Len(s) -> ToSet(s)]
    BY <1>1
  <2>2. \A x \in ToSet(s) : \E i \in 1..Len(s) : s[i] = x
    BY <1>1
  <2>. QED  BY <2>1, <2>2 DEF Surjection
<1>3. IsFiniteSet(1..Len(s))
  BY <1>1, FS_Interval
<1>. QED  BY <1>2, <1>3, FS_Surjection

\* The image of a finite set is finite.
LEMMA ImageIsFinite ==
    ASSUME NEW S, IsFiniteSet(S), NEW f
    PROVE  IsFiniteSet({f[x] : x \in S})
<1>. DEFINE T == {f[x] : x \in S}
            g == [x \in S |-> f[x]]
<1>1. g \in Surjection(S, T)
  <2>1. g \in [S -> T] /\ \A t \in T : \E x \in S : g[x] = t
    OBVIOUS
  <2>. HIDE DEF g, T
  <2>. QED  BY <2>1 DEF Surjection
<1>. HIDE DEF g, T
<1>2. IsFiniteSet(T)
  BY <1>1, FS_Surjection
<1>. QED  BY <1>2 DEF T

\* The greatest and the least price, and the latest confirmation, of some swings.
LEMMA SwingExtrema ==
    ASSUME NEW S \in SUBSET PricedSwing, IsFiniteSet(S), S # {}
    PROVE  LET prices == {s.price : s \in S}
               times == {s.confirmed : s \in S}
           IN /\ Max(prices) \in prices /\ Min(prices) \in prices
              /\ Max(prices) \in Price /\ Min(prices) \in Price
              /\ IsFiniteSet(times) /\ Max(times) \in times /\ Max(times) \in Nat
<1>. DEFINE prices == {s.price : s \in S}
            times == {s.confirmed : s \in S}
            f == [s \in PricedSwing |-> s.price]
            g == [s \in PricedSwing |-> s.confirmed]
<1>1. prices = {f[s] : s \in S} /\ times = {g[s] : s \in S}
  OBVIOUS
<1>2. prices \in SUBSET Price /\ times \in SUBSET Nat /\ prices # {} /\ times # {}
  BY DEF PricedSwing, SwingPoint
<1>. HIDE DEF f, g, prices, times
<1>3. IsFiniteSet(prices) /\ IsFiniteSet(times)
  BY <1>1, ImageIsFinite
<1>4. prices \in SUBSET Int /\ times \in SUBSET Int
  BY <1>2 DEF Price
<1>5. Max(prices) \in prices /\ Min(prices) \in prices /\ Max(times) \in times
  BY <1>2, <1>3, <1>4, FiniteExtrema
<1>. QED  BY <1>2, <1>3, <1>5 DEF prices, times

-----------------------------------------------------------------------------
(* What a playbook reads off the engine *)

PriceRange == [low : Price, high : Price, origin : Nat, confirmed : Nat]

\* The fields of a swing.
LEMMA SwingTypes ==
    ASSUME NEW s \in PricedSwing
    PROVE  /\ s.scope \in ToSet(Scopes) /\ s.kind \in {"HIGH", "LOW"}
           /\ s.price \in Price /\ s.price \in Nat /\ s.at \in Nat /\ s.confirmed \in Nat
BY DEF PricedSwing, SwingPoint, Price

\* No object of the engine is the absent one.
LEMMA NothingIsNone ==
    /\ \A s \in PricedSwing : s # Nothing
    /\ \A s \in StructureEvent : s # Nothing
    /\ \A l \in PricedLevel : l # Nothing
    /\ \A z \in PricedZone : z # Nothing
BY DEF PricedSwing, SwingPoint, StructureEvent, PricedLevel, LiquidityLevel, PricedZone, Zone,
       Nothing

\* A dealing range, if there is one, is of positive height.
LEMMA RangeIs ==
    ASSUME NEW s \in Engine
    PROVE  DealingRange(s) \in PriceRange \cup {Nothing}
<1>1. ASSUME NEW scope
      PROVE  RangeOfScope(s, scope) \in PriceRange \cup {Nothing}
  <2>. DEFINE pivots == {w \in ToSet(s.swings) : w.scope = scope}
              last == LastIn(s.swings, pivots)
              others == {w \in pivots : w.kind # last.kind}
              previous == LastIn(s.swings, others)
              low == IF last.kind = "LOW" THEN last.price ELSE previous.price
              high == IF last.kind = "HIGH" THEN last.price ELSE previous.price
              range == [low |-> low, high |-> high, origin |-> previous.at,
                        confirmed |-> last.confirmed]
  <2>1. \A S : LastIn(s.swings, S) = Nothing \/ LastIn(s.swings, S) \in PricedSwing
    BY EngineTypes, LastInIs, ToSetOf
  <2>2. \/ RangeOfScope(s, scope) = Nothing
        \/ (last # Nothing /\ previous # Nothing /\ RangeOfScope(s, scope) = range)
    BY DEF RangeOfScope
  <2>3. (last = Nothing \/ last \in PricedSwing) /\ (previous = Nothing \/ previous \in PricedSwing)
    BY <2>1
  <2>. HIDE DEF last, previous
  <2>4. last # Nothing /\ previous # Nothing => range \in PriceRange
    BY <2>3, SwingTypes DEF PriceRange
  <2>. QED  BY <2>2, <2>4
<1>. QED  BY <1>1 DEF DealingRange

\* The prices a target is chosen from are prices.
LEMMA PricesAre ==
    ASSUME NEW s \in Engine, NEW long \in BOOLEAN
    PROVE  ConfirmedPrices(s, long) \subseteq Price
<1>1. \A w \in ToSet(s.swings) : w.price \in Price
  BY EngineTypes, ToSetOf, SwingTypes
<1>2. \A l \in ToSet(s.levels) : l.price \in Price
  BY EngineTypes, ToSetOf, LevelTypes
<1>3. \A z \in ToSet(s.zones) : z.low \in Price
  BY EngineTypes, ToSetOf, ZoneTypes
<1>4. Middle(DealingRange(s), long) \subseteq Price
  <2>1. \A r \in PriceRange : (r.low + r.high + IF long THEN 0 ELSE 1) \div 2 \in Price
    <3>. SUFFICES ASSUME NEW r \in PriceRange
                  PROVE  (r.low + r.high + IF long THEN 0 ELSE 1) \div 2 \in Price
      OBVIOUS
    <3>. DEFINE a == r.low
                b == r.high
    <3>1. a \in Nat /\ b \in Nat /\ a > 0 /\ b > 0
      BY DEF PriceRange, Price
    <3>. HIDE DEF a, b
    <3>2. (a + b + 0) \div 2 \in Price /\ (a + b + 1) \div 2 \in Price
      BY <3>1 DEF Price
    <3>. QED  BY <3>2 DEF a, b
  <2>. QED  BY <2>1, RangeIs DEF Middle
<1>. QED  BY <1>1, <1>2, <1>3, <1>4 DEF ConfirmedPrices

\* The recursive function that PatternPivots is defined by keeps to swings.
LEMMA PatternPivotsAre ==
    ASSUME NEW s \in Engine
    PROVE  /\ PatternPivots(s) \in Seq(PricedSwing)
           /\ ToSet(PatternPivots(s)) \subseteq ToSet(s.swings)
<1>. DEFINE internal == Only(s.swings, {w \in ToSet(s.swings) : w.scope = "INTERNAL"})
            V == Seq(ToSet(s.swings))
            Step(pivots, w) ==
              IF pivots = <<>> \/ (pivots # <<>> /\ Last(pivots).kind # w.kind)
                THEN Append(pivots, w)
              ELSE IF (w.price > Last(pivots).price) = (w.kind = "HIGH")
                THEN Append(Front(pivots), w)
              ELSE pivots
            Rule(g, n) == IF n = 0 THEN <<>> ELSE Step(g[n - 1], internal[n])
            F == [i \in 1..Len(internal) |-> [k \in V |-> Step(k, internal[i])]]
            Upto(g) == g = [n \in 0..Len(internal) |-> Rule(g, n)]
            pivots == CHOOSE g : Upto(g)
<1>1. /\ internal \in Seq(ToSet(s.swings)) /\ Len(internal) \in Nat
      /\ \A i \in 1..Len(internal) : internal[i] \in ToSet(s.swings)
      /\ s.swings \in Seq(PricedSwing) /\ ToSet(s.swings) \subseteq PricedSwing
  <2>1. s.swings \in Seq(ToSet(s.swings)) /\ ToSet(s.swings) \subseteq PricedSwing
    <3>1. /\ s.swings \in Seq(PricedSwing) /\ Len(s.swings) \in Nat
          /\ DOMAIN s.swings = 1..Len(s.swings)
          /\ \A i \in 1..Len(s.swings) : s.swings[i] \in ToSet(s.swings)
      BY EngineTypes, ToSetOf
    <3>. QED  BY <3>1, ToSetOf
  <2>2. internal \in Seq(ToSet(s.swings))
    BY <2>1, OnlyKeeps
  <2>. HIDE DEF internal
  <2>. QED  BY <2>1, <2>2, EngineTypes, ToSetOf
<1>2. PatternPivots(s) = pivots[Len(internal)]
  BY DEF PatternPivots
<1>. HIDE DEF internal
<1>3. \A k \in V, w \in ToSet(s.swings) : Step(k, w) \in V
  <2>. SUFFICES ASSUME NEW k \in V, NEW w \in ToSet(s.swings)
                PROVE  Step(k, w) \in V
    OBVIOUS
  <2>1. Append(k, w) \in V
    OBVIOUS
  <2>2. k # <<>> => Append(Front(k), w) \in V
    BY DEF Front
  <2>. HIDE DEF V
  <2>. QED  BY <2>1, <2>2
<1>4. F \in Rules(V, Len(internal)) /\ <<>> \in V
  <2>. HIDE DEF Step
  <2>1. \A i \in 1..Len(internal) : [k \in V |-> Step(k, internal[i])] \in [V -> V]
    BY <1>1, <1>3
  <2>. QED  BY <2>1 DEF Rules
<1>5. \A i \in 1..Len(internal), k \in V : F[i][k] = Step(k, internal[i])
  OBVIOUS
<1>. HIDE DEF F, V
<1>6. PICK g \in [0..Len(internal) -> V] : Follows(g, V, <<>>, Len(internal), F)
  BY <1>1, <1>4, Recursion
<1>7. \A n \in 0..Len(internal) : g[n] = Rule(g, n)
  <2>1. \A i \in 1..Len(internal) : i - 1 \in 0..Len(internal)
    BY <1>1
  <2>. HIDE DEF Step
  <2>. QED  BY <1>1, <1>5, <1>6, <2>1 DEF Follows
<1>8. Upto(g)
  <2>. HIDE DEF Rule
  <2>. QED  BY <1>7
<1>9. Upto(pivots)
  <2>. HIDE DEF Upto
  <2>. QED  BY <1>8
<1>. HIDE DEF pivots
<1>10. \A n \in 0..Len(internal) : pivots[n] = Rule(pivots, n)
  <2>. HIDE DEF Rule
  <2>. QED  BY <1>9
<1>11. pivots[0] = <<>>
       /\ \A i \in 1..Len(internal) : pivots[i] = Step(pivots[i - 1], internal[i])
  <2>. HIDE DEF Step
  <2>. QED  BY <1>1, <1>10
<1>12. Follows(pivots, V, <<>>, Len(internal), F)
  <2>. HIDE DEF Step
  <2>1. ASSUME NEW i \in 1..Len(internal), pivots[i - 1] \in V
        PROVE  pivots[i] = F[i][pivots[i - 1]]
    BY <1>5, <1>11, <2>1
  <2>. QED  BY <1>11, <2>1 DEF Follows
<1>13. PatternPivots(s) \in V
  BY <1>1, <1>2, <1>4, <1>12, RecursionKeeps
<1>. QED  BY <1>1, <1>13, ToSetOf DEF V

\* A shape's points are confirmed swings, and its neckline is one of their prices.
ShapeOf(s, shape) ==
  /\ shape.points \in Seq(ToSet(s.swings)) /\ shape.points # <<>>
  /\ shape.neck \in Price /\ shape.long \in BOOLEAN

\* Every shape of three or five pivots (patterns.py) has prices of its pivots.
LEMMA ShapesAre ==
    ASSUME NEW s \in Engine, NEW p \in Seq(ToSet(s.swings))
    PROVE  /\ Len(p) = 3 => \A shape \in Shapes3(p) : ShapeOf(s, shape)
           /\ Len(p) = 5 => \A shape \in Shapes5(p) : ShapeOf(s, shape)
<1>1. \A i \in 1..Len(p) : p[i].price \in Price /\ p[i].price \in Int
  <2>1. \A w \in ToSet(s.swings) : w.price \in Price /\ w.price \in Int
    BY EngineTypes, ToSetOf, SwingTypes
  <2>. QED  BY <2>1
<1>2. ASSUME Len(p) = 3, NEW shape \in Shapes3(p)
      PROVE  ShapeOf(s, shape)
  <2>1. shape = [points |-> p, neck |-> p[2].price, long |-> p[1].kind = "LOW"]
    BY <1>2 DEF Shapes3
  <2>2. 2 \in 1..Len(p) /\ p # <<>>
    BY <1>2
  <2>. QED  BY <1>1, <2>1, <2>2 DEF ShapeOf
<1>3. ASSUME Len(p) = 5, NEW shape \in Shapes5(p)
      PROVE  ShapeOf(s, shape)
  <2>. DEFINE top == p[1].kind = "HIGH"
              neck == IF top THEN Min({p[2].price, p[4].price}) ELSE Max({p[2].price, p[4].price})
  <2>1. shape = [points |-> p, neck |-> neck, long |-> ~top]
    BY <1>3 DEF Shapes5
  <2>2. 2 \in 1..Len(p) /\ 4 \in 1..Len(p) /\ p # <<>>
    <3>1. Len(p) = 5
      BY <1>3
    <3>2. p # <<>>
      <4>. SUFFICES ASSUME p = <<>>
                    PROVE  FALSE
        OBVIOUS
      <4>. HIDE DEF top, neck
      <4>1. Len(p) = 0
        OBVIOUS
      <4>. QED  BY <3>1, <4>1
    <3>. QED  BY <3>1, <3>2
  <2>3. /\ Min({p[2].price, p[4].price}) \in Price
        /\ Max({p[2].price, p[4].price}) \in Price
    BY <1>1, <2>2, ExtremaOfTwo
  <2>4. neck \in Price
    BY <2>3
  <2>. HIDE DEF neck
  <2>. QED  BY <2>1, <2>2, <2>4 DEF ShapeOf
<1>. QED  BY <1>2, <1>3

\* The prices of a pattern are those of confirmed swings, and it is detected
\* when one of them is.
LEMMA PatternsAre ==
    ASSUME NEW s \in Engine, NEW p \in Patterns(s)
    PROVE  /\ p.neck \in Price /\ p.low \in Price /\ p.high \in Price
           /\ p.detected \in {w.confirmed : w \in ToSet(s.swings)}
<1>. DEFINE pivots == PatternPivots(s)
            runs(n) == {SubSeq(pivots, i, i + n - 1) : i \in 1..Len(pivots) - n + 1}
            shapes == (UNION {Shapes3(r) : r \in runs(3)}) \cup (UNION {Shapes5(r) : r \in runs(5)})
<1>1. \E shape \in shapes : p = Pattern(shape, s)
  BY DEF Patterns
<1>2. PICK shape \in shapes : p = Pattern(shape, s)
  BY <1>1
<1>3. /\ pivots \in Seq(ToSet(s.swings)) /\ Len(pivots) \in Nat
      /\ ToSet(s.swings) \subseteq PricedSwing /\ IsFiniteSet(ToSet(s.swings))
  <2>1. pivots \in Seq(PricedSwing) /\ ToSet(pivots) \subseteq ToSet(s.swings)
    BY PatternPivotsAre
  <2>. HIDE DEF pivots
  <2>2. pivots \in Seq(ToSet(s.swings)) /\ Len(pivots) \in Nat
    BY <2>1, ToSetOf
  <2>. QED  BY <2>2, EngineTypes, ToSetOf, ToSetIsFinite
<1>4. \A n \in {3, 5} : \A r \in runs(n) : r \in Seq(ToSet(s.swings)) /\ Len(r) = n
  <2>. DEFINE T == ToSet(s.swings)
  <2>1. \A n \in {3, 5} : \A i \in 1..Len(pivots) - n + 1 :
          /\ SubSeq(pivots, i, i + n - 1) \in Seq(T)
          /\ Len(SubSeq(pivots, i, i + n - 1)) = n
    <3>. HIDE DEF pivots, T
    <3>1. pivots \in Seq(T)
      BY <1>3 DEF T
    <3>. QED  BY <1>3, <3>1
  <2>. HIDE DEF pivots
  <2>2. \A n : \A r \in runs(n) : \E i \in 1..Len(pivots) - n + 1 : r = SubSeq(pivots, i, i + n - 1)
    OBVIOUS
  <2>. HIDE DEF runs, T
  <2>3. ASSUME NEW n \in {3, 5}, NEW r \in runs(n)
        PROVE  r \in Seq(T) /\ Len(r) = n
    <3>1. PICK i \in 1..Len(pivots) - n + 1 : r = SubSeq(pivots, i, i + n - 1)
      BY <2>2
    <3>. QED  BY <2>1, <3>1
  <2>. QED  BY <2>3 DEF T
<1>5. ShapeOf(s, shape)
  <2>1. (\E r \in runs(3) : shape \in Shapes3(r)) \/ (\E r \in runs(5) : shape \in Shapes5(r))
    BY <1>2
  <2>. HIDE DEF runs
  <2>. QED  BY <1>4, <2>1, ShapesAre
<1>. DEFINE points == ToSet(shape.points)
            prices == {w.price : w \in points}
            times == {w.confirmed : w \in points}
<1>6. points \subseteq ToSet(s.swings) /\ points # {} /\ points \subseteq PricedSwing
      /\ IsFiniteSet(points)
  <2>. DEFINE q == shape.points
              T == ToSet(s.swings)
  <2>1. q \in Seq(T) /\ q # <<>>
    BY <1>5 DEF ShapeOf
  <2>. HIDE DEF q, T
  <2>2. ToSet(q) \subseteq T /\ IsFiniteSet(ToSet(q))
    BY <2>1, ToSetOf, ToSetIsFinite
  <2>3. 1 \in 1..Len(q)
    BY <2>1
  <2>4. q[1] \in ToSet(q)
    BY <2>1, <2>3, ToSetOf
  <2>. QED  BY <1>3, <2>2, <2>4 DEF q, T
<1>7. /\ Max(prices) \in Price /\ Min(prices) \in Price /\ Max(times) \in times
  <2>. HIDE DEF points
  <2>. QED  BY <1>6, SwingExtrema
<1>8. /\ p.neck = shape.neck /\ p.low = Min(prices) /\ p.high = Max(prices)
      /\ p.detected = Max(times)
  BY <1>2 DEF Pattern
<1>9. times \subseteq {w.confirmed : w \in ToSet(s.swings)}
  BY <1>6
<1>. QED  BY <1>5, <1>7, <1>8, <1>9 DEF ShapeOf

\* The latest pattern is one of the patterns.
LEMMA LatestPatternIs ==
    ASSUME NEW ctx, ctx.st \in Engine, NEW long
    PROVE  LatestPattern(ctx, long) = Nothing \/ LatestPattern(ctx, long) \in Patterns(ctx.st)
<1>. DEFINE usable == {p \in Patterns(ctx.st) :
                         p.status = "CONFIRMED" /\ p.long = long /\ p.confirmed <= Latest(ctx).time}
            times == {p.detected : p \in usable}
            all == {w.confirmed : w \in ToSet(ctx.st.swings)}
<1>1. CASE usable = {}
  BY <1>1 DEF LatestPattern
<1>2. CASE usable # {}
  <2>1. usable \subseteq Patterns(ctx.st)
    OBVIOUS
  <2>2. times \subseteq all /\ times # {}
    <3>1. \A p \in Patterns(ctx.st) : p.detected \in all
      BY PatternsAre
    <3>. QED  BY <1>2, <2>1, <3>1
  <2>3. all \in SUBSET Int /\ IsFiniteSet(all)
    <3>. DEFINE S == ToSet(ctx.st.swings)
                f == [w \in PricedSwing |-> w.confirmed]
    <3>1. S \subseteq PricedSwing /\ IsFiniteSet(S)
      BY EngineTypes, ToSetOf, ToSetIsFinite
    <3>2. all = {f[w] : w \in S}
      BY <3>1
    <3>3. all \in SUBSET Int
      BY <3>1, SwingTypes
    <3>. HIDE DEF S, f, all
    <3>. QED  BY <3>1, <3>2, <3>3, ImageIsFinite
  <2>4. \E m \in times : \A t \in times : t <= m
    <3>1. times \in SUBSET Int /\ IsFiniteSet(times)
      <4>. HIDE DEF times, all
      <4>. QED  BY <2>2, <2>3, FS_Subset
    <3>. HIDE DEF times
    <3>. QED  BY <2>2, <3>1, FiniteExtrema
  <2>5. \E q \in usable : \A r \in usable : r.detected <= q.detected
    BY <2>4
  <2>6. LatestPattern(ctx, long) = CHOOSE q \in usable : \A r \in usable : r.detected <= q.detected
    BY <1>2 DEF LatestPattern
  <2>. HIDE DEF usable
  <2>. QED  BY <2>1, <2>5, <2>6
<1>. QED  BY <1>1, <1>2

-----------------------------------------------------------------------------
(* Plans *)

\* An entry: a range of prices, and the price its stop is anchored to.
EntryRange(e) == e.low \in Int /\ e.high \in Int /\ e.low <= e.high /\ e.anchor \in Int

\* What strategy/domain.py admits of the numbers used here.
LEMMA StrategyConfigured == Expiry \in Nat \ {0} /\ StopBuffer \in Nat /\ PatternTol \in Nat
                            /\ CoarseBars \in Nat \ {0} /\ MinBars \in Nat \ {0}
BY StrategyAssumption DEF StrategyConfig

\* What a strategy looks for, it finds among the engine's objects.
LEMMA FoundIs ==
    ASSUME NEW ctx, ctx.st \in Engine, NEW strategy, NEW event, NEW long \in BOOLEAN
    PROVE  /\ Confirmation(ctx, long) \in StructureEvent \cup {Nothing}
           /\ Sweep(ctx, long) \in PricedLevel \cup {Nothing}
           /\ RetestedZone(ctx, strategy, event, long) \in PricedZone \cup {Nothing}
<1>1. \A S : LastIn(ctx.st.events, S) = Nothing \/ LastIn(ctx.st.events, S) \in StructureEvent
  BY EngineTypes, LastInIs, ToSetOf
<1>2. \A S : LastIn(ctx.st.levels, S) = Nothing \/ LastIn(ctx.st.levels, S) \in PricedLevel
  BY EngineTypes, LastInIs, ToSetOf
<1>3. \A S : LastIn(ctx.st.zones, S) = Nothing \/ LastIn(ctx.st.zones, S) \in PricedZone
  BY EngineTypes, LastInIs, ToSetOf
<1>. QED  BY <1>1, <1>2, <1>3 DEF Confirmation, Sweep, RetestedZone

\* An entry has its low below its high and its anchor outside.
LEMMA EntryIs ==
    ASSUME NEW ctx, ctx.st \in Engine, NEW strategy, NEW event, NEW long \in BOOLEAN
    PROVE  LET e == Entry(ctx, strategy, event, long)
           IN e = Nothing \/ EntryRange(e)
<1>1. \A p : (p = Nothing \/ p \in Patterns(ctx.st)) =>
        LET e == PatternEntry(ctx, p, event, long) IN e = Nothing \/ EntryRange(e)
  <2>. SUFFICES ASSUME NEW p, p = Nothing \/ p \in Patterns(ctx.st)
                PROVE  LET e == PatternEntry(ctx, p, event, long) IN e = Nothing \/ EntryRange(e)
    OBVIOUS
  <2>. DEFINE new == [low |-> p.neck - PatternTol, high |-> p.neck + PatternTol,
                      anchor |-> IF long THEN p.low ELSE p.high]
  <2>1. PatternEntry(ctx, p, event, long) = Nothing
        \/ (p # Nothing /\ PatternEntry(ctx, p, event, long) = new)
    BY DEF PatternEntry
  <2>2. p # Nothing => EntryRange(new)
    <3>1. p # Nothing => p.neck \in Int /\ p.low \in Int /\ p.high \in Int
      BY PatternsAre DEF Price
    <3>. QED  BY <3>1, StrategyConfigured DEF EntryRange
  <2>. HIDE DEF new
  <2>. QED  BY <2>1, <2>2
<1>2. \A range \in PriceRange \cup {Nothing} :
        LET e == RangeEntry(ctx, range, event, long) IN e = Nothing \/ EntryRange(e)
  <2>. SUFFICES ASSUME NEW range \in PriceRange \cup {Nothing}
                PROVE  LET e == RangeEntry(ctx, range, event, long) IN e = Nothing \/ EntryRange(e)
    OBVIOUS
  <2>. DEFINE bound == IF long THEN range.low ELSE range.high
              new == [low |-> bound - PatternTol, high |-> bound + PatternTol, anchor |-> bound]
  <2>1. RangeEntry(ctx, range, event, long) = Nothing
        \/ (range # Nothing /\ RangeEntry(ctx, range, event, long) = new)
    BY DEF RangeEntry
  <2>2. range # Nothing => EntryRange(new)
    <3>1. range # Nothing => range.low \in Int /\ range.high \in Int
      BY DEF PriceRange, Price
    <3>2. range # Nothing => bound \in Int
      BY <3>1
    <3>. HIDE DEF bound
    <3>. QED  BY <3>2, StrategyConfigured DEF EntryRange
  <2>. HIDE DEF new
  <2>. QED  BY <2>1, <2>2
<1>3. \A zone \in PricedZone \cup {Nothing}, level \in PricedLevel \cup {Nothing} :
        LET e == ZoneEntry(zone, level, long) IN e = Nothing \/ EntryRange(e)
  <2>. SUFFICES ASSUME NEW zone \in PricedZone, NEW level \in PricedLevel \cup {Nothing}
                PROVE  EntryRange(ZoneEntry(zone, level, long))
    BY DEF ZoneEntry
  <2>. DEFINE edge == IF long THEN zone.low ELSE zone.high
              prices == IF level = Nothing THEN {edge} ELSE {edge, level.sweep}
              anchor == IF long THEN Min(prices) ELSE Max(prices)
  <2>1. zone.low \in Int /\ zone.high \in Int /\ zone.low <= zone.high /\ edge \in Int
        /\ (level # Nothing => level.sweep \in Int)
    BY ZoneTypes, LevelTypes
  <2>2. ZoneEntry(zone, level, long) = [low |-> zone.low, high |-> zone.high, anchor |-> anchor]
    <3>1. zone # Nothing
      BY NothingIsNone
    <3>2. (IF level = Nothing THEN (IF long THEN {zone.low} ELSE {zone.high})
           ELSE (IF long THEN {zone.low} ELSE {zone.high}) \cup {level.sweep}) = prices
      OBVIOUS
    <3>. QED  BY <3>1, <3>2 DEF ZoneEntry
  <2>3. anchor \in Int
    <3>. HIDE DEF edge
    <3>1. \E x \in Int : prices = {edge, x}
      <4>1. CASE level = Nothing
        BY <2>1, <4>1
      <4>2. CASE level # Nothing
        BY <2>1, <4>2
      <4>. QED  BY <4>1, <4>2
    <3>. HIDE DEF prices
    <3>2. PICK x \in Int : prices = {edge, x}
      BY <3>1
    <3>3. Min({edge, x}) \in Int /\ Max({edge, x}) \in Int
      BY <2>1, ExtremaOfTwo
    <3>. QED  BY <3>2, <3>3
  <2>. HIDE DEF anchor
  <2>. QED  BY <2>1, <2>2, <2>3 DEF EntryRange
<1>. DEFINE p == LatestPattern(ctx, long)
            range == DealingRange(ctx.st)
            zone == RetestedZone(ctx, strategy, event, long)
            level == Sweep(ctx, long)
<1>4. /\ p = Nothing \/ p \in Patterns(ctx.st)
      /\ range \in PriceRange \cup {Nothing} /\ zone \in PricedZone \cup {Nothing}
      /\ level \in PricedLevel \cup {Nothing}
  BY LatestPatternIs, RangeIs, FoundIs
<1>5. Entry(ctx, strategy, event, long)
        \in {PatternEntry(ctx, p, event, long), RangeEntry(ctx, range, event, long),
             ZoneEntry(zone, level, long)}
  BY DEF Entry
<1>. HIDE DEF p, range, zone, level
<1>. QED  BY <1>1, <1>2, <1>3, <1>4, <1>5

\* A plan built on an entry (_structural_plan) is one that strategy/domain.py
\* admits: its stop outside the entry, its target beyond it, its life not over.
LEMMA StructuralPlanIs ==
    ASSUME NEW ctx, ctx.at \in Nat, NEW entry, entry = Nothing \/ EntryRange(entry),
           NEW event \in StructureEvent, ctx.at < event.confirmed + Expiry,
           NEW prices \in SUBSET Price, NEW long \in BOOLEAN
    PROVE  LET plan == StructuralPlan(ctx, entry, event, prices, long)
           IN plan = Nothing \/ (plan \in TradePlanSuggestion /\ plan.at = ctx.at
                                 /\ plan.long = long)
<1>. DEFINE stop == IF long THEN entry.anchor - StopBuffer ELSE entry.anchor + StopBuffer
            beyond == {p \in prices : IF long THEN p > entry.high ELSE p < entry.low}
            target == IF long THEN Min(beyond) ELSE Max(beyond)
            plan == StructuralPlan(ctx, entry, event, prices, long)
            new == [long |-> long, low |-> entry.low, high |-> entry.high, stop |-> stop,
                    target |-> target, at |-> ctx.at, expires |-> event.confirmed + Expiry,
                    evidence |-> event]
            unfit == \/ entry = Nothing \/ stop <= 0
                     \/ (IF long THEN stop >= entry.low ELSE stop <= entry.high)
                     \/ Cardinality(beyond) < 2
<1>1. plan = Nothing \/ (plan = new /\ ~unfit)
  BY DEF StructuralPlan
<1>. HIDE DEF plan
<1>2. ASSUME ~unfit
      PROVE  new \in TradePlanSuggestion
  <2>1. EntryRange(entry)
    BY <1>2
  <2>2. stop \in Int
    BY <2>1, StrategyConfigured DEF EntryRange
  <2>. HIDE DEF stop
  <2>3. /\ stop > 0 /\ IF long THEN stop < entry.low ELSE stop > entry.high
        /\ ~(Cardinality(beyond) < 2)
    BY <1>2, <2>1, <2>2 DEF EntryRange
  <2>4. beyond # {}
    <3>1. Cardinality({}) = 0
      BY FS_EmptySet
    <3>. HIDE DEF beyond
    <3>. QED  BY <2>3, <3>1
  <2>5. target \in Int /\ target > 0 /\ IF long THEN target > entry.high ELSE target < entry.low
    <3>1. \A p \in beyond : /\ p \in Nat /\ p > 0
                            /\ IF long THEN p > entry.high ELSE p < entry.low
      BY DEF Price
    <3>2. CASE long
      <4>. HIDE DEF beyond
      <4>1. beyond \in SUBSET Nat
        BY <3>1
      <4>2. Min(beyond) \in beyond
        BY <2>4, <4>1, MinOfNaturals
      <4>. QED  BY <3>1, <3>2, <4>2
    <3>3. CASE ~long
      <4>. HIDE DEF beyond
      <4>1. entry.low \in Nat
        BY <2>1, <2>4, <3>1, <3>3 DEF EntryRange
      <4>2. beyond \in SUBSET (0..entry.low)
        BY <3>1, <3>3, <4>1
      <4>3. Max(beyond) \in beyond
        BY <2>4, <4>1, <4>2, MaxOfBounded
      <4>. QED  BY <3>1, <3>3, <4>3
    <3>. QED  BY <3>2, <3>3
  <2>. HIDE DEF target
  <2>6. event.confirmed + Expiry \in Nat
    BY StrategyConfigured DEF StructureEvent
  <2>7. entry.low > 0
    BY <2>1, <2>2, <2>3, <2>5 DEF EntryRange
  <2>. QED  BY <2>1, <2>2, <2>3, <2>5, <2>6, <2>7 DEF EntryRange, TradePlanSuggestion
<1>3. new.at = ctx.at /\ new.long = long
  OBVIOUS
<1>. HIDE DEF new, unfit
<1>4. plan = Nothing \/ (plan \in TradePlanSuggestion /\ plan.at = ctx.at /\ plan.long = long)
  BY <1>1, <1>2, <1>3
<1>. QED  BY <1>4 DEF plan

\* So is whatever a strategy decides, and it is made at the time of its context.
LEMMA PlanIs ==
    ASSUME NEW ctx, ctx.st \in Engine, ctx.at \in Nat, NEW strategy
    PROVE  LET plan == Evaluate(ctx, strategy)
           IN plan = Nothing \/ (plan \in TradePlanSuggestion /\ plan.at = ctx.at)
<1>1. ASSUME NEW long \in BOOLEAN
      PROVE  LET plan == SidePlan(ctx, strategy, Confirmation(ctx, long), long)
             IN plan = Nothing \/ (plan \in TradePlanSuggestion /\ plan.at = ctx.at)
  <2>. DEFINE event == Confirmation(ctx, long)
              entry == Entry(ctx, strategy, event, long)
              prices == ConfirmedPrices(ctx.st, long)
              plan == SidePlan(ctx, strategy, event, long)
  <2>1. plan = Nothing
        \/ (~Waiting(ctx, strategy, event, long)
            /\ plan = StructuralPlan(ctx, entry, event, prices, long))
    BY DEF SidePlan
  <2>2. (entry = Nothing \/ EntryRange(entry)) /\ prices \in SUBSET Price
        /\ event \in StructureEvent \cup {Nothing}
    BY EntryIs, PricesAre, FoundIs
  <2>. HIDE DEF event, entry, prices, plan
  <2>3. ~Waiting(ctx, strategy, event, long) =>
          event # Nothing /\ ~(ctx.at >= event.confirmed + Expiry)
    BY DEF Waiting
  <2>4. event # Nothing /\ ~(ctx.at >= event.confirmed + Expiry) =>
          event \in StructureEvent /\ ctx.at < event.confirmed + Expiry
    BY <2>2, StrategyConfigured DEF StructureEvent
  <2>5. plan = Nothing \/ (plan \in TradePlanSuggestion /\ plan.at = ctx.at)
    BY <2>1, <2>2, <2>3, <2>4, StructuralPlanIs
  <2>. QED  BY <2>5 DEF plan, event
<1>. QED  BY <1>1 DEF Evaluate, OneSide

\* What the replay records of a decision is one of its events.
LEMMA DecisionIs ==
    ASSUME NEW d, NEW s \in Engine, NEW at \in Nat
    PROVE  [at |-> at, plan |-> Decision(d, s, at)] \in ReplayStrategyEvent
<1>. DEFINE ctx == Context(d, s, at)
            plan == Decision(d, s, at)
<1>1. ctx.st = s /\ ctx.at = at
  BY DEF Context
<1>. HIDE DEF ctx
<1>2. plan = Nothing \/ (plan \in TradePlanSuggestion /\ plan.at = at)
  BY <1>1, PlanIs DEF Decision, ctx
<1>. HIDE DEF plan
<1>3. [at |-> at, plan |-> plan] \in ReplayStrategyEvent
  BY <1>2 DEF ReplayStrategyEvent
<1>. QED  BY <1>3 DEF plan

-----------------------------------------------------------------------------
(* The clock of the replay *)

Ordered(s) == \A i, j \in 1..Len(s) : i < j => s[i].time < s[j].time

\* Between two candles the market is closed.
OnlyClosures(cs, closed) ==
  \A i \in 1..Len(cs) - 1 : End(cs[i])..cs[i + 1].time - 1 \subseteq closed

\* Events in the order of the clock, none of them after now.
Clocked(events, now) ==
  \A i \in 1..Len(events) :
    events[i].at <= now /\ (i > 1 => events[i - 1].at < events[i].at)

\* The candles come in order, with nothing but closures between them, and end
\* no later than the cutoff; the events come in order, and once the reported
\* range has begun, the last one is what this engine decides now.
ClockInv ==
  /\ data \in DataSets /\ Admitted(data)
  /\ engine \in Engine
  /\ Ordered(candles) /\ OnlyClosures(candles, data.closed)
  /\ candles # <<>> => Now <= Cutoff(data)
  /\ journal \in Seq(ReplayStrategyEvent) /\ Clocked(journal, Now)
  /\ journal # <<>> =>
       /\ candles # <<>> /\ data.manifest.start <= Now
       /\ Last(journal) = [at |-> Now, plan |-> Decision(data, engine, Now)]

\* The fields of a data set.
LEMMA DataSetIs ==
    ASSUME NEW d, DataSet(d)
    PROVE  /\ d.length \in Nat /\ d.closed \in SUBSET Nat /\ IsFiniteSet(d.closed)
           /\ d.history \in Seq(CandleShape) /\ d.next \in SUBSET CandleShape
           /\ d.coarse \in Seq(Direction \cup {"NEUTRAL", "UNKNOWN"})
           /\ \A v \in d.vintages : v.scheduled \in Int /\ v.available \in Int
           /\ \A q \in d.quotes : q.time \in Int /\ q.observed \in Int /\ q.spread \in Int
           /\ d.calendar \in BOOLEAN /\ d.newsRisk \in BOOLEAN /\ d.strong \in BOOLEAN
           /\ d.manifest.start \in Nat /\ d.manifest.end \in Nat
           /\ d.manifest.coverage.usable.end \in Nat
BY DEF DataSet

\* The replay ends no later than the manifest and the usable range do.
LEMMA CutoffIs ==
    ASSUME NEW d, DataSet(d)
    PROVE  /\ Cutoff(d) \in Nat
           /\ Cutoff(d) <= d.manifest.end /\ Cutoff(d) <= d.manifest.coverage.usable.end
<1>. DEFINE a == d.manifest.end
            b == d.manifest.coverage.usable.end
<1>1. a \in Nat /\ b \in Nat
  BY DataSetIs
<1>2. Cutoff(d) = Min({a, b})
  BY DEF Cutoff
<1>. HIDE DEF a, b
<1>3. Min({a, b}) = IF a <= b THEN a ELSE b
  BY <1>1, ExtremaOfTwo
<1>4. Cutoff(d) \in Nat /\ Cutoff(d) <= a /\ Cutoff(d) <= b
  BY <1>1, <1>2, <1>3
<1>. QED  BY <1>4 DEF a, b

\* The market opens again: more times follow than it is closed.
LEMMA OpenTime ==
    ASSUME NEW now \in Nat, NEW closed \in SUBSET Nat, IsFiniteSet(closed)
    PROVE  LET t == Min({u \in now..now + Cardinality(closed) : u \notin closed})
           IN t \in Nat /\ now <= t /\ t \notin closed /\ now..(t - 1) \subseteq closed
<1>. DEFINE n == Cardinality(closed)
            T == {u \in now..now + n : u \notin closed}
            t == Min(T)
<1>1. n \in Nat
  BY FS_CardinalityType
<1>2. T # {}
  <2>. SUFFICES ASSUME T = {}
                PROVE  FALSE
    OBVIOUS
  <2>1. now..now + n \subseteq closed
    BY <1>1
  <2>2. Cardinality(now..now + n) <= n
    BY <2>1, FS_Subset
  <2>3. Cardinality(now..now + n) = n + 1
    <3>. HIDE DEF n
    <3>1. now \in Int /\ now + n \in Int /\ ~(now > now + n) /\ (now + n) - now + 1 = n + 1
      BY <1>1
    <3>. QED  BY <3>1, FS_Interval
  <2>. QED  BY <1>1, <2>2, <2>3
<1>3. T \in SUBSET Nat
  BY <1>1
<1>4. t \in T /\ \A u \in T : t <= u
  <2>. HIDE DEF T
  <2>. QED  BY <1>2, <1>3, MinOfNaturals
<1>5. ASSUME NEW u \in now..(t - 1)
      PROVE  u \in closed
  <2>1. t \in now..now + n
    BY <1>4
  <2>2. u \in now..now + n /\ ~(t <= u)
    BY <1>1, <1>5, <2>1
  <2>. QED  BY <1>4, <2>2
<1>. QED  BY <1>3, <1>4, <1>5

\* The clock is the close of the last candle.
LEMMA NowIs ==
    ASSUME engine \in Engine
    PROVE  /\ candles \in Seq(Candle) /\ Now \in Nat
           /\ candles # <<>> => Len(candles) > 0 /\ Last(candles) \in Candle
                                /\ Now = End(Last(candles))
<1>1. candles \in Seq(Candle) /\ Len(candles) \in Nat
  BY EngineTypes DEF candles
<1>2. CASE candles # <<>>
  <2>1. Len(candles) > 0 /\ Last(candles) \in Candle
    BY <1>1, <1>2 DEF Last
  <2>. QED  BY <1>1, <1>2, <2>1, CandleTypes DEF Now
<1>. QED  BY <1>1, <1>2 DEF Now

\* All candles are earlier than the next, and no two of them at one time.
LEMMA ClockBefore ==
    ASSUME ClockInv, NEW c \in Candle, Now <= c.time
    PROVE  Before(ToSet(candles), c)
<1>1. candles \in Seq(Candle) /\ Len(candles) \in Nat
  BY NowIs DEF ClockInv
<1>2. ToSet(candles) = {candles[i] : i \in 1..Len(candles)}
  BY <1>1, ToSetOf
<1>3. \A i \in 1..Len(candles) : candles[i] \in Candle /\ candles[i].time \in Nat
  BY <1>1, CandleTypes
<1>4. ASSUME NEW i \in 1..Len(candles)
      PROVE  candles[i].time < c.time
  <2>1. candles # <<>> /\ Now = candles[Len(candles)].time + 1 /\ Len(candles) \in 1..Len(candles)
    BY <1>1, NowIs DEF ClockInv, Last, End
  <2>2. candles[i].time <= candles[Len(candles)].time
    BY <1>1, <1>3, <2>1 DEF ClockInv, Ordered
  <2>. QED  BY <1>3, <2>1, <2>2, CandleTypes
<1>5. ASSUME NEW i \in 1..Len(candles), NEW j \in 1..Len(candles),
             candles[i].time = candles[j].time
      PROVE  candles[i] = candles[j]
  <2>1. ~(i < j) /\ ~(j < i)
    BY <1>3, <1>5 DEF ClockInv, Ordered
  <2>. QED  BY <2>1
<1>. QED  BY <1>2, <1>3, <1>4, <1>5 DEF Before

\* One tick, as the engine and the journal see it.
Tick(c) ==
  /\ c.time = NextTime /\ Now <= c.time /\ c.time < Cutoff(data)
  /\ Now..(c.time - 1) \subseteq data.closed
  /\ engine' = Feed(engine, c) /\ engine' \in Engine
  /\ candles' = Append(candles, c) /\ candles' # <<>> /\ Now' = End(c)
  /\ journal' = IF Now' < data.manifest.start THEN journal
                ELSE Append(journal, [at |-> Now', plan |-> Decision(data, engine', Now')])
  /\ UNCHANGED data

\* Every action is a tick: one candle closes at the next time the market is open.
LEMMA NextTicks ==
    ASSUME ClockInv, Next
    PROVE  \E c \in Candle : Tick(c)
<1>1. DataSet(data)
  BY DataSetsAssumption DEF ClockInv
<1>2. engine \in Engine /\ candles \in Seq(Candle) /\ Now \in Nat
  BY NowIs DEF ClockInv
<1>3. \E shape \in CandleShape : Close(shape)
  <2>1. ASSUME WarmUp
        PROVE  \E shape \in CandleShape : Close(shape)
    <3>1. Len(candles) + 1 \in 1..Len(data.history)
      BY <1>1, <1>2, <2>1, DataSetIs DEF WarmUp
    <3>2. data.history[Len(candles) + 1] \in CandleShape
      BY <1>1, <3>1, DataSetIs
    <3>. QED  BY <2>1, <3>2 DEF WarmUp
  <2>2. ASSUME Replay
        PROVE  \E shape \in CandleShape : Close(shape)
    BY <1>1, <2>2, DataSetIs DEF Replay
  <2>. QED  BY <2>1, <2>2 DEF Next
<1>4. PICK shape \in CandleShape : Close(shape)
  BY <1>3
<1>. DEFINE c == [time |-> NextTime, open |-> shape.open, high |-> shape.high,
                  low |-> shape.low, close |-> shape.close]
<1>5. NextTime \in Nat /\ Now <= NextTime /\ Now..(NextTime - 1) \subseteq data.closed
  <2>. DEFINE now == Now
              closed == data.closed
              t == Min({u \in now..now + Cardinality(closed) : u \notin closed})
  <2>1. now \in Nat /\ closed \in SUBSET Nat /\ IsFiniteSet(closed)
    BY <1>1, <1>2, DataSetIs
  <2>2. NextTime = t
    BY DEF NextTime
  <2>. HIDE DEF now, closed
  <2>3. t \in Nat /\ now <= t /\ now..(t - 1) \subseteq closed
    BY <2>1, OpenTime
  <2>. HIDE DEF t
  <2>. QED  BY <2>2, <2>3 DEF now, closed
<1>6. c \in Candle /\ c.time = NextTime
  BY <1>5 DEF Candle, CandleShape
<1>7. engine' = Feed(engine, c) /\ NextTime < Cutoff(data)
  BY <1>4 DEF Close
<1>. HIDE DEF c
<1>8. engine' \in Engine /\ candles' = Append(candles, c)
  BY <1>2, <1>6, <1>7, FeedIs DEF candles
<1>9. candles' # <<>> /\ Last(candles') = c
  BY <1>2, <1>6, <1>8, AppendIs
<1>10. Now' = End(c)
  BY <1>9 DEF Now
<1>11. Tick(c)
  BY <1>4, <1>5, <1>6, <1>7, <1>8, <1>9, <1>10 DEF Tick, Close
<1>. QED  BY <1>6, <1>11

\* A run starts with no candle and no event.
LEMMA ClockInit == Init => ClockInv
<1>. SUFFICES ASSUME Init
              PROVE  ClockInv
  OBVIOUS
<1>1. engine \in Engine /\ candles = <<>> /\ journal = <<>> /\ <<>> \in Seq(ReplayStrategyEvent)
  BY EmptyEngineIs DEF Init, candles
<1>2. Ordered(candles) /\ OnlyClosures(candles, data.closed) /\ Clocked(journal, Now)
  BY <1>1 DEF Ordered, OnlyClosures, Clocked
<1>. QED  BY <1>1, <1>2 DEF Init, ClockInv

\* A later candle keeps the order, and adds only a closure before it.
LEMMA LaterCandle ==
    ASSUME NEW cs \in Seq(Candle), Ordered(cs), NEW closed, OnlyClosures(cs, closed),
           NEW c \in Candle, \A i \in 1..Len(cs) : cs[i].time < c.time,
           cs # <<>> => End(Last(cs))..c.time - 1 \subseteq closed
    PROVE  Ordered(Append(cs, c)) /\ OnlyClosures(Append(cs, c), closed)
<1>. DEFINE u == Append(cs, c)
            n == Len(cs)
<1>1. /\ Len(u) = n + 1 /\ n \in Nat /\ u[n + 1] = c /\ \A i \in 1..n : u[i] = cs[i]
  BY AppendIs
<1>2. \A i \in 1..n : cs[i] \in Candle
  OBVIOUS
<1>3. n > 0 => cs # <<>> /\ Last(cs) = cs[n]
  BY DEF Last
<1>. HIDE DEF u
<1>4. Ordered(u)
  <2>. HIDE DEF n
  <2>1. \A i, j \in 1..n : i < j => cs[i].time < cs[j].time
    BY DEF Ordered, n
  <2>2. \A i \in 1..n : cs[i].time < c.time
    BY DEF n
  <2>. QED  BY <1>1, <2>1, <2>2 DEF Ordered
<1>5. ASSUME NEW i \in 1..Len(u) - 1
      PROVE  End(u[i])..u[i + 1].time - 1 \subseteq closed
  <2>1. CASE i = n
    BY <1>1, <1>3, <1>5, <2>1
  <2>2. CASE i # n
    <3>1. i \in 1..Len(cs) - 1 /\ i \in 1..n /\ i + 1 \in 1..n
      BY <1>1, <1>5, <2>2
    <3>2. u[i] = cs[i] /\ u[i + 1] = cs[i + 1]
      BY <1>1, <3>1
    <3>. QED  BY <3>1, <3>2 DEF OnlyClosures
  <2>. QED  BY <2>1, <2>2
<1>6. OnlyClosures(u, closed)
  BY <1>5 DEF OnlyClosures
<1>. QED  BY <1>4, <1>6 DEF u

\* What the journal is after a tick: the event of this tick is added, if any.
LEMMA JournalStep ==
    ASSUME NEW events \in Seq(ReplayStrategyEvent), NEW now \in Nat, Clocked(events, now),
           NEW e \in ReplayStrategyEvent, now < e.at
    PROVE  Clocked(Append(events, e), e.at) /\ Clocked(events, e.at)
<1>. DEFINE u == Append(events, e)
            n == Len(events)
<1>1. /\ Len(u) = n + 1 /\ n \in Nat /\ u[n + 1] = e /\ \A i \in 1..n : u[i] = events[i]
  BY AppendIs
<1>2. e.at \in Nat /\ \A i \in 1..n : events[i].at \in Nat
  BY DEF ReplayStrategyEvent
<1>. HIDE DEF u, n
<1>3. \A i \in 1..n : events[i].at <= now /\ (i > 1 => events[i - 1].at < events[i].at)
  BY DEF Clocked, n
<1>4. \A i \in 1..n : events[i].at <= e.at /\ events[i].at < e.at
  BY <1>2, <1>3
<1>5. Clocked(events, e.at)
  BY <1>3, <1>4 DEF Clocked, n
<1>6. ASSUME NEW i \in 1..Len(u)
      PROVE  u[i].at <= e.at /\ (i > 1 => u[i - 1].at < u[i].at)
  <2>1. CASE i = n + 1
    <3>1. i > 1 => i - 1 = n /\ n \in 1..n
      BY <1>1, <2>1
    <3>. QED  BY <1>1, <1>2, <1>4, <2>1, <3>1
  <2>2. CASE i # n + 1
    <3>1. i \in 1..n /\ (i > 1 => i - 1 \in 1..n)
      BY <1>1, <1>6, <2>2
    <3>. QED  BY <1>1, <1>3, <1>4, <3>1
  <2>. QED  BY <2>1, <2>2
<1>. QED  BY <1>5, <1>6 DEF Clocked, u

\* The clock's invariant is inductive.
LEMMA ClockStep == ClockInv /\ [Next]_vars => ClockInv'
<1>. SUFFICES ASSUME ClockInv, [Next]_vars
              PROVE  ClockInv'
  OBVIOUS
<1>1. CASE UNCHANGED vars
  BY <1>1 DEF vars, ClockInv, candles, Now, Ordered, OnlyClosures, Clocked
<1>2. CASE Next
  <2>1. PICK c \in Candle : Tick(c)
    BY <1>2, NextTicks
  <2>2. candles \in Seq(Candle) /\ Now \in Nat /\ c.time \in Nat
    BY NowIs, CandleTypes DEF ClockInv
  <2>3. Ordered(candles') /\ OnlyClosures(candles', data.closed)
    <3>1. Before(ToSet(candles), c)
      BY <2>1, ClockBefore DEF Tick
    <3>2. \A i \in 1..Len(candles) : candles[i].time < c.time
      BY <2>2, <3>1, ToSetOf DEF Before
    <3>3. candles # <<>> => End(Last(candles))..c.time - 1 \subseteq data.closed
      BY <2>1, NowIs DEF ClockInv, Tick
    <3>4. candles' = Append(candles, c)
      BY <2>1 DEF Tick
    <3>5. Ordered(candles) /\ OnlyClosures(candles, data.closed)
      BY DEF ClockInv
    <3>. HIDE DEF candles
    <3>. QED  BY <2>2, <3>2, <3>3, <3>4, <3>5, LaterCandle
  <2>4. Now' <= Cutoff(data)'
    <3>1. Cutoff(data) \in Nat /\ c.time \in Nat
      BY DataSetsAssumption, CutoffIs, CandleTypes DEF ClockInv
    <3>. QED  BY <2>1, <3>1 DEF Tick, End
  <2>. DEFINE e == [at |-> Now', plan |-> Decision(data, engine', Now')]
  <2>5. /\ Now' \in Nat /\ Now < Now' /\ e \in ReplayStrategyEvent /\ e.at = Now'
        /\ data.manifest.start \in Nat
    <3>1. Now' \in Nat /\ Now < Now'
      BY <2>1, <2>2 DEF Tick, End
    <3>2. engine' \in Engine
      BY <2>1 DEF Tick
    <3>3. e \in ReplayStrategyEvent
      BY <3>1, <3>2, DecisionIs
    <3>4. data.manifest.start \in Nat
      BY DataSetsAssumption, DataSetIs DEF ClockInv
    <3>. QED  BY <3>1, <3>3, <3>4
  <2>6. journal' = IF Now' < data.manifest.start THEN journal ELSE Append(journal, e)
    BY <2>1 DEF Tick
  <2>7. journal \in Seq(ReplayStrategyEvent) /\ Clocked(journal, Now)
        /\ (journal # <<>> => data.manifest.start <= Now)
    BY DEF ClockInv
  <2>8. data' = data /\ engine' \in Engine /\ candles' # <<>>
    BY <2>1 DEF Tick
  <2>. HIDE DEF e
  <2>9. Clocked(Append(journal, e), Now') /\ Clocked(journal, Now')
    BY <2>2, <2>5, <2>7, JournalStep
  <2>10. Append(journal, e) \in Seq(ReplayStrategyEvent) /\ Last(Append(journal, e)) = e
    BY <2>5, <2>7, AppendIs
  <2>11. journal' \in Seq(ReplayStrategyEvent) /\ Clocked(journal', Now')
    BY <2>6, <2>7, <2>9, <2>10
  <2>12. journal' # <<>> => data.manifest.start <= Now' /\ Last(journal') = e
    <3>1. CASE Now' < data.manifest.start
      <4>1. journal = <<>> /\ journal' = journal
        BY <2>2, <2>5, <2>6, <2>7, <3>1
      <4>. QED  BY <4>1
    <3>2. CASE ~(Now' < data.manifest.start)
      <4>1. journal' = Append(journal, e)
        BY <2>6, <3>2
      <4>. QED  BY <2>5, <2>10, <3>2, <4>1
    <3>. QED  BY <3>1, <3>2
  <2>13. journal' # <<>> =>
           Last(journal') = [at |-> Now', plan |-> Decision(data', engine', Now')]
    BY <2>8, <2>12 DEF e
  <2>14. journal' # <<>> => data'.manifest.start <= Now'
    BY <2>8, <2>12
  <2>15. data' \in DataSets /\ Admitted(data')
    BY <2>8 DEF ClockInv
  <2>16. Ordered(candles') /\ OnlyClosures(candles', data'.closed) /\ Now' <= Cutoff(data')
    BY <2>3, <2>4, <2>8
  <2>. QED  BY <2>8, <2>11, <2>13, <2>14, <2>15, <2>16 DEF ClockInv
<1>. QED  BY <1>1, <1>2

\* The candles of a run are in order, up to the cutoff, and the last event
\* of the journal is the decision of the engine as it is.
THEOREM ClockRuns == Spec => []ClockInv
<1>. QED  BY ClockInit, ClockStep, PTL DEF Spec

-----------------------------------------------------------------------------
(* Fates *)

\* Before the first candle there is nothing to have a fate.
LEMMA FatesInit == Init => FatesMatchHistory
<1>. SUFFICES ASSUME Init
              PROVE  FatesMatchHistory
  OBVIOUS
<1>1. engine.levels = <<>> /\ engine.zones = <<>>
  BY EmptyEngineIs DEF Init
<1>. QED  BY <1>1 DEF FatesMatchHistory, ToSet

\* A tick carries every fate on.
LEMMA FatesStep == ClockInv /\ FatesMatchHistory /\ [Next]_vars => FatesMatchHistory'
<1>. SUFFICES ASSUME ClockInv, FatesMatchHistory, [Next]_vars
              PROVE  FatesMatchHistory'
  OBVIOUS
<1>1. CASE UNCHANGED vars
  BY <1>1 DEF vars, FatesMatchHistory, candles
<1>2. CASE Next
  <2>1. PICK c \in Candle : Tick(c)
    BY <1>2, NextTicks
  <2>. DEFINE cs == ToSet(candles)
              t == Feed(engine, c)
  <2>2. Before(cs, c) /\ engine \in Engine /\ candles \in Seq(Candle)
    BY <2>1, ClockBefore, NowIs DEF Tick, ClockInv
  <2>3. ToSet(candles') = cs \cup {c}
    BY <2>1, <2>2, AppendIs DEF Tick
  <2>4. /\ engine' = t /\ t \in Engine
        /\ \A l \in ToSet(t.levels) :
             (\E k \in ToSet(engine.levels) : l = LevelAfter(k, c)) \/ FreshLevel(l, c)
        /\ \A z \in ToSet(t.zones) :
             (\E y \in ToSet(engine.zones) : z = ZoneAfter(y, c)) \/ FreshZone(z, c)
    BY <2>1, <2>2, FeedIs DEF Tick
  <2>. HIDE DEF t
  <2>5. /\ ToSet(t.levels) \subseteq PricedLevel /\ ToSet(t.zones) \subseteq PricedZone
        /\ ToSet(engine.levels) \subseteq PricedLevel /\ ToSet(engine.zones) \subseteq PricedZone
    BY <2>2, <2>4, EngineTypes, ToSetOf
  <2>6. /\ \A l \in ToSet(engine.levels) : LevelFate(l, cs)
        /\ \A z \in ToSet(engine.zones) : ZoneFate(z, cs)
    BY DEF FatesMatchHistory
  <2>. HIDE DEF cs
  <2>7. \A l \in ToSet(t.levels) : LevelFate(l, cs \cup {c})
    BY <2>2, <2>4, <2>5, <2>6, LevelFateStep, FreshLevelFate
  <2>8. \A z \in ToSet(t.zones) : ZoneFate(z, cs \cup {c})
    BY <2>2, <2>4, <2>5, <2>6, ZoneFateStep, FreshZoneFate
  <2>. QED  BY <2>3, <2>4, <2>7, <2>8 DEF FatesMatchHistory
<1>. QED  BY <1>1, <1>2

\* Levels and zones have the fate the candles since their confirmation say,
\* whatever the candles, the cap and the windows are (_liquidity, _zones).
THEOREM FatesAreHistory == Spec => []FatesMatchHistory
<1>. QED  BY FatesInit, FatesStep, ClockRuns, PTL DEF Spec

-----------------------------------------------------------------------------
(* The shape of the state *)

\* What is missing between two candles, of the times the manifest answers for,
\* is a closure it declares.
LEMMA DeclaredClosure ==
    ASSUME NEW d \in DataSets, Admitted(d), NEW t \in Nat, t \in d.closed,
           t \in Governed(d.manifest.coverage, "PRIMARY")
    PROVE  \E g \in d.manifest.coverage.gaps :
             g.frame = "PRIMARY" /\ g.expected /\ g.from <= t /\ t < g.to
<1>. DEFINE cov == d.manifest.coverage
            f == cov.frames["PRIMARY"]
            opens == Opens(d, "PRIMARY")
            gaps == {g \in cov.gaps : g.frame = "PRIMARY"}
            gov == Governed(cov, "PRIMARY")
<1>1. DataSet(d) /\ "PRIMARY" \in Frames /\ Bar("PRIMARY") = 1
  BY DataSetsAssumption DEF Frames, Bar
<1>2. ValidCandles(d) /\ ReconcileContinuity(d)
  BY DEF Admitted, CanonicalReplayInputs
<1>3. /\ "PRIMARY" \in DOMAIN cov.frames /\ opens # {}
      /\ Min(opens) <= f.start /\ Max(opens) + 1 >= f.end
  BY <1>1, <1>2 DEF ValidCandles
<1>4. /\ \A g \in gaps : g.expected
      /\ ((Min(opens)..Max(opens)) \ opens) \cap gov
           = (UNION {g.from..g.to - 1 : g \in gaps}) \cap gov
  BY <1>1, <1>2 DEF ReconcileContinuity
<1>5. /\ f.start \in Nat /\ f.end \in Nat /\ cov.usable.end \in Nat /\ cov.warmup = 0
      /\ \A g \in cov.gaps : g.from \in Nat /\ g.to \in Nat
  BY <1>1, <1>3 DEF DataSet
<1>6. opens \in SUBSET Int /\ IsFiniteSet(opens) /\ t \notin opens
  <2>. DEFINE n == d.length + Cardinality(d.closed) - 1
  <2>1. n \in Int
    BY <1>1, DataSetIs, FS_CardinalityType
  <2>2. opens = (0..n) \ d.closed
    BY DEF Opens
  <2>. HIDE DEF n, opens
  <2>3. IsFiniteSet(0..n)
    <3>1. 0 \in Int
      OBVIOUS
    <3>. QED  BY <2>1, <3>1, FS_Interval
  <2>. QED  BY <2>1, <2>2, <2>3, FS_Subset
<1>7. Min(opens) \in Int /\ Max(opens) \in Int
  <2>. HIDE DEF opens
  <2>. QED  BY <1>3, <1>6, FiniteExtrema
<1>8. f.start <= t /\ t < f.end
  <2>. DEFINE a == cov.warmup
              b == f.start
              c == cov.usable.end
              e == f.end
  <2>1. t \in Max({a, b})..Min({c, e}) - 1
    BY <1>1 DEF Governed
  <2>2. a \in Int /\ b \in Int /\ c \in Int /\ e \in Int
    BY <1>5
  <2>. HIDE DEF a, b, c, e
  <2>3. b <= Max({a, b}) /\ Min({c, e}) <= e /\ Max({a, b}) \in Int /\ Min({c, e}) \in Int
    <3>1. Max({a, b}) = IF a >= b THEN a ELSE b
      BY <2>2, ExtremaOfTwo
    <3>2. Min({c, e}) = IF c <= e THEN c ELSE e
      BY <2>2, ExtremaOfTwo
    <3>. QED  BY <2>2, <3>1, <3>2
  <2>4. b <= t /\ t < e
    BY <2>1, <2>2, <2>3
  <2>. QED  BY <2>4 DEF b, e
<1>9. t \in Min(opens)..Max(opens)
  <2>. HIDE DEF opens, f
  <2>. QED  BY <1>3, <1>5, <1>7, <1>8
<1>10. t \in UNION {g.from..g.to - 1 : g \in gaps}
  <2>. HIDE DEF opens, gaps, gov
  <2>1. t \in gov
    BY DEF gov
  <2>. QED  BY <1>4, <1>6, <1>9, <2>1
<1>11. PICK g \in gaps : t \in g.from..g.to - 1
  BY <1>10
<1>12. g \in cov.gaps /\ g.frame = "PRIMARY" /\ g.expected
  BY <1>4, <1>11
<1>13. g.from <= t /\ t < g.to
  BY <1>5, <1>11, <1>12
<1>. QED  BY <1>12, <1>13

\* Of some quotes there is one that none is later than.
LEMMA LatestQuote ==
    ASSUME NEW quotes, NEW at \in Nat, \A q \in quotes : q.time \in Int /\ q.time <= at,
           quotes # {}
    PROVE  \E q \in quotes : \A r \in quotes : r.time <= q.time
<1>. DEFINE ages == {at - q.time : q \in quotes}
<1>1. ages \in SUBSET Nat /\ ages # {}
  OBVIOUS
<1>2. Min(ages) \in ages /\ \A y \in ages : Min(ages) <= y
  <2>. HIDE DEF ages
  <2>. QED  BY <1>1, MinOfNaturals
<1>3. PICK q \in quotes : Min(ages) = at - q.time
  BY <1>2
<1>4. ASSUME NEW r \in quotes
      PROVE  r.time <= q.time
  <2>1. at - q.time <= at - r.time
    BY <1>2, <1>3
  <2>. QED  BY <2>1
<1>. QED  BY <1>4

\* What the replay puts before the risk policy is what the policy takes.
LEMMA InputIs ==
    ASSUME NEW d \in DataSets, Admitted(d), NEW at \in Nat
    PROVE  PureRiskEvaluationInput(BuildInput(d, at))
<1>. DEFINE f == BuildInput(d, at)
            quote == QuoteAt(d.quotes, at)
            seen == ObservedBy(d.quotes, at)
<1>1. DataSet(d) /\ (\A q \in d.quotes : q.spread >= 0)
  BY DataSetsAssumption DEF Admitted, CanonicalReplayInputs, ValidQuotes, ObservedQuote
<1>2. /\ f.at = at /\ f.spec = at /\ f.newsRisk = d.newsRisk /\ f.news = RiskNewsAt(d, at)
      /\ f.account = Baseline(at)
      /\ f.quote = IF quote = Nothing THEN [available |-> FALSE]
                   ELSE [available |-> TRUE, time |-> quote.time, spread |-> quote.spread]
  BY DEF BuildInput
<1>3. quote # Nothing => quote \in d.quotes
  <2>1. CASE seen = {}
    BY <2>1 DEF QuoteAt
  <2>2. CASE seen # {}
    <3>1. seen \subseteq d.quotes /\ \A q \in seen : q.time \in Int /\ q.time <= at
      BY <1>1, DataSetIs DEF ObservedBy
    <3>. HIDE DEF seen
    <3>2. \E q \in seen : \A r \in seen : r.time <= q.time
      BY <2>2, <3>1, LatestQuote
    <3>3. quote = CHOOSE q \in seen : \A r \in seen : r.time <= q.time
      BY <2>2 DEF QuoteAt, seen
    <3>4. quote \in seen
      <4>. HIDE DEF quote
      <4>. QED  BY <3>2, <3>3
    <3>. QED  BY <3>1, <3>4
  <2>. QED  BY <2>1, <2>2
<1>4. PureQuoteState(f.quote)
  <2>. HIDE DEF quote, f
  <2>1. quote # Nothing => quote.time \in Int /\ quote.spread \in Nat
    BY <1>1, <1>3, DataSetIs
  <2>. QED  BY <1>2, <2>1 DEF PureQuoteState
<1>5. PureNewsState(f.news)
  <2>. DEFINE news == RiskNewsAt(d, at)
  <2>1. news.available \in BOOLEAN /\ (news.events # {} => news.available)
        /\ news.events \subseteq d.vintages
    BY DEF RiskNewsAt, LatestKnown
  <2>. HIDE DEF f, news
  <2>2. f.news = news
    BY <1>2 DEF news
  <2>3. \A v \in d.vintages : v.scheduled \in Int
    BY <1>1, DataSetIs
  <2>. QED  BY <2>1, <2>2, <2>3 DEF PureNewsState
<1>6. /\ {f.account.equity, f.account.peak, f.account.losses, f.account.openRisk} \subseteq Nat
      /\ f.account = AccountSnapshot(f.account)
  <2>1. InitialBalance \in Nat
    BY CostsAssumption DEF CostsAndSizes
  <2>2. Baseline(at) = AccountSnapshot(Baseline(at))
    BY <2>1 DEF Baseline, AccountSnapshot
  <2>. QED  BY <1>2, <2>1, <2>2 DEF Baseline
<1>7. f.at \in Int /\ f.spec \in Int /\ f.newsRisk \in BOOLEAN
  BY <1>1, <1>2, DataSetIs
<1>. HIDE DEF f
<1>8. PureRiskEvaluationInput(f)
  BY <1>4, <1>5, <1>6, <1>7 DEF PureRiskEvaluationInput
<1>. QED  BY <1>8 DEF f

Reactions == {"REACTION_UNAVAILABLE", "STRONG_DIRECTIONAL", "WHIPSAW", "LIQUIDITY_SWEEP_REVERSAL",
              "BREAKOUT", "FAILED_BREAKOUT", "UNCONFIRMED"}
Spreads == {"SPREAD_NORMAL", "SPREAD_ELEVATED", "SPREAD_EXTREME", "UNAVAILABLE"}

\* The status of structure after a release is one of four.
LEMMA StructureIs ==
    ASSUME NEW st, NEW from, NEW at, NEW bias
    PROVE  StructureStatus(st, from, at, bias)
             \in {"ALIGNED", "CONFLICTING", "WAITING", "STRUCTURE_UNAVAILABLE"}
<1>. DEFINE last == LastIn(st.events, {e \in ToSet(st.events) :
                                         from <= e.confirmed /\ e.confirmed <= at})
            expected == IF bias = "POSITIVE" THEN "BEARISH" ELSE "BULLISH"
            unbiased == last = Nothing \/ bias \in {"UNKNOWN", "NEUTRAL"}
            aligned == last.direction = expected
<1>1. StructureStatus(st, from, at, bias) =
        IF st.bars = <<>> THEN "STRUCTURE_UNAVAILABLE"
        ELSE IF unbiased THEN "WAITING"
        ELSE IF bias = "CONFLICTING" THEN "CONFLICTING"
        ELSE IF aligned THEN "ALIGNED"
        ELSE "CONFLICTING"
  BY DEF StructureStatus
<1>. HIDE DEF unbiased, aligned
<1>. QED  BY <1>1

\* The reaction to a release is one of those the code names.
LEMMA ClassificationIs ==
    ASSUME NEW st, NEW from, NEW cutoff, NEW bars, NEW base
    PROVE  Classification(st, from, cutoff, bars, base) \in Reactions
<1>. DEFINE after == Last(bars).close
            high == Max({c.high : c \in ToSet(bars)})
            low  == Min({c.low : c \in ToSet(bars)})
            swept == {l \in ToSet(st.levels) :
                        l.status = "SWEPT" /\ from <= l.ended /\ l.ended <= cutoff}
            bos == {e \in ToSet(st.events) :
                      e.kind = "BOS" /\ from <= e.confirmed /\ e.confirmed <= cutoff}
            whipsaw == high - base >= Whipsaw /\ base - low >= Whipsaw
            sweep == \E l \in swept : IF l.side = "HIGH" THEN after < base ELSE after > base
            failed == \E e \in bos : IF e.direction = "BULLISH" THEN after < base ELSE after > base
            broken == bos # {}
            strong == Distance(after, base) >= Directional
<1>1. Classification(st, from, cutoff, bars, base) =
        IF whipsaw THEN "WHIPSAW"
        ELSE IF sweep THEN "LIQUIDITY_SWEEP_REVERSAL"
        ELSE IF failed THEN "FAILED_BREAKOUT"
        ELSE IF broken THEN "BREAKOUT"
        ELSE IF strong THEN "STRONG_DIRECTIONAL"
        ELSE "UNCONFIRMED"
  BY DEF Classification
<1>. HIDE DEF whipsaw, sweep, failed, broken, strong
<1>. QED  BY <1>1 DEF Reactions

\* A release group has a news context, whatever the engine has seen.
LEMMA NewsFromIs ==
    ASSUME NEW vintages, NEW known \in SUBSET vintages, NEW event, NEW reaction,
           reaction.state \in Reactions, NEW spread \in Spreads,
           NEW st, NEW at, NEW calendar \in BOOLEAN
    PROVE  NewsFrom(event, known, reaction, spread, st, at, calendar)
             \in NewsStrategyContext(vintages)
<1>. DEFINE group == {v \in known : v.group = event.group}
            bias == IF event = Nothing THEN "UNKNOWN" ELSE GroupBias(group)
            priceBias == IF event.numeric \/ event.released = NoValue \/ reaction.move = 0 THEN bias
                         ELSE IF reaction.move > 0 THEN "NEGATIVE"
                         ELSE "POSITIVE"
            structure == IF event = Nothing THEN "WAITING"
                         ELSE StructureStatus(st, event.scheduled, at, priceBias)
            state == IF ~calendar THEN "UNKNOWN"
                     ELSE IF event = Nothing THEN "NORMAL"
                     ELSE EventRegime(event, at)
            release == IF event = Nothing THEN "NO_EVENT"
                       ELSE IF event.scheduled > at THEN "PRE_NEWS"
                       ELSE IF event.numeric /\ event.actual = NoValue THEN "WAITING_FOR_ACTUAL"
                       ELSE IF event.released = NoValue THEN "WAITING_FOR_RELEASE"
                       ELSE "RELEASED"
            quality == IF ~calendar THEN "UNAVAILABLE"
                       ELSE IF \E v \in known : v.conflict THEN "CONFLICT"
                       ELSE IF event # Nothing /\ GroupComplete(group) THEN "COMPLETE"
                       ELSE "PARTIAL"
            volatility == ExtentState(reaction.extent)
            restricted == \/ ~calendar
                          \/ state \in {"NEWS_LOCK", "RELEASE", "POST_NEWS_VOLATILITY"}
                          \/ reaction.state = "WHIPSAW" \/ spread = "SPREAD_EXTREME"
            open == /\ ~restricted /\ release = "RELEASED" /\ quality = "COMPLETE"
                    /\ state \in {"POST_NEWS_CONFIRMATION", "NORMALIZED"}
                    /\ spread = "SPREAD_NORMAL" /\ volatility # "EXTREME"
                    /\ structure = "ALIGNED"
            released == IF event = Nothing THEN {}
                        ELSE {v \in group : /\ v.actual # NoValue \/ ~v.numeric
                                            /\ v.released # NoValue /\ v.released <= at}
            eligible == IF ~open THEN {}
                        ELSE IF reaction.state \in {"STRONG_DIRECTIONAL", "BREAKOUT"} THEN {"STRAT05"}
                        ELSE IF reaction.state = "LIQUIDITY_SWEEP_REVERSAL" THEN {"STRAT06"}
                        ELSE {}
<1>1. NewsFrom(event, known, reaction, spread, st, at, calendar) =
        [state |-> state, release |-> release, quality |-> quality, bias |-> bias,
         reaction |-> reaction.state, structure |-> structure, spread |-> spread,
         volatility |-> volatility, restricted |-> restricted, released |-> released,
         eligible |-> eligible]
  BY DEF NewsFrom
<1>2. state \in ToSet(Severity) \cup {"UNKNOWN"}
  <2>1. {"NORMAL", "NORMALIZED", "POST_NEWS_CONFIRMATION", "PRE_NEWS",
         "POST_NEWS_VOLATILITY", "RELEASE", "NEWS_LOCK"} \subseteq ToSet(Severity)
    <3>1. DOMAIN Severity = 1..7
      BY DEF Severity
    <3>2. /\ Severity[1] = "NORMAL" /\ Severity[2] = "NORMALIZED"
          /\ Severity[3] = "POST_NEWS_CONFIRMATION" /\ Severity[4] = "PRE_NEWS"
          /\ Severity[5] = "POST_NEWS_VOLATILITY" /\ Severity[6] = "RELEASE"
          /\ Severity[7] = "NEWS_LOCK"
      BY DEF Severity
    <3>3. \A i \in 1..7 : Severity[i] \in ToSet(Severity)
      BY <3>1 DEF ToSet
    <3>4. {1, 2, 3, 4, 5, 6, 7} \subseteq 1..7
      OBVIOUS
    <3>. QED  BY <3>2, <3>3, <3>4
  <2>2. EventRegime(event, at) \in
          {"NORMAL", "NORMALIZED", "POST_NEWS_CONFIRMATION", "PRE_NEWS",
           "POST_NEWS_VOLATILITY", "RELEASE", "NEWS_LOCK"}
    BY Zenon DEF EventRegime
  <2>. QED  BY <2>1, <2>2
<1>3. release \in {"NO_EVENT", "PRE_NEWS", "WAITING_FOR_ACTUAL", "WAITING_FOR_RELEASE", "RELEASED"}
  BY Zenon
<1>4. quality \in {"COMPLETE", "PARTIAL", "CONFLICT", "UNAVAILABLE"}
  BY Zenon
<1>5. bias \in {"POSITIVE", "NEGATIVE", "NEUTRAL", "CONFLICTING", "UNKNOWN"}
  BY Zenon DEF GroupBias
<1>6. structure \in {"ALIGNED", "CONFLICTING", "WAITING", "STRUCTURE_UNAVAILABLE"}
  <2>1. \A from, b : StructureStatus(st, from, at, b)
                     \in {"ALIGNED", "CONFLICTING", "WAITING", "STRUCTURE_UNAVAILABLE"}
    BY StructureIs
  <2>. HIDE DEF priceBias
  <2>. QED  BY Zenon, <2>1
<1>7. volatility \in {"NORMAL", "ELEVATED", "EXTREME", "UNAVAILABLE"}
  BY Zenon DEF ExtentState
<1>8. restricted \in BOOLEAN
  <2>. HIDE DEF state
  <2>. QED  OBVIOUS
<1>9. released \in SUBSET vintages
  OBVIOUS
<1>10. eligible \in SUBSET {"STRAT05", "STRAT06"}
  <2>. HIDE DEF open
  <2>. QED  OBVIOUS
<1>. HIDE DEF state, release, quality, bias, structure, volatility, restricted, released, eligible
<1>. QED  BY <1>1, <1>2, <1>3, <1>4, <1>5, <1>6, <1>7, <1>8, <1>9, <1>10
          DEF NewsStrategyContext, Reactions, Spreads

\* The news context is of its shape, whatever the vintages and the quotes.
LEMMA NewsAtIs ==
    ASSUME NEW vintages, NEW quotes, NEW st, NEW at, NEW calendar \in BOOLEAN
    PROVE  NewsAt(vintages, quotes, st, at, calendar) \in NewsStrategyContext(vintages)
<1>. DEFINE known == {v \in LatestKnown(vintages, at) : v.relevant /\ v.status # "CANCELLED"}
            event == ActiveEvent(known, at)
            reaction == ReactionTo(event, st, at)
            spread == SpreadAround(event, quotes, at)
<1>1. known \in SUBSET vintages
  BY DEF LatestKnown
<1>2. reaction.state \in Reactions
  <2>1. \A from, cutoff, bars, base : Classification(st, from, cutoff, bars, base) \in Reactions
    BY ClassificationIs
  <2>. HIDE DEF event
  <2>2. NoReaction.state \in Reactions
    BY DEF NoReaction, Reactions
  <2>3. reaction = NoReaction \/ \E from, cutoff, bars, base :
          reaction.state = Classification(st, from, cutoff, bars, base)
    BY DEF ReactionTo, Reaction
  <2>. HIDE DEF reaction
  <2>. QED  BY <2>1, <2>2, <2>3
<1>3. spread \in Spreads
  <2>1. \A previous, fresh : SpreadState(previous, fresh) \in Spreads
    BY Zenon DEF SpreadState, Spreads
  <2>. HIDE DEF event
  <2>. QED  BY <2>1 DEF SpreadAround, Spreads
<1>4. NewsAt(vintages, quotes, st, at, calendar)
        = NewsFrom(event, known, reaction, spread, st, at, calendar)
  BY DEF NewsAt
<1>. HIDE DEF known, event, reaction, spread
<1>. QED  BY <1>1, <1>2, <1>3, <1>4, NewsFromIs

-----------------------------------------------------------------------------
(* Trades *)

\* Costs change a price into a price.
LEMMA WorseIs == \A price, by \in Int : \A long \in BOOLEAN : Worse(price, by, long) \in Int
BY DEF Worse

\* The fields of a candle of a run.
LEMMA CandlesAre ==
    ASSUME NEW cs \in Seq(Candle), NEW i \in 1..Len(cs)
    PROVE  /\ cs[i] \in Candle /\ End(cs[i]) \in Nat /\ cs[i].time \in Nat
           /\ cs[i].open \in Int /\ cs[i].high \in Int /\ cs[i].low \in Int /\ cs[i].close \in Int
<1>1. cs[i] \in Candle
  OBVIOUS
<1>. QED  BY <1>1, CandleTypes DEF Price

\* The fields of a plan.
LEMMA PlanTypes ==
    ASSUME NEW plan \in TradePlanSuggestion
    PROVE  /\ plan.long \in BOOLEAN /\ plan.low \in Int /\ plan.high \in Int
           /\ plan.stop \in Int /\ plan.target \in Int /\ plan.at \in Nat /\ plan.expires \in Nat
BY DEF TradePlanSuggestion

\* The candle a trade ends at is one of those that may end it, or the last.
LEMMA EndingIs ==
    ASSUME NEW cs, Len(cs) \in Nat, NEW fill \in 1..Len(cs), NEW exits \in SUBSET (fill..Len(cs))
    PROVE  /\ Ending(exits, cs) \in fill..Len(cs) /\ Ending(exits, cs) \in 1..Len(cs)
           /\ exits # {} => /\ Ending(exits, cs) \in exits
                            /\ \A i \in exits : Ending(exits, cs) <= i
           /\ exits = {} => Ending(exits, cs) = Len(cs)
<1>1. exits \in SUBSET Nat
  OBVIOUS
<1>2. exits # {} => Min(exits) \in exits /\ \A i \in exits : Min(exits) <= i
  BY <1>1, MinOfNaturals
<1>. DEFINE i == Ending(exits, cs)
<1>3. i = IF exits = {} THEN Len(cs) ELSE Min(exits)
  BY DEF Ending
<1>. HIDE DEF i
<1>4. i \in fill..Len(cs)
  <2>1. exits # {} => Min(exits) \in fill..Len(cs)
    BY <1>2
  <2>2. Len(cs) \in fill..Len(cs)
    OBVIOUS
  <2>. QED  BY <1>3, <2>1, <2>2
<1>5. i \in 1..Len(cs)
  BY <1>4
<1>. QED  BY <1>2, <1>3, <1>4, <1>5 DEF i

\* A filled trade is a record of simulation_domain.py.
LEMMA TradeIs ==
    ASSUME NEW event \in ReplayStrategyEvent, event.plan # Nothing, NEW size \in Nat,
           NEW cs \in Seq(Candle), NEW fill \in 1..Len(cs), NEW exits \in SUBSET (fill..Len(cs))
    PROVE  Trade(event, size, fill, exits, cs) \in
             [planned : Nat, status : {"FILLED_CLOSED"},
              reason : {"STOP_LOSS", "TAKE_PROFIT", "END_OF_RUN"},
              enters : Nat, exits : Nat, price : Int, net : Int]
<1>. DEFINE plan == event.plan
            i == Ending(exits, cs)
            c == cs[i]
            price == IF exits = {} THEN Worse(c.close, Slippage, plan.long) ELSE ExitPrice(plan, c)
            entry == Worse(IF plan.long THEN plan.high ELSE plan.low, -(Spread + Slippage), plan.long)
            gain == IF plan.long THEN price - entry ELSE entry - price
            reason == IF exits = {} THEN "END_OF_RUN"
                      ELSE IF HitsStop(c, plan) THEN "STOP_LOSS"
                      ELSE "TAKE_PROFIT"
            net == gain * size - 2 * Commission * size
<1>1. Trade(event, size, fill, exits, cs) =
        [planned |-> event.at, status |-> "FILLED_CLOSED", reason |-> reason,
         enters |-> cs[fill].time, exits |-> End(c), price |-> price, net |-> net]
  BY DEF Trade
<1>2. plan \in TradePlanSuggestion /\ event.at \in Nat
  BY DEF ReplayStrategyEvent
<1>3. i \in 1..Len(cs)
  BY EndingIs
<1>4. /\ plan.long \in BOOLEAN /\ plan.low \in Int /\ plan.high \in Int
      /\ plan.stop \in Int /\ plan.target \in Int
  BY <1>2, PlanTypes
<1>5. c.open \in Int /\ c.close \in Int /\ End(c) \in Nat /\ cs[fill].time \in Nat
  BY <1>3, CandlesAre
<1>6. Spread \in Nat /\ Slippage \in Nat /\ Commission \in Nat
  BY CostsAssumption DEF CostsAndSizes
<1>. HIDE DEF plan, i, c
<1>7. price \in Int
  <2>1. ExitPrice(plan, c) \in Int
    <3>. DEFINE at == IF IF plan.long THEN c.open < plan.stop ELSE c.open > plan.stop
                      THEN c.open ELSE plan.stop
    <3>1. at \in Int
      BY <1>4, <1>5
    <3>2. ExitPrice(plan, c) = IF HitsStop(c, plan) THEN Worse(at, Slippage, plan.long)
                               ELSE plan.target
      BY DEF ExitPrice
    <3>. HIDE DEF at
    <3>3. Worse(at, Slippage, plan.long) \in Int
      BY <1>4, <1>6, <3>1, WorseIs
    <3>. QED  BY <1>4, <3>2, <3>3
  <2>2. Worse(c.close, Slippage, plan.long) \in Int
    BY <1>4, <1>5, <1>6, WorseIs
  <2>. QED  BY <2>1, <2>2
<1>8. entry \in Int
  <2>1. (IF plan.long THEN plan.high ELSE plan.low) \in Int /\ -(Spread + Slippage) \in Int
    BY <1>4, <1>6
  <2>. QED  BY <1>4, <2>1, WorseIs
<1>9. net \in Int
  <2>. HIDE DEF price, entry
  <2>1. gain \in Int
    BY <1>4, <1>7, <1>8
  <2>. HIDE DEF gain
  <2>. QED  BY <1>6, <2>1
<1>10. reason \in {"STOP_LOSS", "TAKE_PROFIT", "END_OF_RUN"}
  OBVIOUS
<1>. HIDE DEF price, net, reason
<1>. QED  BY <1>1, <1>2, <1>5, <1>7, <1>9, <1>10

Filled == [planned : Nat, status : {"FILLED_CLOSED"},
           reason : {"STOP_LOSS", "TAKE_PROFIT", "END_OF_RUN"},
           enters : Nat, exits : Nat, price : Int, net : Int]

\* A run with one more trade is a run.
LEMMA WithTradeIs ==
    ASSUME NEW run \in SimulationResult, NEW trade \in Filled
    PROVE  WithTrade(run, trade) \in SimulationResult
<1>. DEFINE balance == run.balance + trade.net
            peak == Max({run.peak, balance})
            fall == Max({run.peak - run.balance - trade.net, 0})
            trades == Append(run.trades, trade)
            drawdowns == Append(run.drawdowns, fall)
<1>1. /\ run.trades \in Seq(SimulatedTrade) /\ run.balance \in Int /\ run.peak \in Int
      /\ run.drawdowns \in Seq(Nat) /\ trade.net \in Int /\ trade.exits \in Nat
      /\ trade \in SimulatedTrade
  BY DEF SimulationResult, SimulatedTrade, Filled
<1>2. balance \in Int /\ run.peak - run.balance - trade.net \in Int
  BY <1>1
<1>. HIDE DEF balance
<1>3. peak \in Int
  BY <1>1, <1>2, ExtremaOfTwo
<1>4. fall \in Nat
  <2>. DEFINE x == run.peak - run.balance - trade.net
  <2>1. x \in Int /\ 0 \in Int
    BY <1>2
  <2>. HIDE DEF x
  <2>2. Max({x, 0}) = IF x >= 0 THEN x ELSE 0
    BY <2>1, ExtremaOfTwo
  <2>3. Max({x, 0}) \in Nat
    BY <2>1, <2>2
  <2>. QED  BY <2>3 DEF x
<1>. HIDE DEF peak, fall
<1>5. trades \in Seq(SimulatedTrade) /\ drawdowns \in Seq(Nat)
  BY <1>1, <1>4
<1>6. WithTrade(run, trade) = [trades |-> trades, openUntil |-> trade.exits, balance |-> balance,
                               peak |-> peak, drawdowns |-> drawdowns]
  BY DEF WithTrade, balance, peak, fall
<1>. HIDE DEF trades, drawdowns
<1>. QED  BY <1>1, <1>2, <1>3, <1>5, <1>6 DEF SimulationResult

\* What one event does to a run.
LEMMA SettleIs ==
    ASSUME NEW run \in SimulationResult, NEW event \in ReplayStrategyEvent, NEW size,
           event.plan # Nothing => size \in Nat, NEW cs \in Seq(Candle)
    PROVE  Settle(run, event, size, Fills(event.plan, cs), cs) \in SimulationResult
<1>. DEFINE plan == event.plan
            fills == Fills(plan, cs)
            fill == Min(fills)
            exits == Exits(plan, cs, fill)
            trade == Trade(event, size, fill, exits, cs)
            with(t) == [run EXCEPT !.trades = Append(@, t)]
<1>1. Settle(run, event, size, fills, cs) =
        IF plan = Nothing THEN with(Unfilled(event, "NO_PLAN"))
        ELSE IF size = 0 THEN with(Unfilled(event, "RISK_BLOCKED"))
        ELSE IF event.at < run.openUntil THEN with(Unfilled(event, "NOT_FILLED_CONCURRENT"))
        ELSE IF fills = {} THEN with(Unfilled(event, "EXPIRED_UNFILLED"))
        ELSE WithTrade(run, trade)
  BY DEF Settle
<1>2. event.at \in Nat
  BY DEF ReplayStrategyEvent
<1>3. ASSUME NEW status \in {"NO_PLAN", "RISK_BLOCKED", "NOT_FILLED_CONCURRENT", "EXPIRED_UNFILLED"}
      PROVE  with(Unfilled(event, status)) \in SimulationResult
  <2>. DEFINE t == Unfilled(event, status)
              ts == Append(run.trades, t)
  <2>1. t \in SimulatedTrade
    BY <1>2 DEF Unfilled, SimulatedTrade
  <2>2. run.trades \in Seq(SimulatedTrade)
    BY DEF SimulationResult
  <2>. HIDE DEF t
  <2>3. ts \in Seq(SimulatedTrade)
    BY <2>1, <2>2
  <2>. HIDE DEF ts
  <2>4. [run EXCEPT !.trades = ts] \in SimulationResult
    BY <2>3 DEF SimulationResult
  <2>. QED  BY <2>4 DEF ts, t
<1>4. ASSUME plan # Nothing, fills # {}
      PROVE  WithTrade(run, trade) \in SimulationResult
  <2>1. fills \in SUBSET (1..Len(cs)) /\ Len(cs) \in Nat
    BY DEF Fills
  <2>. HIDE DEF fills
  <2>2. fill \in 1..Len(cs)
    <3>1. fills \in SUBSET Nat
      BY <2>1
    <3>. QED  BY <1>4, <2>1, <3>1, MinOfNaturals
  <2>. HIDE DEF fill
  <2>3. exits \in SUBSET (fill..Len(cs))
    BY <2>1, <2>2 DEF Exits
  <2>. HIDE DEF exits
  <2>4. trade \in Filled
    BY <1>4, <2>2, <2>3, TradeIs DEF Filled
  <2>. QED  BY <2>4, WithTradeIs
<1>. HIDE DEF plan, fills, fill, exits, trade, with
<1>. QED  BY <1>1, <1>3, <1>4 DEF fills, plan

\* The size of a plan is a volume.
LEMMA ApprovedIs ==
    ASSUME NEW d, NEW plan \in TradePlanSuggestion, NEW at
    PROVE  Approved(d, plan, at) \in Nat
<1>. DEFINE input == BuildInput(d, at)
            budget == TargetRisk(NewsState(input), RiskBudget)
            distance == IF plan.long THEN plan.high - plan.stop ELSE plan.stop - plan.low
            volume == budget \div distance
            outside == IF plan.long THEN plan.stop < plan.low ELSE plan.stop > plan.high
            size == PositionSize(budget, plan)
<1>1. /\ RiskBudget \in Nat /\ RiskBudget > 0 /\ MaxVolume \in Nat /\ MinVolume \in Nat
  BY CostsAssumption DEF CostsAndSizes
<1>2. budget \in Nat
  <2>1. \A s : TargetRisk(s, RiskBudget) = RiskBudget \div 2 \/ TargetRisk(s, RiskBudget) = RiskBudget
    BY DEF TargetRisk
  <2>2. RiskBudget \div 2 \in Nat
    BY <1>1
  <2>. QED  BY <1>1, <2>1, <2>2
<1>3. size = IF ~outside \/ plan.low > plan.high \/ Min({budget, plan.low, plan.stop}) <= 0 THEN 0
             ELSE IF volume < MinVolume THEN 0 ELSE Min({volume, MaxVolume})
  BY DEF PositionSize
<1>4. plan.low \in Int /\ plan.high \in Int /\ plan.stop \in Int /\ plan.long \in BOOLEAN
      /\ plan.low <= plan.high
  BY DEF TradePlanSuggestion
<1>. HIDE DEF budget
<1>5. outside => distance \in Nat /\ distance > 0
  BY <1>4
<1>. HIDE DEF outside, distance
<1>6. outside => volume \in Nat
  BY <1>2, <1>5, Division
<1>. HIDE DEF volume
<1>7. outside => Min({volume, MaxVolume}) \in Nat
  <2>1. outside => Min({volume, MaxVolume}) = IF volume <= MaxVolume THEN volume ELSE MaxVolume
    BY <1>1, <1>6, ExtremaOfTwo
  <2>. QED  BY <1>1, <1>6, <2>1
<1>8. size \in Nat
  <2>. HIDE DEF size
  <2>. QED  BY <1>3, <1>7
<1>9. Approved(d, plan, at) = IF RiskBlocked(input, plan) THEN 0 ELSE size
  BY DEF Approved, Verdict, Size, budget
<1>. HIDE DEF size, input
<1>. QED  BY <1>8, <1>9

\* The simulation settles the events one after the other.
Run(run, d, events, cs) ==
  /\ \A n \in 0..Len(events) : run[n] \in SimulationResult
  /\ run[0] = NoTrades
  /\ \A n \in 1..Len(events) :
       run[n] = Settle(run[n - 1], events[n], Approved(d, events[n].plan, events[n].at),
                       Fills(events[n].plan, cs), cs)
  /\ Simulate(d, events, cs) = run[Len(events)]

\* The simulation is the last of a sequence of states, one for every event.
LEMMA SimulateIs ==
    ASSUME NEW d, NEW events \in Seq(ReplayStrategyEvent), NEW cs \in Seq(Candle)
    PROVE  \E run : Run(run, d, events, cs)
<1>. DEFINE V == SimulationResult
            N == Len(events)
            Step(n, r) == Settle(r, events[n], Approved(d, events[n].plan, events[n].at),
                                 Fills(events[n].plan, cs), cs)
            Rule(g, n) == IF n = 0 THEN NoTrades ELSE Step(n, g[n - 1])
            F == [i \in 1..N |-> [r \in V |-> Step(i, r)]]
            Upto(g) == g = [n \in 0..N |-> Rule(g, n)]
            run == CHOOSE g : Upto(g)
<1>1. \A n \in 1..N : \A r \in V : Step(n, r) \in V
  <2>1. ASSUME NEW n \in 1..N, NEW r \in V
        PROVE  Step(n, r) \in V
    <3>. DEFINE event == events[n]
                size == Approved(d, event.plan, event.at)
    <3>1. event \in ReplayStrategyEvent
      OBVIOUS
    <3>2. event.plan # Nothing => event.plan \in TradePlanSuggestion
      BY <3>1 DEF ReplayStrategyEvent
    <3>3. event.plan # Nothing => size \in Nat
      BY <3>2, ApprovedIs
    <3>. HIDE DEF event, size
    <3>4. Settle(r, event, size, Fills(event.plan, cs), cs) \in V
      BY <3>1, <3>3, SettleIs
    <3>. QED  BY <3>4 DEF event, size
  <2>. HIDE DEF Step
  <2>. QED  BY <2>1
<1>2. NoTrades \in V
  BY CostsAssumption DEF NoTrades, SimulationResult, CostsAndSizes
<1>. HIDE DEF V
<1>3. F \in Rules(V, N) /\ N \in Nat
  <2>. HIDE DEF Step
  <2>. QED  BY <1>1 DEF Rules
<1>4. \A i \in 1..N, r \in V : F[i][r] = Step(i, r)
  <2>. HIDE DEF Step
  <2>. QED  OBVIOUS
<1>. HIDE DEF F
<1>5. PICK g \in [0..N -> V] : Follows(g, V, NoTrades, N, F)
  BY <1>2, <1>3, Recursion
<1>6. \A n \in 0..N : g[n] = Rule(g, n)
  <2>1. \A i \in 1..N : i - 1 \in 0..N
    BY <1>3
  <2>. HIDE DEF Step, N
  <2>. QED  BY <1>3, <1>4, <1>5, <2>1 DEF Follows
<1>7. Upto(g)
  <2>. HIDE DEF Rule
  <2>. QED  BY <1>6
<1>8. Upto(run)
  <2>. HIDE DEF Upto
  <2>. QED  BY <1>7
<1>9. Simulate(d, events, cs) = run[N]
  BY DEF Simulate
<1>. HIDE DEF run
<1>10. \A n \in 0..N : run[n] = Rule(run, n)
  <2>. HIDE DEF Rule
  <2>. QED  BY <1>8
<1>11. run[0] = NoTrades /\ \A i \in 1..N : run[i] = Step(i, run[i - 1])
  <2>. HIDE DEF Step, N
  <2>. QED  BY <1>3, <1>10
<1>12. Follows(run, V, NoTrades, N, F)
  <2>. HIDE DEF Step
  <2>. QED  BY <1>4, <1>11 DEF Follows
<1>13. \A n \in 0..N : run[n] \in V
  BY <1>2, <1>3, <1>12, RecursionKeeps
<1>. QED  BY <1>9, <1>11, <1>13 DEF Run, V

-----------------------------------------------------------------------------

\* The shape of the state follows from the clock's invariant.
LEMMA TypesHold == ClockInv => TypeOK
<1>. SUFFICES ASSUME ClockInv
              PROVE  TypeOK
  OBVIOUS
<1>. DEFINE gap(i) == (End(candles[i])..candles[i + 1].time - 1)
                        \cap Governed(data.manifest.coverage, "PRIMARY")
<1>1. data \in DataSets /\ Admitted(data) /\ DataSet(data)
  BY DataSetsAssumption DEF ClockInv
<1>2. engine \in Engine /\ candles \in Seq(Candle) /\ Now \in Nat
  BY NowIs DEF ClockInv
<1>3. ASSUME NEW i \in 1..Len(candles) - 1, NEW t \in gap(i)
      PROVE  \E g \in data.manifest.coverage.gaps :
               g.frame = "PRIMARY" /\ g.expected /\ g.from <= t /\ t < g.to
  <2>1. t \in End(candles[i])..candles[i + 1].time - 1
        /\ t \in Governed(data.manifest.coverage, "PRIMARY")
    BY <1>3
  <2>2. t \in data.closed
    BY <1>3, <2>1 DEF ClockInv, OnlyClosures
  <2>3. t \in Nat
    BY <1>1, <2>2, DataSetIs
  <2>. QED  BY <1>1, <2>1, <2>2, <2>3, DeclaredClosure
<1>4. /\ engine.trend \in [ToSet(Scopes) -> Direction \cup {"UNKNOWN", "NEUTRAL"}]
      /\ engine.swings \in Seq(SwingPoint) /\ engine.events \in Seq(StructureEvent)
      /\ engine.levels \in Seq(LiquidityLevel) /\ engine.zones \in Seq(Zone)
  <2>1. /\ PricedSwing \subseteq SwingPoint /\ PricedLevel \subseteq LiquidityLevel
        /\ PricedZone \subseteq Zone
    BY DEF PricedSwing, PricedLevel, PricedZone
  <2>. QED  BY <1>2, <2>1, EngineTypes
<1>5. NewsAt(data.vintages, data.quotes, engine, Now, data.calendar)
        \in NewsStrategyContext(data.vintages)
  <2>1. data.calendar \in BOOLEAN
    BY <1>1, DataSetIs
  <2>. QED  BY <2>1, NewsAtIs
<1>6. journal \in Seq(ReplayStrategyEvent)
      /\ \A i \in 1..Len(journal) :
           journal[i].at <= Now /\ (i > 1 => journal[i - 1].at < journal[i].at)
  BY DEF ClockInv, Clocked
<1>7. PureRiskEvaluationInput(BuildInput(data, Now))
  BY <1>1, <1>2, InputIs
<1>8. Simulate(data, journal, candles) \in SimulationResult
  <2>1. PICK run : Run(run, data, journal, candles)
    BY <1>2, <1>6, SimulateIs
  <2>. DEFINE n == Len(journal)
  <2>2. n \in 0..n
    BY <1>6
  <2>3. (\A i \in 0..n : run[i] \in SimulationResult) /\ Simulate(data, journal, candles) = run[n]
    BY <2>1 DEF Run
  <2>. HIDE DEF n
  <2>. QED  BY <2>2, <2>3
<1>. QED  BY <1>1, <1>3, <1>4, <1>5, <1>6, <1>7, <1>8 DEF TypeOK

\* The shape of every state of a run: see TypeOK.
THEOREM BacktestTypes == Spec => []TypeOK
<1>. QED  BY ClockRuns, TypesHold, PTL

-----------------------------------------------------------------------------
(* Nothing of the future *)

\* There is a bar of the frames above for every time of a run.
LEMMA CoarseCovers ==
    ASSUME NEW d \in DataSets, Admitted(d), NEW at \in Nat, at <= Cutoff(d)
    PROVE  /\ at \div CoarseBars \in 0..Len(d.coarse)
           /\ (at \div CoarseBars) * CoarseBars <= at
<1>. DEFINE cov == d.manifest.coverage
            f == cov.frames["COARSE"]
            opens == Opens(d, "COARSE")
            N == Len(d.coarse)
            q == at \div CoarseBars
<1>1. DataSet(d) /\ CoarseBars \in Nat /\ CoarseBars > 0
  BY DataSetsAssumption, StrategyAssumption DEF StrategyConfig
<1>2. ValidCandles(d) /\ DataCoverage(cov)
  BY DEF Admitted, CanonicalReplayInputs, BacktestRunManifest
<1>3. /\ "COARSE" \in DOMAIN cov.frames /\ opens # {}
      /\ Max(opens) + CoarseBars >= f.end
  BY <1>2 DEF ValidCandles, Frames, Bar
<1>4. cov.usable.end <= f.end /\ f.end \in Nat /\ cov.usable.end \in Nat
  BY <1>1, <1>2, <1>3 DEF DataCoverage, DataSet
<1>5. at <= f.end
  BY <1>1, <1>4, CutoffIs
<1>6. N \in Nat
  BY <1>1, DataSetIs
<1>7. opens = {CoarseBars * n : n \in 0..N - 1}
  BY DEF Opens
<1>. HIDE DEF opens, f, N
<1>8. \E n \in 0..N - 1 : Max(opens) = CoarseBars * n
  <2>. DEFINE L == CoarseBars
              g == [n \in 0..N - 1 |-> L * n]
  <2>1. opens = {g[n] : n \in 0..N - 1}
    BY <1>7
  <2>2. IsFiniteSet(0..N - 1)
    <3>1. 0 \in Int /\ N - 1 \in Int
      BY <1>6
    <3>. QED  BY <3>1, FS_Interval
  <2>3. \A n \in 0..N - 1 : g[n] \in Int
    BY <1>1, <1>6
  <2>. HIDE DEF g, L
  <2>4. opens \in SUBSET Int /\ IsFiniteSet(opens)
    BY <2>1, <2>2, <2>3, ImageIsFinite
  <2>5. Max(opens) \in opens
    BY <1>3, <2>4, FiniteExtrema
  <2>. QED  BY <1>7, <2>5
<1>9. PICK n \in 0..N - 1 : Max(opens) = CoarseBars * n
  BY <1>8
<1>10. CoarseBars * n + CoarseBars <= CoarseBars * N
  <2>. DEFINE k == N - 1 - n
  <2>1. k \in Nat /\ N = n + k + 1 /\ n \in Nat
    BY <1>6, <1>9
  <2>. HIDE DEF k
  <2>2. CoarseBars * k \in Nat /\ CoarseBars * N = CoarseBars * n + CoarseBars * k + CoarseBars
    BY <1>1, <2>1
  <2>3. CoarseBars * n \in Nat /\ CoarseBars * N \in Nat
    BY <1>1, <1>6, <2>1
  <2>. QED  BY <1>1, <2>2, <2>3
<1>11. at <= CoarseBars * N
  <2>1. CoarseBars * n \in Int /\ CoarseBars * N \in Int
    BY <1>1, <1>6, <1>9
  <2>. QED  BY <1>1, <1>3, <1>4, <1>5, <1>9, <1>10, <2>1 DEF f
<1>12. PICK k, r \in Nat : r < CoarseBars /\ at = CoarseBars * k + r /\ q = k
  <2>. HIDE DEF q
  <2>. QED  BY <1>1, Division DEF q
<1>13. k <= N
  <2>. SUFFICES ASSUME ~(k <= N)
                PROVE  FALSE
    OBVIOUS
  <2>. DEFINE j == k - N - 1
  <2>1. j \in Nat /\ k = N + j + 1
    BY <1>6
  <2>. HIDE DEF j
  <2>2. CoarseBars * j \in Nat /\ CoarseBars * k = CoarseBars * N + CoarseBars * j + CoarseBars
    BY <1>1, <1>6, <2>1
  <2>3. CoarseBars * N \in Nat
    BY <1>1, <1>6
  <2>. QED  BY <1>1, <1>11, <1>12, <2>2, <2>3
<1>14. k * CoarseBars <= at
  <2>1. k * CoarseBars = CoarseBars * k /\ CoarseBars * k \in Nat
    BY <1>1
  <2>. QED  BY <1>12, <2>1
<1>. QED  BY <1>6, <1>12, <1>13, <1>14 DEF N

\* What is hidden from a run that knows nothing of the future is all it has
\* not looked at.
LEMMA BlindIs ==
    ASSUME NEW d \in DataSets, Admitted(d), NEW at \in Nat, at <= Cutoff(d), NEW st
    PROVE  LET blind == WithoutTheFuture(d, at)
           IN /\ blind.manifest = d.manifest
              /\ Context(blind, st, at) = Context(d, st, at)
              /\ BuildInput(blind, at) = BuildInput(d, at)
<1>. DEFINE blind == WithoutTheFuture(d, at)
            cs == [n \in 1..Len(d.coarse) |-> IF n * CoarseBars <= at THEN d.coarse[n] ELSE "UNKNOWN"]
            vs == {v \in d.vintages : v.available <= at}
            qs == {q \in d.quotes : q.time <= at /\ q.observed <= at}
            n == at \div CoarseBars
<1>1. DataSet(d)
  BY DataSetsAssumption
<1>2. blind = [d EXCEPT !.coarse = cs, !.vintages = vs, !.quotes = qs]
  BY DEF WithoutTheFuture
<1>3. n \in 0..Len(d.coarse) /\ n * CoarseBars <= at
  BY CoarseCovers
<1>4. n # 0 => cs[n] = d.coarse[n]
  BY <1>1, <1>3, DataSetIs
<1>. HIDE DEF cs, vs, qs, blind
<1>5. /\ blind.manifest = d.manifest /\ blind.coarse = cs /\ blind.vintages = vs
      /\ blind.quotes = qs /\ blind.calendar = d.calendar /\ blind.newsRisk = d.newsRisk
      /\ blind.strong = d.strong
  BY <1>1, <1>2 DEF DataSet
<1>6. VisibleCoarse(blind, at) = VisibleCoarse(d, at)
  BY <1>4, <1>5 DEF VisibleCoarse
<1>7. ObservedBy(blind.quotes, at) = ObservedBy(d.quotes, at)
  BY <1>5 DEF ObservedBy, qs
<1>8. LatestKnown(blind.vintages, at) = LatestKnown(d.vintages, at)
  BY <1>5 DEF LatestKnown, vs
<1>9. SafetySpread(blind.quotes, at) = SafetySpread(d.quotes, at)
  BY <1>7 DEF SafetySpread
<1>10. NewsAt(blind.vintages, blind.quotes, st, at, blind.calendar)
         = NewsAt(d.vintages, d.quotes, st, at, d.calendar)
  BY <1>5, <1>7, <1>8 DEF NewsAt, SpreadAround
<1>11. Context(blind, st, at) = Context(d, st, at)
  BY <1>5, <1>6, <1>9, <1>10, Zenon DEF Context
<1>12. QuoteAt(blind.quotes, at) = QuoteAt(d.quotes, at)
  BY <1>7 DEF QuoteAt
<1>13. RiskNewsAt(blind, at) = RiskNewsAt(d, at)
  BY <1>5, <1>8 DEF RiskNewsAt
<1>14. BuildInput(blind, at) = BuildInput(d, at)
  BY <1>5, <1>12, <1>13, Zenon DEF BuildInput
<1>. QED  BY <1>5, <1>11, <1>14 DEF blind

\* Hiding the future of the clock changes neither a decision nor its verdict.
LEMMA KnownHolds == ClockInv => DecidesOnWhatWasKnown
<1>. SUFFICES ASSUME ClockInv, journal # <<>>
              PROVE  LET e == Last(journal)
                         blind == WithoutTheFuture(data, e.at)
                     IN /\ e.plan = Decision(blind, engine, e.at)
                        /\ e.plan # Nothing =>
                             Approved(data, e.plan, e.at) = Approved(blind, e.plan, e.at)
  BY DEF DecidesOnWhatWasKnown
<1>. DEFINE e == Last(journal)
            blind == WithoutTheFuture(data, e.at)
<1>1. /\ data \in DataSets /\ Admitted(data) /\ Now \in Nat /\ Now <= Cutoff(data)
      /\ e.at = Now /\ e.plan = Decision(data, engine, Now)
  BY NowIs DEF ClockInv
<1>2. /\ blind.manifest = data.manifest
      /\ Context(blind, engine, e.at) = Context(data, engine, e.at)
      /\ BuildInput(blind, e.at) = BuildInput(data, e.at)
  BY <1>1, BlindIs
<1>. HIDE DEF e, blind
<1>3. e.plan = Decision(blind, engine, e.at)
  BY <1>1, <1>2 DEF Decision
<1>4. Approved(data, e.plan, e.at) = Approved(blind, e.plan, e.at)
  BY <1>2 DEF Approved
<1>. QED  BY <1>3, <1>4 DEF e, blind

\* No decision and no verdict depends on a bar that was still open, a vintage
\* that was not published or a quote that was not observed (replay.py).
THEOREM NoLookAhead == Spec => []DecidesOnWhatWasKnown
<1>. QED  BY ClockRuns, KnownHolds, PTL

-----------------------------------------------------------------------------
(* One event of the simulation *)

\* Whether an event is filled, why it is not, and its trade.
Fillable(run, event, size, cs) ==
  /\ event.plan # Nothing /\ size # 0
  /\ ~(event.at < run.openUntil) /\ Fills(event.plan, cs) # {}
Refusal(run, event, size) ==
  IF event.plan = Nothing THEN "NO_PLAN"
  ELSE IF size = 0 THEN "RISK_BLOCKED"
  ELSE IF event.at < run.openUntil THEN "NOT_FILLED_CONCURRENT"
  ELSE "EXPIRED_UNFILLED"
TradeOf(event, size, cs) ==
  LET fill == Min(Fills(event.plan, cs))
  IN Trade(event, size, fill, Exits(event.plan, cs, fill), cs)

\* The candle that fills a plan is the first that may, and what ends the trade
\* is the first later candle that may.
LEMMA FillIsFirst ==
    ASSUME NEW plan, NEW cs, Len(cs) \in Nat, Fills(plan, cs) # {}
    PROVE  LET fill == Min(Fills(plan, cs))
           IN /\ fill \in Fills(plan, cs) /\ fill \in 1..Len(cs)
              /\ \A i \in Fills(plan, cs) : fill <= i
              /\ Exits(plan, cs, fill) \in SUBSET (fill..Len(cs))
              /\ \A i \in Exits(plan, cs, fill) : fill < i
<1>. DEFINE fills == Fills(plan, cs)
            fill == Min(fills)
<1>1. fills \in SUBSET Nat /\ fills \subseteq 1..Len(cs)
  BY DEF Fills
<1>. HIDE DEF fills
<1>2. fill \in fills /\ \A i \in fills : fill <= i
  BY <1>1, MinOfNaturals DEF fills
<1>3. fill \in 1..Len(cs)
  BY <1>1, <1>2
<1>. HIDE DEF fill
<1>4. \A i \in Exits(plan, cs, fill) : i \in fill + 1..Len(cs)
  BY DEF Exits
<1>5. Exits(plan, cs, fill) \in SUBSET (fill..Len(cs)) /\ \A i \in Exits(plan, cs, fill) : fill < i
  BY <1>3, <1>4
<1>. QED  BY <1>2, <1>3, <1>5 DEF fill, fills

\* What settling one event does, case by case.
Settling(run, next, event, size, cs) ==
  LET n == Len(run.trades)
      trade == TradeOf(event, size, cs)
      refused == Unfilled(event, Refusal(run, event, size))
  IN /\ n \in Nat /\ Len(next.trades) = n + 1
     /\ \A i \in 1..n : next.trades[i] = run.trades[i]
     /\ Fillable(run, event, size, cs) =>
          /\ trade \in Filled /\ next = WithTrade(run, trade)
          /\ next.trades[n + 1] = trade /\ next.openUntil = trade.exits
     /\ ~Fillable(run, event, size, cs) =>
          /\ next = [run EXCEPT !.trades = Append(@, refused)]
          /\ refused \in SimulatedTrade
          /\ next.trades[n + 1] = refused /\ next.openUntil = run.openUntil

\* What settling one event appends to the trades, and on what grounds.
LEMMA SettleTrades ==
    ASSUME NEW run \in SimulationResult, NEW event \in ReplayStrategyEvent, NEW size,
           event.plan # Nothing => size \in Nat, NEW cs \in Seq(Candle)
    PROVE  Settling(run, Settle(run, event, size, Fills(event.plan, cs), cs), event, size, cs)
<1>. DEFINE plan == event.plan
            fills == Fills(plan, cs)
            fill == Min(fills)
            next == Settle(run, event, size, fills, cs)
            n == Len(run.trades)
            trade == TradeOf(event, size, cs)
            status == Refusal(run, event, size)
            refused == Unfilled(event, status)
            with(t) == [run EXCEPT !.trades = Append(@, t)]
<1>1. next =
        IF plan = Nothing THEN with(Unfilled(event, "NO_PLAN"))
        ELSE IF size = 0 THEN with(Unfilled(event, "RISK_BLOCKED"))
        ELSE IF event.at < run.openUntil THEN with(Unfilled(event, "NOT_FILLED_CONCURRENT"))
        ELSE IF fills = {} THEN with(Unfilled(event, "EXPIRED_UNFILLED"))
        ELSE WithTrade(run, trade)
  BY DEF Settle, TradeOf
<1>2. event.at \in Nat /\ run.trades \in Seq(SimulatedTrade) /\ n \in Nat
  BY DEF ReplayStrategyEvent, SimulationResult
<1>3. ASSUME Fillable(run, event, size, cs)
      PROVE  /\ trade \in Filled /\ next = WithTrade(run, trade)
             /\ Len(next.trades) = n + 1 /\ \A i \in 1..n : next.trades[i] = run.trades[i]
             /\ next.trades[n + 1] = trade /\ next.openUntil = trade.exits
  <2>1. trade \in Filled
    <3>1. plan # Nothing /\ size \in Nat /\ fills # {} /\ Len(cs) \in Nat
      BY <1>3 DEF Fillable
    <3>. HIDE DEF plan
    <3>2. fill \in 1..Len(cs) /\ Exits(plan, cs, fill) \in SUBSET (fill..Len(cs))
      BY <3>1, FillIsFirst
    <3>. HIDE DEF fill, fills
    <3>3. Trade(event, size, fill, Exits(plan, cs, fill), cs) \in Filled
      BY <3>1, <3>2, TradeIs DEF Filled, plan
    <3>. QED  BY <3>3 DEF TradeOf, fill, fills, plan
  <2>2. next = WithTrade(run, trade)
    <3>. HIDE DEF next, trade, with
    <3>. QED  BY <1>1, <1>3 DEF Fillable
  <2>. HIDE DEF next, trade
  <2>3. next.trades = Append(run.trades, trade) /\ next.openUntil = trade.exits
    BY <2>2 DEF WithTrade
  <2>4. trade \in SimulatedTrade
    BY <2>1 DEF SimulatedTrade, Filled
  <2>. QED  BY <1>2, <2>1, <2>2, <2>3, <2>4, AppendIs
<1>4. ASSUME ~Fillable(run, event, size, cs)
      PROVE  /\ next = with(refused) /\ refused \in SimulatedTrade
             /\ Len(next.trades) = n + 1 /\ \A i \in 1..n : next.trades[i] = run.trades[i]
             /\ next.trades[n + 1] = refused /\ next.openUntil = run.openUntil
  <2>1. next = with(refused)
    <3>. HIDE DEF next, trade, with
    <3>. QED  BY <1>1, <1>4 DEF Fillable, Refusal
  <2>2. refused \in SimulatedTrade
    <3>1. status \in {"NO_PLAN", "RISK_BLOCKED", "NOT_FILLED_CONCURRENT", "EXPIRED_UNFILLED"}
      BY DEF Refusal
    <3>. HIDE DEF status
    <3>. QED  BY <1>2, <3>1 DEF Unfilled, SimulatedTrade
  <2>. HIDE DEF next, refused
  <2>3. next.trades = Append(run.trades, refused) /\ next.openUntil = run.openUntil
    BY <2>1 DEF SimulationResult
  <2>. QED  BY <1>2, <2>1, <2>2, <2>3, AppendIs
<1>. HIDE DEF next, trade, refused, n
<1>5. CASE Fillable(run, event, size, cs)
  BY <1>2, <1>3, <1>5 DEF next, trade, refused, n, Settling
<1>6. CASE ~Fillable(run, event, size, cs)
  BY <1>2, <1>4, <1>6 DEF next, trade, refused, n, Settling
<1>. QED  BY <1>5, <1>6

\* Each event of a run is settled by the simulation.
LEMMA EventAt ==
    ASSUME NEW d, NEW events \in Seq(ReplayStrategyEvent), NEW cs \in Seq(Candle),
           NEW run, Run(run, d, events, cs), NEW n \in 1..Len(events)
    PROVE  LET event == events[n]
               size == Approved(d, event.plan, event.at)
           IN /\ event \in ReplayStrategyEvent /\ (event.plan # Nothing => size \in Nat)
              /\ run[n - 1] \in SimulationResult /\ run[n] \in SimulationResult
              /\ Settling(run[n - 1], run[n], event, size, cs)
<1>. DEFINE N == Len(events)
            event == events[n]
            size == Approved(d, event.plan, event.at)
            r == run[n - 1]
<1>1. event \in ReplayStrategyEvent /\ n - 1 \in 0..N /\ n \in 0..N
  OBVIOUS
<1>2. event.plan # Nothing => size \in Nat
  <2>1. event.plan # Nothing => event.plan \in TradePlanSuggestion
    BY <1>1 DEF ReplayStrategyEvent
  <2>. HIDE DEF event
  <2>. QED  BY <2>1, ApprovedIs
<1>3. /\ r \in SimulationResult /\ run[n] \in SimulationResult
      /\ run[n] = Settle(r, event, size, Fills(event.plan, cs), cs)
  BY <1>1, Zenon DEF Run
<1>. HIDE DEF event, size, r
<1>4. Settling(r, run[n], event, size, cs)
  BY <1>1, <1>2, <1>3, SettleTrades
<1>. QED  BY <1>1, <1>2, <1>3, <1>4 DEF event, size, r

\* The trades of a run, one for each event, never taken back.
Stays(run, n) ==
  /\ Len(run[n].trades) = n
  /\ \A i \in 1..n : run[n].trades[i] = run[i].trades[i]

\* Later events leave the trades of earlier ones alone.
LEMMA TradesStay ==
    ASSUME NEW d, NEW events \in Seq(ReplayStrategyEvent), NEW cs \in Seq(Candle),
           NEW run, Run(run, d, events, cs), NEW m \in 0..Len(events)
    PROVE  Stays(run, m)
<1>. DEFINE N == Len(events)
            M == {n \in Nat : n <= N => Stays(run, n)}
<1>1. N \in Nat
  OBVIOUS
<1>2. 0 \in M
  <2>1. Len(run[0].trades) = 0
    BY DEF Run, NoTrades
  <2>. QED  BY <1>1, <2>1 DEF Stays
<1>3. ASSUME NEW n \in Nat, n \in M
      PROVE  n + 1 \in M
  <2>. SUFFICES ASSUME n + 1 <= N
                PROVE  Stays(run, n + 1)
    OBVIOUS
  <2>1. Stays(run, n) /\ n + 1 \in 1..N /\ (n + 1) - 1 = n
    BY <1>1, <1>3
  <2>. DEFINE r == run[n]
              s == run[n + 1]
  <2>2. \E event, size : Settling(r, s, event, size, cs)
    BY <2>1, EventAt
  <2>3. /\ Len(s.trades) = Len(r.trades) + 1
        /\ \A i \in 1..Len(r.trades) : s.trades[i] = r.trades[i]
    BY <2>2 DEF Settling
  <2>4. Len(s.trades) = n + 1 /\ \A i \in 1..n : s.trades[i] = run[i].trades[i]
    BY <2>1, <2>3 DEF Stays
  <2>5. \A i \in 1..n + 1 : s.trades[i] = run[i].trades[i]
    <3>1. \A i \in 1..n + 1 : i = n + 1 \/ i \in 1..n
      BY <1>3
    <3>. QED  BY <2>4, <3>1, Zenon
  <2>. QED  BY <2>4, <2>5 DEF Stays
<1>. HIDE DEF M
<1>4. Nat \subseteq M
  BY <1>2, <1>3, SetInduction
<1>5. m \in M /\ m <= N
  BY <1>1, <1>4
<1>. QED  BY <1>5 DEF M

\* Each trade of a run is what settling its event makes of it.
TradeFrom(trade, run, next, event, size, cs) ==
  /\ Fillable(run, event, size, cs) =>
       /\ trade = TradeOf(event, size, cs) /\ trade \in Filled
       /\ next = WithTrade(run, trade) /\ next.openUntil = trade.exits
  /\ ~Fillable(run, event, size, cs) =>
       /\ trade = Unfilled(event, Refusal(run, event, size)) /\ trade \in SimulatedTrade
       /\ next = [run EXCEPT !.trades = Append(@, trade)]
       /\ next.openUntil = run.openUntil

\* The trade of an event is the one its settlement appended.
LEMMA TradeAt ==
    ASSUME NEW d, NEW events \in Seq(ReplayStrategyEvent), NEW cs \in Seq(Candle),
           NEW run, Run(run, d, events, cs), NEW n \in 1..Len(events)
    PROVE  LET event == events[n]
               size == Approved(d, event.plan, event.at)
           IN /\ event \in ReplayStrategyEvent /\ (event.plan # Nothing => size \in Nat)
              /\ run[n - 1] \in SimulationResult /\ run[n] \in SimulationResult
              /\ TradeFrom(Simulate(d, events, cs).trades[n], run[n - 1], run[n], event, size, cs)
<1>. DEFINE N == Len(events)
            event == events[n]
            size == Approved(d, event.plan, event.at)
            trade == Simulate(d, events, cs).trades[n]
            r == run[n - 1]
            s == run[n]
<1>1. N \in Nat /\ n - 1 \in 0..N /\ N \in 0..N /\ n \in 1..N /\ (n - 1) + 1 = n
  OBVIOUS
<1>2. /\ event \in ReplayStrategyEvent /\ (event.plan # Nothing => size \in Nat)
      /\ r \in SimulationResult /\ s \in SimulationResult
      /\ Settling(r, s, event, size, cs)
  BY EventAt
<1>3. Simulate(d, events, cs) = run[N]
  BY DEF Run
<1>4. trade = s.trades[n] /\ Len(r.trades) = n - 1
  <2>1. n - 1 \in 0..Len(events) /\ Len(events) \in 0..Len(events)
    BY <1>1
  <2>2. Stays(run, n - 1)
    BY <2>1, TradesStay
  <2>3. Stays(run, Len(events))
    BY <2>1, TradesStay
  <2>. QED  BY <1>1, <1>3, <2>2, <2>3 DEF Stays
<1>. HIDE DEF event, size, trade, r, s
<1>5. TradeFrom(trade, r, s, event, size, cs)
  BY <1>1, <1>2, <1>4, Zenon DEF Settling, TradeFrom
<1>. QED  BY <1>2, <1>5 DEF event, size, trade, r, s

-----------------------------------------------------------------------------
(* What a trade may claim *)

\* The candle of a time is the one that opened then.
LEMMA CandleAtIs ==
    ASSUME ClockInv, NEW i \in 1..Len(candles)
    PROVE  CandleAt(candles[i].time) = candles[i]
<1>. DEFINE c == candles[i]
            T == ToSet(candles)
<1>1. candles \in Seq(Candle) /\ Ordered(candles)
  BY NowIs DEF ClockInv
<1>2. c \in T /\ T = {candles[k] : k \in 1..Len(candles)}
  BY <1>1, ToSetOf
<1>3. ASSUME NEW d \in T, d.time = c.time
      PROVE  d = c
  <2>1. PICK k \in 1..Len(candles) : d = candles[k]
    BY <1>2
  <2>2. k \in Nat /\ i \in Nat /\ candles[k].time \in Nat /\ c.time \in Nat
    BY <1>1, CandlesAre
  <2>3. ~(k < i) /\ ~(i < k)
    BY <1>1, <1>3, <2>1, <2>2 DEF Ordered
  <2>. QED  BY <2>1, <2>2, <2>3
<1>4. CandleAt(c.time) = CHOOSE d \in T : d.time = c.time
  BY DEF CandleAt
<1>. HIDE DEF c, T
<1>5. CandleAt(c.time) \in T /\ CandleAt(c.time).time = c.time
  BY <1>2, <1>4
<1>. QED  BY <1>3, <1>5 DEF c

\* Of two candles the later one has the greater index.
LEMMA InOrder ==
    ASSUME NEW cs \in Seq(Candle), Ordered(cs), NEW i \in 1..Len(cs), NEW j \in 1..Len(cs)
    PROVE  /\ cs[i].time < cs[j].time <=> i < j
           /\ cs[i].time <= cs[j].time <=> i <= j
           /\ cs[i].time \in Nat /\ cs[j].time \in Nat
<1>1. cs[i].time \in Nat /\ cs[j].time \in Nat /\ i \in Nat /\ j \in Nat
  BY CandlesAre
<1>2. (i < j => cs[i].time < cs[j].time) /\ (j < i => cs[j].time < cs[i].time)
  BY DEF Ordered
<1>3. i = j => cs[i].time = cs[j].time
  OBVIOUS
<1>. QED  BY <1>1, <1>2, <1>3

\* Costs only take from what a trade makes.
LEMMA CostsTake ==
    ASSUME NEW size \in Nat, NEW gain \in Int, NEW most \in Int, gain <= most
    PROVE  gain * size - 2 * Commission * size <= size * most
<1>1. Commission \in Nat
  BY CostsAssumption DEF CostsAndSizes
<1>. DEFINE k == most - gain
<1>2. k \in Nat /\ gain = most - k
  OBVIOUS
<1>. HIDE DEF k
<1>3. k * size \in Nat /\ Commission * size \in Nat /\ most * size \in Int
  BY <1>1, <1>2
<1>4. gain * size = most * size - k * size
  BY <1>2
<1>5. 2 * Commission * size = 2 * (Commission * size) /\ size * most = most * size
  BY <1>1
<1>. QED  BY <1>3, <1>4, <1>5

\* A stop costs at least the risk taken; a target pays no more than its distance.
LEMMA PricesAreWorse ==
    ASSUME NEW plan \in TradePlanSuggestion, NEW c \in Candle
    PROVE  LET price == ExitPrice(plan, c)
               worst == IF plan.long THEN plan.high ELSE plan.low
               entry == Worse(worst, -(Spread + Slippage), plan.long)
               gain == IF plan.long THEN price - entry ELSE entry - price
           IN /\ gain \in Int /\ Distance(worst, plan.stop) \in Nat
              /\ Distance(worst, plan.target) \in Nat
              /\ HitsStop(c, plan) => gain <= -Distance(worst, plan.stop)
              /\ ~HitsStop(c, plan) => gain <= Distance(worst, plan.target)
<1>1. /\ plan.long \in BOOLEAN /\ plan.low \in Int /\ plan.high \in Int
      /\ plan.stop \in Int /\ plan.target \in Int
  BY PlanTypes
<1>2. /\ plan.low <= plan.high
      /\ plan.long => plan.stop < plan.low /\ plan.high < plan.target
      /\ ~plan.long => plan.stop > plan.high /\ plan.low > plan.target
  BY DEF TradePlanSuggestion
<1>3. c.open \in Int
  BY CandleTypes DEF Price
<1>4. Spread \in Nat /\ Slippage \in Nat
  BY CostsAssumption DEF CostsAndSizes
<1>. DEFINE stopped == HitsStop(c, plan)
<1>5. CASE plan.long
  <2>. DEFINE x == IF c.open < plan.stop THEN c.open ELSE plan.stop
  <2>1. ExitPrice(plan, c) = IF stopped THEN x - Slippage ELSE plan.target
    BY <1>5 DEF ExitPrice, Worse
  <2>2. Worse(plan.high, -(Spread + Slippage), plan.long) = plan.high + Spread + Slippage
    BY <1>1, <1>4, <1>5 DEF Worse
  <2>3. x \in Int /\ x <= plan.stop
    BY <1>1, <1>3
  <2>4. /\ Distance(plan.high, plan.stop) = plan.high - plan.stop
        /\ Distance(plan.high, plan.target) = plan.target - plan.high
    BY <1>1, <1>2, <1>5 DEF Distance
  <2>. HIDE DEF x, stopped
  <2>. DEFINE gain == ExitPrice(plan, c) - (plan.high + Spread + Slippage)
  <2>5. /\ gain \in Int
        /\ stopped => gain <= -(plan.high - plan.stop)
        /\ ~stopped => gain <= plan.target - plan.high
    BY <1>1, <1>2, <1>4, <1>5, <2>1, <2>3
  <2>6. plan.high - plan.stop \in Nat /\ plan.target - plan.high \in Nat
    BY <1>1, <1>2, <1>5
  <2>. QED  BY <1>5, <2>2, <2>4, <2>5, <2>6 DEF stopped
<1>6. CASE ~plan.long
  <2>. DEFINE x == IF c.open > plan.stop THEN c.open ELSE plan.stop
  <2>1. ExitPrice(plan, c) = IF stopped THEN x + Slippage ELSE plan.target
    BY <1>6 DEF ExitPrice, Worse
  <2>2. Worse(plan.low, -(Spread + Slippage), plan.long) = plan.low - Spread - Slippage
    BY <1>1, <1>4, <1>6 DEF Worse
  <2>3. x \in Int /\ plan.stop <= x
    BY <1>1, <1>3
  <2>4. /\ Distance(plan.low, plan.stop) = plan.stop - plan.low
        /\ Distance(plan.low, plan.target) = plan.low - plan.target
    BY <1>1, <1>2, <1>6 DEF Distance
  <2>. HIDE DEF x, stopped
  <2>. QED  BY <1>1, <1>2, <1>4, <1>6, <2>1, <2>2, <2>3, <2>4 DEF stopped
<1>. QED  BY <1>5, <1>6

\* A trade claims nothing that the candles do not bear out.
LEMMA TradeIsHonest ==
    ASSUME ClockInv, NEW event \in ReplayStrategyEvent, event.plan # Nothing,
           NEW size \in Nat, size # 0, Fills(event.plan, candles) # {}
    PROVE  LET t == TradeOf(event, size, candles)
           IN /\ Honest(t, event.plan, size, CandleAt(t.exits - 1))
              /\ t.planned = event.at /\ event.at <= t.enters /\ t.enters < t.exits
<1>. DEFINE cs == candles
            plan == event.plan
            fill == Min(Fills(plan, cs))
            exits == Exits(plan, cs, fill)
            i == Ending(exits, cs)
            c == cs[i]
            f == cs[fill]
            worst == IF plan.long THEN plan.high ELSE plan.low
            price == IF exits = {} THEN Worse(c.close, Slippage, plan.long) ELSE ExitPrice(plan, c)
            entry == Worse(worst, -(Spread + Slippage), plan.long)
            gain == IF plan.long THEN price - entry ELSE entry - price
            t == TradeOf(event, size, cs)
<1>1. cs \in Seq(Candle) /\ Ordered(cs) /\ Len(cs) \in Nat
  BY NowIs DEF ClockInv
<1>2. plan \in TradePlanSuggestion /\ plan.at = event.at /\ event.at \in Nat
  BY DEF ReplayStrategyEvent
<1>3. /\ t.planned = event.at /\ t.enters = f.time /\ t.exits = End(c)
      /\ t.reason = IF exits = {} THEN "END_OF_RUN"
                    ELSE IF HitsStop(c, plan) THEN "STOP_LOSS"
                    ELSE "TAKE_PROFIT"
      /\ t.net = gain * size - 2 * Commission * size
  BY Zenon DEF TradeOf, Trade
<1>4. /\ fill \in Fills(plan, cs) /\ fill \in 1..Len(cs)
      /\ \A k \in Fills(plan, cs) : fill <= k
      /\ exits \in SUBSET (fill..Len(cs)) /\ \A k \in exits : fill < k
  BY <1>1, FillIsFirst
<1>5. /\ i \in fill..Len(cs) /\ i \in 1..Len(cs)
      /\ exits # {} => i \in exits /\ \A k \in exits : i <= k
  <2>. HIDE DEF cs, fill, exits
  <2>. QED  BY <1>1, <1>4, EndingIs
<1>. HIDE DEF cs, fill, i, t, price
<1>6. /\ f.time >= plan.at /\ f.time < plan.expires
      /\ c \in Candle /\ c.time \in Nat /\ f.time \in Nat /\ f.time <= c.time
      /\ plan.expires \in Nat
  <2>1. f.time >= plan.at /\ f.time < plan.expires
    BY <1>4 DEF Fills
  <2>2. c \in Candle /\ c.time \in Nat /\ f.time \in Nat
    BY <1>1, <1>4, <1>5, CandlesAre
  <2>3. fill <= i
    BY <1>4, <1>5
  <2>4. f.time <= c.time
    BY <1>1, <1>4, <1>5, <2>3, InOrder
  <2>. QED  BY <1>2, <2>1, <2>2, <2>4, PlanTypes
<1>7. t.exits - 1 = c.time /\ t.enters < t.exits
  BY <1>3, <1>6 DEF End
<1>8. CandleAt(t.exits - 1) = c
  BY <1>5, <1>7, CandleAtIs DEF cs
<1>9. ASSUME NEW x \in ToSet(candles)
      PROVE  /\ x.time >= t.planned /\ Touches(x, plan) => x.time >= t.enters
             /\ x.time > t.enters /\ (HitsStop(x, plan) \/ HitsTarget(x, plan))
                  => t.reason # "END_OF_RUN" /\ End(x) >= t.exits
  <2>1. PICK k \in 1..Len(cs) : x = cs[k]
    <3>1. ToSet(cs) = {cs[k] : k \in 1..Len(cs)}
      BY <1>1, ToSetOf
    <3>. QED  BY <1>9, <3>1 DEF cs
  <2>2. x.time \in Nat
    BY <1>1, <2>1, CandlesAre
  <2>3. ASSUME x.time >= t.planned, Touches(x, plan)
        PROVE  x.time >= t.enters
    <3>1. CASE x.time < plan.expires
      <4>1. k \in Fills(plan, cs)
        BY <1>2, <1>3, <2>1, <2>3, <3>1 DEF Fills
      <4>2. fill <= k
        BY <1>4, <4>1
      <4>3. f.time <= x.time
        BY <1>1, <1>4, <2>1, <4>2, InOrder
      <4>. QED  BY <1>3, <1>6, <2>2, <4>3
    <3>2. CASE ~(x.time < plan.expires)
      BY <1>3, <1>6, <2>2, <3>2
    <3>. QED  BY <3>1, <3>2
  <2>4. ASSUME x.time > t.enters, HitsStop(x, plan) \/ HitsTarget(x, plan)
        PROVE  t.reason # "END_OF_RUN" /\ End(x) >= t.exits
    <3>1. f.time < x.time
      BY <1>3, <1>6, <2>2, <2>4
    <3>2. fill < k
      BY <1>1, <1>4, <2>1, <3>1, InOrder
    <3>3. k \in fill + 1..Len(cs)
      BY <1>1, <1>4, <2>1, <3>2
    <3>4. k \in exits
      BY <2>1, <2>4, <3>3 DEF Exits
    <3>5. i <= k
      BY <1>5, <3>4
    <3>6. c.time <= x.time
      BY <1>1, <1>5, <2>1, <3>5, InOrder
    <3>7. End(x) >= t.exits
      BY <1>3, <1>6, <2>2, <3>6 DEF End
    <3>8. t.reason # "END_OF_RUN"
      BY <1>3, <3>4
    <3>. QED  BY <3>7, <3>8
  <2>. QED  BY <2>3, <2>4
<1>10. exits # {} =>
         /\ c.time > t.enters /\ (HitsStop(c, plan) \/ HitsTarget(c, plan))
         /\ price = ExitPrice(plan, c)
  <2>. SUFFICES ASSUME exits # {}
                PROVE  /\ c.time > t.enters /\ (HitsStop(c, plan) \/ HitsTarget(c, plan))
                       /\ price = ExitPrice(plan, c)
    OBVIOUS
  <2>1. i \in exits /\ fill < i
    BY <1>4, <1>5
  <2>2. HitsStop(c, plan) \/ HitsTarget(c, plan)
    BY <2>1 DEF Exits
  <2>3. f.time < c.time
    BY <1>1, <1>4, <1>5, <2>1, InOrder
  <2>. QED  BY <1>3, <1>6, <2>2, <2>3 DEF price
<1>. DEFINE stop == Distance(worst, plan.stop)
            target == Distance(worst, plan.target)
<1>11. exits # {} =>
         /\ gain \in Int /\ stop \in Nat /\ target \in Nat
         /\ HitsStop(c, plan) => gain <= -stop
         /\ ~HitsStop(c, plan) => gain <= target
  <2>1. exits # {} => price = ExitPrice(plan, c)
    BY <1>10
  <2>. HIDE DEF exits
  <2>. QED  BY <1>2, <1>6, <2>1, PricesAreWorse
<1>. HIDE DEF gain, stop, target, exits, worst
<1>12. t.reason = "STOP_LOSS" => HitsStop(c, plan) /\ t.net <= -(size * stop)
  <2>. SUFFICES ASSUME t.reason = "STOP_LOSS"
                PROVE  HitsStop(c, plan) /\ t.net <= -(size * stop)
    OBVIOUS
  <2>1. exits # {} /\ HitsStop(c, plan)
    BY <1>3
  <2>2. gain \in Int /\ -stop \in Int /\ stop \in Nat /\ gain <= -stop
    BY <1>11, <2>1
  <2>3. gain * size - 2 * Commission * size <= size * (-stop)
    BY <2>2, CostsTake
  <2>4. size * (-stop) = -(size * stop)
    BY <2>2
  <2>. QED  BY <1>3, <2>1, <2>3, <2>4
<1>13. t.reason = "TAKE_PROFIT" =>
         /\ HitsTarget(c, plan) /\ ~HitsStop(c, plan) /\ c.time > t.enters
         /\ t.net <= size * target
  <2>. SUFFICES ASSUME t.reason = "TAKE_PROFIT"
                PROVE  /\ HitsTarget(c, plan) /\ ~HitsStop(c, plan) /\ c.time > t.enters
                       /\ t.net <= size * target
    OBVIOUS
  <2>1. exits # {} /\ ~HitsStop(c, plan)
    BY <1>3
  <2>2. gain \in Int /\ target \in Int /\ gain <= target
    BY <1>11, <2>1
  <2>3. gain * size - 2 * Commission * size <= size * target
    BY <2>2, CostsTake
  <2>. QED  BY <1>3, <1>10, <2>1, <2>3
<1>14. size > 0 /\ t.planned <= t.enters /\ t.enters < plan.expires
  BY <1>2, <1>3, <1>6
<1>15. Honest(t, plan, size, c)
  <2>. HIDE DEF plan, c
  <2>. QED  BY <1>7, <1>9, <1>12, <1>13, <1>14 DEF Honest, stop, target, worst
<1>. QED  BY <1>2, <1>3, <1>7, <1>8, <1>14, <1>15 DEF t, cs

\* What is filled is closed; what is refused says why.
LEMMA StatusIs ==
    ASSUME NEW trade, NEW run, NEW next, NEW event, NEW size, NEW cs,
           TradeFrom(trade, run, next, event, size, cs)
    PROVE  /\ trade.status = "FILLED_CLOSED" <=> Fillable(run, event, size, cs)
           /\ ~Fillable(run, event, size, cs) =>
                trade.status = Refusal(run, event, size) /\ trade.planned = event.at
<1>1. CASE Fillable(run, event, size, cs)
  BY <1>1 DEF TradeFrom, Filled
<1>2. CASE ~Fillable(run, event, size, cs)
  <2>1. Refusal(run, event, size) # "FILLED_CLOSED"
    BY DEF Refusal
  <2>2. trade = Unfilled(event, Refusal(run, event, size))
    BY <1>2 DEF TradeFrom
  <2>. QED  BY <1>2, <2>1, <2>2 DEF Unfilled
<1>. QED  BY <1>1, <1>2

\* A run from trade to trade.
Traded(run, d, events, cs) ==
  LET trades == Simulate(d, events, cs).trades
      size(n) == Approved(d, events[n].plan, events[n].at)
  IN /\ run[0] = NoTrades /\ Len(trades) = Len(events)
     /\ Simulate(d, events, cs) = run[Len(events)]
     /\ \A n \in 1..Len(events) :
          /\ run[n - 1] \in SimulationResult /\ run[n] \in SimulationResult
          /\ events[n] \in ReplayStrategyEvent
          /\ events[n].plan # Nothing => size(n) \in Nat
          /\ TradeFrom(trades[n], run[n - 1], run[n], events[n], size(n), cs)

\* A simulation has one trade for every event, each made on the state before it.
LEMMA TradesAre ==
    ASSUME NEW d, NEW events \in Seq(ReplayStrategyEvent), NEW cs \in Seq(Candle)
    PROVE  \E run : Traded(run, d, events, cs)
<1>1. PICK run : Run(run, d, events, cs)
  BY SimulateIs
<1>. DEFINE N == Len(events)
            trades == Simulate(d, events, cs).trades
            size(n) == Approved(d, events[n].plan, events[n].at)
<1>2. /\ Simulate(d, events, cs) = run[N] /\ N \in 0..N /\ run[0] = NoTrades
  BY <1>1 DEF Run
<1>3. Stays(run, N)
  BY <1>1, <1>2, TradesStay
<1>4. Len(trades) = N
  BY <1>2, <1>3 DEF Stays
<1>5. \A n \in 1..N :
        /\ run[n - 1] \in SimulationResult /\ run[n] \in SimulationResult
        /\ events[n] \in ReplayStrategyEvent
        /\ events[n].plan # Nothing => size(n) \in Nat
        /\ TradeFrom(trades[n], run[n - 1], run[n], events[n], size(n), cs)
  BY <1>1, TradeAt
<1>6. Traded(run, d, events, cs)
  <2>. HIDE DEF N, trades, size
  <2>. QED  BY <1>2, <1>4, <1>5 DEF Traded, N, trades, size
<1>. QED  BY <1>6

\* At most one position at a time: a plan is filled after the trades before it
\* have ended, and it has ended before the next is planned.
LEMMA OnePosition ==
    ASSUME ClockInv, NEW i \in 1..Len(journal), NEW j \in 1..Len(journal), j < i,
           Simulate(data, journal, candles).trades[i].status = "FILLED_CLOSED",
           Simulate(data, journal, candles).trades[j].status = "FILLED_CLOSED"
    PROVE  /\ Simulate(data, journal, candles).trades[j].exits
                <= Simulate(data, journal, candles).trades[i].planned
<1>. DEFINE trades == Simulate(data, journal, candles).trades
            N == Len(journal)
            size(n) == Approved(data, journal[n].plan, journal[n].at)
            cs == candles
<1>0. journal \in Seq(ReplayStrategyEvent) /\ candles \in Seq(Candle)
  BY NowIs DEF ClockInv
<1>1. PICK run : /\ \A n \in 1..N :
                      /\ run[n - 1] \in SimulationResult /\ run[n] \in SimulationResult
                      /\ journal[n] \in ReplayStrategyEvent
                      /\ journal[n].plan # Nothing => size(n) \in Nat
                      /\ TradeFrom(trades[n], run[n - 1], run[n], journal[n], size(n), cs)
  <2>1. PICK run : Traded(run, data, journal, candles)
    BY <1>0, TradesAre
  <2>. QED  BY <2>1 DEF Traded
<1>2. N \in Nat
  BY DEF ClockInv
<1>3. ASSUME NEW n \in 1..N
      PROVE  /\ run[n].openUntil \in Nat /\ run[n - 1].openUntil \in Nat
             /\ run[n - 1].openUntil <= run[n].openUntil
             /\ trades[n].status = "FILLED_CLOSED" =>
                  /\ run[n - 1].openUntil <= trades[n].planned
                  /\ trades[n].exits = run[n].openUntil
  <2>. DEFINE e == journal[n]
              v == size(n)
              t == trades[n]
              r == run[n - 1]
              s == run[n]
  <2>1. /\ r \in SimulationResult /\ s \in SimulationResult /\ e \in ReplayStrategyEvent
        /\ e.plan # Nothing => v \in Nat
        /\ TradeFrom(t, r, s, e, v, cs)
    BY <1>1
  <2>. HIDE DEF e, v, t, r, s
  <2>2. r.openUntil \in Nat /\ s.openUntil \in Nat /\ e.at \in Nat
    BY <2>1 DEF SimulationResult, ReplayStrategyEvent
  <2>3. CASE Fillable(r, e, v, cs)
    <3>1. e.plan # Nothing /\ v # 0 /\ Fills(e.plan, cs) # {} /\ r.openUntil <= e.at
      BY <2>2, <2>3 DEF Fillable
    <3>2. t = TradeOf(e, v, cs) /\ s.openUntil = t.exits /\ t \in Filled
      BY <2>1, <2>3 DEF TradeFrom
    <3>3. t.planned = e.at /\ e.at <= t.enters /\ t.enters < t.exits
      BY <2>1, <3>1, <3>2, TradeIsHonest
    <3>4. t.enters \in Nat /\ t.exits \in Nat
      BY <3>2 DEF Filled
    <3>5. r.openUntil <= s.openUntil
      BY <2>2, <3>1, <3>2, <3>3, <3>4
    <3>. QED  BY <2>2, <3>1, <3>2, <3>3, <3>5 DEF t, r, s
  <2>4. CASE ~Fillable(r, e, v, cs)
    <3>1. t.status # "FILLED_CLOSED"
      BY <2>1, <2>4, StatusIs
    <3>2. s.openUntil = r.openUntil
      BY <2>1, <2>4 DEF TradeFrom
    <3>. QED  BY <2>2, <3>1, <3>2 DEF t, r, s
  <2>. QED  BY <2>3, <2>4
<1>. HIDE DEF trades, N, size, cs
<1>4. \A n \in Nat : j <= n /\ n <= N => trades[j].exits <= run[n].openUntil
  <2>. DEFINE M == {n \in Nat : j <= n /\ n <= N => trades[j].exits <= run[n].openUntil}
  <2>0. j \in 1..N /\ i \in 1..N /\ j \in Nat /\ trades[j].status = "FILLED_CLOSED"
    BY <1>2 DEF N, trades
  <2>1. 0 \in M
    BY <2>0
  <2>2. ASSUME NEW n \in Nat, n \in M
        PROVE  n + 1 \in M
    <3>. SUFFICES ASSUME j <= n + 1, n + 1 <= N
                  PROVE  trades[j].exits <= run[n + 1].openUntil
      OBVIOUS
    <3>1. n + 1 \in 1..N /\ (n + 1) - 1 = n
      BY <1>2
    <3>2. CASE j = n + 1
      <4>1. trades[j].exits = run[n + 1].openUntil /\ run[n + 1].openUntil \in Nat
        BY <1>3, <2>0, <3>2
      <4>. QED  BY <4>1
    <3>3. CASE j # n + 1
      <4>1. trades[j].exits <= run[n].openUntil
        BY <1>2, <2>0, <2>2, <3>3
      <4>2. /\ run[n].openUntil \in Nat /\ run[n + 1].openUntil \in Nat
            /\ run[n].openUntil <= run[n + 1].openUntil
        <5>. DEFINE m == n + 1
        <5>1. m \in 1..N /\ m - 1 = n
          BY <3>1
        <5>. HIDE DEF m
        <5>. QED  BY <1>3, <5>1 DEF m
      <4>3. trades[j].exits \in Nat
        <5>1. trades[j].exits = run[j].openUntil /\ run[j].openUntil \in Nat
          BY <1>3, <2>0
        <5>. QED  BY <5>1
      <4>. QED  BY <4>1, <4>2, <4>3
    <3>. QED  BY <3>2, <3>3
  <2>. HIDE DEF M
  <2>3. Nat \subseteq M
    BY <2>1, <2>2, SetInduction
  <2>. QED  BY <2>3 DEF M
<1>5. i \in 1..N /\ j \in 1..N /\ trades[i].status = "FILLED_CLOSED"
      /\ trades[j].status = "FILLED_CLOSED"
  BY DEF N, trades
<1>6. i - 1 \in Nat /\ j <= i - 1 /\ i - 1 <= N
  BY <1>2, <1>5
<1>7. trades[j].exits <= run[i - 1].openUntil
  BY <1>4, <1>6
<1>8. run[i - 1].openUntil \in Nat /\ run[i - 1].openUntil <= trades[i].planned
  BY <1>3, <1>5
<1>9. trades[j].exits \in Nat /\ trades[i].planned \in Nat
  <2>1. trades[j].exits = run[j].openUntil /\ run[j].openUntil \in Nat
    BY <1>3, <1>5
  <2>2. trades[i] \in SimulatedTrade \/ trades[i] \in Filled
    BY <1>1, <1>5 DEF TradeFrom
  <2>3. trades[i].planned \in Nat
    BY <2>2 DEF SimulatedTrade, Filled
  <2>. QED  BY <2>1, <2>3
<1>10. trades[j].exits <= trades[i].planned
  BY <1>7, <1>8, <1>9
<1>. QED  BY <1>10 DEF trades

-----------------------------------------------------------------------------
(* A longer run *)

\* One more candle may fill or end what none has filled or ended before.
LEMMA OneMoreCandle ==
    ASSUME NEW cs \in Seq(Candle), NEW c \in Candle, NEW plan
    PROVE  LET ds == Append(cs, c)
           IN /\ Fills(plan, cs) \subseteq Fills(plan, ds)
              /\ Fills(plan, ds) \subseteq Fills(plan, cs) \cup {Len(cs) + 1}
              /\ \A f \in 1..Len(cs) :
                   /\ Exits(plan, cs, f) \subseteq Exits(plan, ds, f)
                   /\ Exits(plan, ds, f) \subseteq Exits(plan, cs, f) \cup {Len(cs) + 1}
<1>. DEFINE ds == Append(cs, c)
            n == Len(cs)
<1>1. n \in Nat /\ Len(ds) = n + 1 /\ \A i \in 1..n : ds[i] = cs[i]
  BY AppendIs
<1>2. \A i \in 1..n + 1 : i = n + 1 \/ i \in 1..n
  BY <1>1
<1>3. 1..n \subseteq 1..n + 1
  BY <1>1
<1>. HIDE DEF ds, n
<1>4. /\ Fills(plan, cs) \subseteq Fills(plan, ds)
      /\ Fills(plan, ds) \subseteq Fills(plan, cs) \cup {n + 1}
  BY <1>1, <1>2, <1>3 DEF Fills, n
<1>5. ASSUME NEW f \in 1..n
      PROVE  /\ Exits(plan, cs, f) \subseteq Exits(plan, ds, f)
             /\ Exits(plan, ds, f) \subseteq Exits(plan, cs, f) \cup {n + 1}
  <2>1. /\ f + 1..n \subseteq 1..n /\ f + 1..n \subseteq f + 1..n + 1
        /\ \A i \in f + 1..n + 1 : i = n + 1 \/ i \in f + 1..n
    BY <1>1
  <2>. QED  BY <1>1, <2>1 DEF Exits, n
<1>. QED  BY <1>4, <1>5 DEF ds, n

\* The first of a set stays the first when only a later one is added.
LEMMA FirstStaysFirst ==
    ASSUME NEW n \in Nat, NEW S \in SUBSET (1..n), NEW T \in SUBSET Nat, S # {},
           S \subseteq T, T \subseteq S \cup {n + 1}
    PROVE  Min(T) = Min(S) /\ Min(S) \in S
<1>1. S \in SUBSET Nat
  OBVIOUS
<1>2. Min(S) \in S /\ \A y \in S : Min(S) <= y
  BY <1>1, MinOfNaturals
<1>3. T # {}
  OBVIOUS
<1>4. Min(T) \in T /\ \A y \in T : Min(T) <= y
  BY <1>3, MinOfNaturals
<1>5. Min(T) <= Min(S) /\ Min(S) \in 1..n /\ Min(T) \in Nat
  BY <1>2, <1>4
<1>6. Min(T) # n + 1
  BY <1>5
<1>7. Min(T) \in S
  BY <1>4, <1>6
<1>8. Min(S) <= Min(T)
  BY <1>2, <1>7
<1>. QED  BY <1>2, <1>5, <1>8

\* A trade that has ended is the same in a longer run; one that has not goes on
\* until the end of that run.
LEMMA LongerTrade ==
    ASSUME NEW cs \in Seq(Candle), NEW c \in Candle, NEW event, NEW size,
           Fills(event.plan, cs) # {}
    PROVE  LET ds == Append(cs, c)
               fill == Min(Fills(event.plan, cs))
               t == TradeOf(event, size, cs)
               u == TradeOf(event, size, ds)
           IN /\ fill \in 1..Len(cs) /\ cs[fill].time >= event.plan.at
              /\ t.reason # "END_OF_RUN" => u = t
              /\ t.reason = "END_OF_RUN" => t.exits = End(cs[Len(cs)]) /\ u.exits = End(c)
<1>. DEFINE plan == event.plan
            ds == Append(cs, c)
            n == Len(cs)
            fill == Min(Fills(plan, cs))
            t == TradeOf(event, size, cs)
            u == TradeOf(event, size, ds)
            E == Exits(plan, cs, fill)
            D == Exits(plan, ds, fill)
<1>1. n \in Nat /\ Len(ds) = n + 1 /\ ds[n + 1] = c /\ \A i \in 1..n : ds[i] = cs[i]
  BY AppendIs
<1>2. /\ fill \in Fills(plan, cs) /\ fill \in 1..n /\ E \in SUBSET (fill..n)
      /\ \A i \in E : fill < i
  BY <1>1, FillIsFirst
<1>3. Min(Fills(plan, ds)) = fill
  <2>1. /\ Fills(plan, cs) \subseteq Fills(plan, ds)
        /\ Fills(plan, ds) \subseteq Fills(plan, cs) \cup {n + 1}
    BY OneMoreCandle
  <2>. HIDE DEF n, ds
  <2>2. Fills(plan, cs) \in SUBSET (1..n)
    BY DEF Fills, n
  <2>3. Fills(plan, ds) \in SUBSET Nat
    BY <1>1 DEF Fills
  <2>. QED  BY <1>1, <2>1, <2>2, <2>3, FirstStaysFirst
<1>4. t = Trade(event, size, fill, E, cs) /\ u = Trade(event, size, fill, D, ds)
  BY <1>3 DEF TradeOf
<1>5. E \subseteq D /\ D \subseteq E \cup {n + 1}
  BY <1>2, OneMoreCandle
<1>6. cs[fill].time >= plan.at
  BY <1>2 DEF Fills
<1>. HIDE DEF fill, E, D, n, ds
<1>7. t.reason = "END_OF_RUN" <=> E = {}
  <2>. DEFINE x == cs[Ending(E, cs)]
  <2>1. Trade(event, size, fill, E, cs).reason =
          IF E = {} THEN "END_OF_RUN"
          ELSE IF HitsStop(x, event.plan) THEN "STOP_LOSS"
          ELSE "TAKE_PROFIT"
    BY DEF Trade
  <2>. HIDE DEF x
  <2>. QED  BY <1>4, <2>1
<1>8. CASE E # {}
  <2>1. E \in SUBSET (1..n) /\ D \in SUBSET Nat
    BY <1>1, <1>2, <1>5
  <2>2. Min(D) = Min(E) /\ Min(E) \in 1..n
    BY <1>1, <1>5, <1>8, <2>1, FirstStaysFirst
  <2>3. D # {}
    BY <1>5, <1>8
  <2>4. Ending(D, ds) = Ending(E, cs) /\ ds[Ending(D, ds)] = cs[Ending(E, cs)]
    BY <1>1, <1>8, <2>2, <2>3 DEF Ending
  <2>5. ds[fill] = cs[fill]
    BY <1>1, <1>2
  <2>6. Trade(event, size, fill, D, ds) = Trade(event, size, fill, E, cs)
    BY <1>8, <2>3, <2>4, <2>5, Zenon DEF Trade
  <2>. QED  BY <1>2, <1>4, <1>6, <1>7, <1>8, <2>6 DEF n, ds, fill
<1>9. CASE E = {}
  <2>1. t.exits = End(cs[n])
    BY <1>4, <1>9 DEF Trade, Ending, n
  <2>2. Ending(D, ds) = n + 1
    <3>1. CASE D = {}
      BY <1>1, <3>1 DEF Ending
    <3>2. CASE D # {}
      <4>1. D = {n + 1}
        BY <1>5, <1>9, <3>2
      <4>2. Min({n + 1, n + 1}) = n + 1
        <5>1. n + 1 \in Int /\ n + 1 <= n + 1
          BY <1>1
        <5>. QED  BY <5>1, ExtremaOfTwo
      <4>3. {n + 1, n + 1} = {n + 1}
        OBVIOUS
      <4>. QED  BY <3>2, <4>1, <4>2, <4>3 DEF Ending
    <3>. QED  BY <3>1, <3>2
  <2>3. u.exits = End(c)
    BY <1>1, <1>4, <2>2 DEF Trade
  <2>. QED  BY <1>2, <1>6, <1>7, <1>9, <2>1, <2>3 DEF n, ds, fill
<1>. QED  BY <1>8, <1>9

\* The account of a shorter run is free when that of the longer one is, unless
\* it is free only because the shorter run ended.
Near(free, freed, now, then) == free = freed \/ (free = now /\ freed = then)

\* One event in a shorter and in a longer run: a settled trade stays what it is
\* as long as no waiting plan has been filled since.
LEMMA StepRevises ==
    ASSUME NEW cs \in Seq(Candle), NEW c \in Candle, Ordered(Append(cs, c)), cs # <<>>,
           NEW event \in ReplayStrategyEvent, event.at <= End(Last(cs)), NEW size,
           NEW r \in SimulationResult, NEW s \in SimulationResult,
           NEW p \in SimulationResult, NEW q \in SimulationResult,
           NEW t, TradeFrom(t, r, s, event, size, cs),
           NEW u, TradeFrom(u, p, q, event, size, Append(cs, c)),
           Near(r.openUntil, p.openUntil, End(Last(cs)), End(c)),
           ~(t.status = "EXPIRED_UNFILLED" /\ u.status = "FILLED_CLOSED")
    PROVE  /\ Near(s.openUntil, q.openUntil, End(Last(cs)), End(c))
           /\ Settled(t) => u = t
<1>. DEFINE n == Len(cs)
            ds == Append(cs, c)
            plan == event.plan
            now == End(Last(cs))
            then == End(c)
<1>1. /\ n \in Nat /\ n \in 1..n /\ Last(cs) = cs[n] /\ Len(ds) = n + 1 /\ ds[n + 1] = c
      /\ \A i \in 1..n : ds[i] = cs[i]
  BY AppendIs DEF Last
<1>2. /\ now = cs[n].time + 1 /\ then = c.time + 1
      /\ c.time \in Nat /\ \A i \in 1..n : cs[i].time \in Nat /\ cs[i].time <= cs[n].time
      /\ cs[n].time < c.time
  <2>1. \A i \in 1..n : cs[i] \in Candle /\ cs[i].time \in Nat
    BY CandleTypes
  <2>2. \A i \in 1..n : cs[i].time <= cs[n].time
    BY <1>1, <2>1 DEF Ordered
  <2>3. cs[n].time < c.time
    <3>1. n \in 1..n + 1 /\ n + 1 \in 1..n + 1 /\ n < n + 1
      BY <1>1
    <3>. QED  BY <1>1, <3>1 DEF Ordered
  <2>. QED  BY <1>1, <2>1, <2>2, <2>3, CandleTypes DEF End
<1>3. /\ r.openUntil \in Nat /\ p.openUntil \in Nat /\ event.at \in Nat
      /\ event.plan # Nothing => event.plan.at = event.at
  BY DEF SimulationResult, ReplayStrategyEvent
<1>. HIDE DEF n, ds, now, then
<1>4. Near(r.openUntil, p.openUntil, now, then) /\ TradeFrom(u, p, q, event, size, ds)
  BY DEF now, then, ds
<1>5. now \in Nat /\ then \in Nat /\ now < then
  BY <1>1, <1>2
<1>6. Near(s.openUntil, q.openUntil, now, then) /\ (Settled(t) => u = t)
  <2>1. CASE Fillable(r, event, size, cs)
    <3>1. /\ plan # Nothing /\ size # 0 /\ Fills(plan, cs) # {} /\ r.openUntil <= event.at
      BY <1>3, <2>1 DEF Fillable
    <3>. DEFINE fill == Min(Fills(plan, cs))
    <3>2. /\ fill \in 1..n /\ cs[fill].time >= plan.at
          /\ t.reason # "END_OF_RUN" => TradeOf(event, size, ds) = t
          /\ t.reason = "END_OF_RUN" => t.exits = End(cs[n]) /\ TradeOf(event, size, ds).exits = End(c)
      <4>1. t = TradeOf(event, size, cs)
        BY <2>1 DEF TradeFrom
      <4>. DEFINE x == TradeOf(event, size, cs)
                  y == TradeOf(event, size, Append(cs, c))
      <4>2. Fills(event.plan, cs) # {}
        BY <3>1
      <4>3. /\ fill \in 1..Len(cs) /\ cs[fill].time >= event.plan.at
            /\ x.reason # "END_OF_RUN" => y = x
            /\ x.reason = "END_OF_RUN" => x.exits = End(cs[Len(cs)]) /\ y.exits = End(c)
        BY <4>2, LongerTrade
      <4>. HIDE DEF fill, x, y
      <4>4. t = x /\ TradeOf(event, size, ds) = y
        BY <4>1 DEF x, y, ds
      <4>. QED  BY <4>3, <4>4 DEF n
    <3>. HIDE DEF fill
    <3>3. r.openUntil < now
      <4>1. cs[fill].time \in Nat /\ cs[fill].time <= cs[n].time /\ cs[n].time \in Nat
        BY <1>1, <1>2, <3>2
      <4>2. event.at <= cs[fill].time
        BY <1>3, <3>1, <3>2, <4>1
      <4>. QED  BY <1>2, <1>3, <3>1, <4>1, <4>2
    <3>4. p.openUntil = r.openUntil
      BY <1>3, <1>4, <1>5, <3>3 DEF Near
    <3>5. Fillable(p, event, size, ds)
      <4>1. Fills(plan, ds) # {}
        BY <3>1, OneMoreCandle DEF ds
      <4>. QED  BY <2>1, <3>4, <4>1 DEF Fillable
    <3>6. /\ u = TradeOf(event, size, ds) /\ q.openUntil = u.exits /\ s.openUntil = t.exits
      BY <1>4, <2>1, <3>5 DEF TradeFrom
    <3>7. CASE t.reason = "END_OF_RUN"
      <4>1. s.openUntil = now /\ q.openUntil = then
        BY <1>1, <3>2, <3>6, <3>7 DEF now, then
      <4>2. t.status = "FILLED_CLOSED"
        BY <2>1, StatusIs
      <4>. QED  BY <3>7, <4>1, <4>2 DEF Near, Settled
    <3>8. CASE t.reason # "END_OF_RUN"
      BY <3>2, <3>6, <3>8 DEF Near
    <3>. QED  BY <3>7, <3>8
  <2>2. CASE ~Fillable(r, event, size, cs)
    <3>1. /\ t = Unfilled(event, Refusal(r, event, size)) /\ s.openUntil = r.openUntil
          /\ t.status = Refusal(r, event, size)
      BY <2>2, StatusIs DEF TradeFrom
    <3>2. CASE plan = Nothing \/ size = 0 \/ event.at < r.openUntil
      <4>1. r.openUntil <= p.openUntil
        BY <1>3, <1>4, <1>5 DEF Near
      <4>2. event.at < r.openUntil => event.at < p.openUntil
        BY <1>3, <4>1
      <4>3. ~Fillable(p, event, size, ds) /\ Refusal(p, event, size) = Refusal(r, event, size)
        BY <3>2, <4>2 DEF Fillable, Refusal
      <4>4. u = Unfilled(event, Refusal(p, event, size)) /\ q.openUntil = p.openUntil
        BY <1>4, <4>3 DEF TradeFrom
      <4>. QED  BY <1>4, <3>1, <4>3, <4>4
    <3>3. CASE ~(plan = Nothing \/ size = 0 \/ event.at < r.openUntil)
      <4>1. t.status = "EXPIRED_UNFILLED"
        BY <3>1, <3>3 DEF Refusal
      <4>2. ~Fillable(p, event, size, ds)
        BY <1>4, <4>1, StatusIs
      <4>3. q.openUntil = p.openUntil
        BY <1>4, <4>2 DEF TradeFrom
      <4>. QED  BY <1>4, <3>1, <4>1, <4>3 DEF Settled
    <3>. QED  BY <3>2, <3>3
  <2>. QED  BY <2>1, <2>2
<1>. QED  BY <1>6 DEF now, then

\* A longer run keeps what a shorter one has settled, unless a plan that was
\* waiting has been filled since.
LEMMA LongerRun ==
    ASSUME NEW d, NEW cs \in Seq(Candle), NEW c \in Candle, Ordered(Append(cs, c)),
           NEW events \in Seq(ReplayStrategyEvent), NEW more \in Seq(ReplayStrategyEvent),
           Len(events) <= Len(more), \A n \in 1..Len(events) : more[n] = events[n],
           events # <<>> => cs # <<>>,
           \A n \in 1..Len(events) : events[n].at <= End(Last(cs))
    PROVE  RevisesOnlyPending(Simulate(d, events, cs).trades,
                              Simulate(d, more, Append(cs, c)).trades)
<1>. DEFINE ds == Append(cs, c)
            before == Simulate(d, events, cs).trades
            after == Simulate(d, more, ds).trades
            N == Len(events)
            size(n) == Approved(d, events[n].plan, events[n].at)
            now == End(Last(cs))
            then == End(c)
            Revived(j) == before[j].status = "EXPIRED_UNFILLED" /\ after[j].status = "FILLED_CLOSED"
<1>1. ds \in Seq(Candle) /\ N \in Nat
  BY AppendIs
<1>2. PICK run : Traded(run, d, events, cs)
  BY TradesAre
<1>3. PICK run2 : Traded(run2, d, more, ds)
  BY <1>1, TradesAre
<1>4. Len(before) = N /\ run[0] = NoTrades /\ run2[0] = NoTrades
  BY <1>2, <1>3 DEF Traded
<1>5. ASSUME NEW n \in 1..N
      PROVE  /\ run[n - 1] \in SimulationResult /\ run[n] \in SimulationResult
             /\ run2[n - 1] \in SimulationResult /\ run2[n] \in SimulationResult
             /\ events[n] \in ReplayStrategyEvent /\ cs # <<>> /\ events[n].at <= now
             /\ TradeFrom(before[n], run[n - 1], run[n], events[n], size(n), cs)
             /\ TradeFrom(after[n], run2[n - 1], run2[n], events[n], size(n), ds)
  <2>1. n \in 1..Len(more) /\ n \in 1..Len(events) /\ more[n] = events[n]
    BY <1>1
  <2>2. /\ run[n - 1] \in SimulationResult /\ run[n] \in SimulationResult
        /\ events[n] \in ReplayStrategyEvent
        /\ TradeFrom(before[n], run[n - 1], run[n], events[n], size(n), cs)
    BY <1>2, <2>1 DEF Traded
  <2>3. /\ run2[n - 1] \in SimulationResult /\ run2[n] \in SimulationResult
        /\ TradeFrom(after[n], run2[n - 1], run2[n], more[n],
                     Approved(d, more[n].plan, more[n].at), ds)
    BY <1>3, <2>1 DEF Traded
  <2>4. cs # <<>> /\ events[n].at <= now
    BY <2>1
  <2>. QED  BY <2>1, <2>2, <2>3, <2>4
<1>6. ASSUME NEW n \in 1..N, ~Revived(n),
             Near(run[n - 1].openUntil, run2[n - 1].openUntil, now, then)
      PROVE  /\ Near(run[n].openUntil, run2[n].openUntil, now, then)
             /\ Settled(before[n]) => after[n] = before[n]
  <2>. DEFINE e == events[n]
              v == size(n)
              t == before[n]
              u == after[n]
              r == run[n - 1]
              s == run[n]
              p == run2[n - 1]
              q == run2[n]
  <2>1. /\ r \in SimulationResult /\ s \in SimulationResult
        /\ p \in SimulationResult /\ q \in SimulationResult
        /\ e \in ReplayStrategyEvent /\ cs # <<>> /\ e.at <= End(Last(cs))
        /\ TradeFrom(t, r, s, e, v, cs) /\ TradeFrom(u, p, q, e, v, Append(cs, c))
    BY <1>5
  <2>2. /\ ~(t.status = "EXPIRED_UNFILLED" /\ u.status = "FILLED_CLOSED")
        /\ Near(r.openUntil, p.openUntil, End(Last(cs)), End(c))
    BY <1>6
  <2>. HIDE DEF e, v, t, u, r, s, p, q
  <2>3. Near(s.openUntil, q.openUntil, End(Last(cs)), End(c)) /\ (Settled(t) => u = t)
    BY <2>1, <2>2, StepRevises
  <2>. QED  BY <2>3 DEF t, u, s, q
<1>. HIDE DEF before, after, ds, N, size, now, then
<1>7. \A n \in Nat : n <= N /\ (\A j \in 1..n : ~Revived(j)) =>
                       Near(run[n].openUntil, run2[n].openUntil, now, then)
  <2>. DEFINE Same(n) == n <= N /\ (\A j \in 1..n : ~Revived(j)) =>
                           Near(run[n].openUntil, run2[n].openUntil, now, then)
              M == {n \in Nat : Same(n)}
  <2>1. 0 \in M
    BY <1>4 DEF Near
  <2>2. ASSUME NEW n \in Nat, n \in M
        PROVE  n + 1 \in M
    <3>. SUFFICES ASSUME n + 1 <= N, \A j \in 1..n + 1 : ~Revived(j)
                  PROVE  Near(run[n + 1].openUntil, run2[n + 1].openUntil, now, then)
      OBVIOUS
    <3>. DEFINE m == n + 1
    <3>1. n <= N /\ m \in 1..N /\ m - 1 = n /\ m \in 1..n + 1
      BY <1>1
    <3>2. \A j \in 1..n : ~Revived(j)
      BY <2>2
    <3>3. Near(run[n].openUntil, run2[n].openUntil, now, then)
      BY <2>2, <3>1, <3>2
    <3>4. ~Revived(m)
      BY <3>1
    <3>. HIDE DEF m, Revived
    <3>5. Near(run[m].openUntil, run2[m].openUntil, now, then)
      BY <1>6, <3>1, <3>3, <3>4
    <3>. QED  BY <3>5 DEF m
  <2>. HIDE DEF M
  <2>3. Nat \subseteq M
    BY <2>1, <2>2, SetInduction
  <2>. QED  BY <2>3 DEF M
<1>8. ASSUME NEW i \in 1..N, Settled(before[i]), \A j \in 1..i - 1 : ~Revived(j)
      PROVE  after[i] = before[i]
  <2>1. i - 1 \in Nat /\ i - 1 <= N
    BY <1>1
  <2>2. Near(run[i - 1].openUntil, run2[i - 1].openUntil, now, then)
    BY <1>7, <1>8, <2>1
  <2>3. ~Revived(i)
    BY <1>8 DEF Settled
  <2>. HIDE DEF Revived
  <2>. QED  BY <1>6, <1>8, <2>2, <2>3
<1>9. RevisesOnlyPending(before, after)
  BY <1>4, <1>8 DEF RevisesOnlyPending
<1>. QED  BY <1>9 DEF before, after, ds

\* A tick revises only what waited.
LEMMA TickRevises ==
    ClockInv /\ [Next]_vars =>
      [RevisesOnlyPending(Simulate(data, journal, candles).trades,
                          Simulate(data, journal', candles').trades)]_vars
<1>. SUFFICES ASSUME ClockInv, Next
              PROVE  RevisesOnlyPending(Simulate(data, journal, candles).trades,
                                        Simulate(data, journal', candles').trades)
  OBVIOUS
<1>1. PICK c \in Candle : Tick(c)
  BY NextTicks
<1>2. ClockInv'
  BY ClockStep
<1>3. /\ candles \in Seq(Candle) /\ journal \in Seq(ReplayStrategyEvent)
      /\ journal' \in Seq(ReplayStrategyEvent)
  BY <1>2, NowIs DEF ClockInv
<1>4. candles' = Append(candles, c) /\ Ordered(candles')
  BY <1>1, <1>2 DEF Tick, ClockInv
<1>5. Len(journal) <= Len(journal') /\ \A n \in 1..Len(journal) : journal'[n] = journal[n]
  <2>. DEFINE e == [at |-> Now', plan |-> Decision(data, engine', Now')]
  <2>1. journal' = journal \/ journal' = Append(journal, e)
    BY <1>1 DEF Tick
  <2>. HIDE DEF e
  <2>2. CASE journal' = journal
    BY <1>3, <2>2
  <2>3. CASE journal' = Append(journal, e)
    BY <1>3, <2>3
  <2>. QED  BY <2>1, <2>2, <2>3
<1>6. journal # <<>> => candles # <<>>
  BY DEF ClockInv
<1>7. \A n \in 1..Len(journal) : journal[n].at <= End(Last(candles))
  <2>1. \A n \in 1..Len(journal) : journal[n].at <= Now
    BY DEF ClockInv, Clocked
  <2>2. journal # <<>> => Now = End(Last(candles))
    BY <1>6, NowIs DEF ClockInv
  <2>3. \A n \in 1..Len(journal) : journal # <<>>
    BY <1>3
  <2>. QED  BY <2>1, <2>2, <2>3
<1>. DEFINE cs == candles
            events == journal
            more == journal'
<1>8. /\ cs \in Seq(Candle) /\ Ordered(Append(cs, c))
      /\ events \in Seq(ReplayStrategyEvent) /\ more \in Seq(ReplayStrategyEvent)
      /\ Len(events) <= Len(more) /\ \A n \in 1..Len(events) : more[n] = events[n]
      /\ events # <<>> => cs # <<>>
      /\ \A n \in 1..Len(events) : events[n].at <= End(Last(cs))
  BY <1>3, <1>4, <1>5, <1>6, <1>7
<1>. HIDE DEF cs, events, more
<1>9. RevisesOnlyPending(Simulate(data, events, cs).trades,
                         Simulate(data, more, Append(cs, c)).trades)
  BY <1>8, LongerRun
<1>. QED  BY <1>4, <1>9 DEF cs, events, more

\* Of the trades a shorter run has settled, a longer one revises none before a
\* plan that was still waiting for its price has been filled.
THEOREM OnlyPendingRevised == Spec => OnlyPendingPlansRevise
<1>. QED  BY ClockRuns, TickRevises, PTL DEF Spec, OnlyPendingPlansRevise

-----------------------------------------------------------------------------
(* The books *)

\* Where the elements of s that are in S have gone in u: after n elements of s,
\* pos[n] of u have been written.
Positions(pos, s, S, u) ==
  /\ pos[0] = 0 /\ pos[Len(s)] = Len(u)
  /\ \A n \in 0..Len(s) : pos[n] \in 0..Len(u)
  /\ \A n \in 1..Len(s) :
       /\ s[n] \in S => pos[n] = pos[n - 1] + 1 /\ u[pos[n]] = s[n]
       /\ s[n] \notin S => pos[n] = pos[n - 1]

\* Only keeps elements in their order.
LEMMA OnlyPositions ==
    ASSUME NEW T, NEW s \in Seq(T), NEW S
    PROVE  \E pos : Positions(pos, s, S, Only(s, S))
<1>1. PICK kept : /\ kept[0] = <<>> /\ Only(s, S) = kept[Len(s)]
                  /\ \A n \in 0..Len(s) : kept[n] \in Seq(T)
                  /\ \A n \in 1..Len(s) :
                       kept[n] = IF s[n] \in S THEN Append(kept[n - 1], s[n]) ELSE kept[n - 1]
  BY OnlyUnfolds
<1>. DEFINE N == Len(s)
            Keeps(k, l) == Len(k) <= Len(l) /\ \A i \in 1..Len(k) : l[i] = k[i]
            Good(m) == \A n \in 0..m : Keeps(kept[n], kept[m])
            M == {m \in Nat : m <= N => Good(m)}
            pos == [n \in 0..N |-> Len(kept[n])]
            u == kept[N]
<1>2. N \in Nat /\ \A n \in 0..N : Len(kept[n]) \in Nat
  BY <1>1
<1>3. ASSUME NEW n \in Nat, n + 1 <= N
      PROVE  /\ Keeps(kept[n], kept[n + 1])
             /\ s[n + 1] \in S => /\ Len(kept[n + 1]) = Len(kept[n]) + 1
                                  /\ kept[n + 1][Len(kept[n + 1])] = s[n + 1]
             /\ s[n + 1] \notin S => Len(kept[n + 1]) = Len(kept[n])
  <2>1. n \in 0..N /\ n + 1 \in 1..N /\ (n + 1) - 1 = n /\ s[n + 1] \in T
    BY <1>2, <1>3, ToSetOf
  <2>2. kept[n + 1] = IF s[n + 1] \in S THEN Append(kept[n], s[n + 1]) ELSE kept[n]
    BY <1>1, <2>1
  <2>3. kept[n] \in Seq(T)
    BY <1>1, <2>1
  <2>4. CASE s[n + 1] \in S
    BY <2>1, <2>2, <2>3, <2>4, AppendIs
  <2>5. CASE s[n + 1] \notin S
    BY <2>2, <2>3, <2>5
  <2>. QED  BY <2>4, <2>5
<1>4. 0 \in M
  BY <1>1
<1>5. ASSUME NEW m \in Nat, m \in M
      PROVE  m + 1 \in M
  <2>. SUFFICES ASSUME m + 1 <= N, NEW n \in 0..m + 1
                PROVE  Keeps(kept[n], kept[m + 1])
    OBVIOUS
  <2>1. Good(m) /\ Keeps(kept[m], kept[m + 1])
    <3>. HIDE DEF Keeps
    <3>1. Good(m)
      BY <1>2, <1>5
    <3>2. Keeps(kept[m], kept[m + 1])
      BY <1>3
    <3>. QED  BY <3>1, <3>2
  <2>2. CASE n = m + 1
    BY <1>2, <2>2
  <2>3. CASE n # m + 1
    <3>1. Keeps(kept[n], kept[m])
      <4>1. n \in 0..m
        BY <2>3
      <4>. HIDE DEF Keeps
      <4>. QED  BY <2>1, <4>1
    <3>2. Len(kept[n]) \in Nat /\ Len(kept[m]) \in Nat /\ Len(kept[m + 1]) \in Nat
      BY <1>2
    <3>. QED  BY <2>1, <3>1, <3>2
  <2>. QED  BY <2>2, <2>3
<1>6. Good(N)
  <2>1. Nat \subseteq M
    <3>. HIDE DEF M
    <3>. QED  BY <1>4, <1>5, SetInduction
  <2>. QED  BY <1>2, <2>1
<1>7. pos[0] = 0 /\ pos[N] = Len(u) /\ \A n \in 0..N : pos[n] \in 0..Len(u)
  BY <1>1, <1>2, <1>6
<1>8. ASSUME NEW n \in 1..N
      PROVE  /\ s[n] \in S => pos[n] = pos[n - 1] + 1 /\ u[pos[n]] = s[n]
             /\ s[n] \notin S => pos[n] = pos[n - 1]
  <2>. DEFINE m == n - 1
  <2>1. m \in Nat /\ m + 1 = n /\ m + 1 <= N /\ n \in 0..N /\ m \in 0..N
    BY <1>2
  <2>. HIDE DEF m
  <2>2. /\ s[n] \in S => Len(kept[n]) = Len(kept[m]) + 1 /\ kept[n][Len(kept[n])] = s[n]
        /\ s[n] \notin S => Len(kept[n]) = Len(kept[m])
    BY <1>3, <2>1
  <2>3. pos[n] = Len(kept[n]) /\ pos[m] = Len(kept[m]) /\ Keeps(kept[n], u)
    BY <1>6, <2>1
  <2>4. s[n] \in S => Len(kept[n]) \in 1..Len(kept[n])
    BY <1>2, <2>1, <2>2
  <2>. HIDE DEF pos, u
  <2>5. s[n] \in S => u[pos[n]] = s[n]
    BY <2>2, <2>3, <2>4
  <2>. QED  BY <2>2, <2>3, <2>5 DEF m
<1>. HIDE DEF pos, N
<1>9. Positions(pos, s, S, Only(s, S))
  BY <1>1, <1>7, <1>8 DEF Positions, N
<1>. QED  BY <1>9

\* The sums of what the first trades have made.
Sums(sum, s) ==
  /\ sum[0] = 0
  /\ \A n \in 0..Len(s) : sum[n] \in Int
  /\ \A n \in 1..Len(s) : sum[n] = sum[n - 1] + s[n].net

\* Net is the last of the running sums.
LEMMA NetSums ==
    ASSUME NEW s, Len(s) \in Nat, \A i \in 1..Len(s) : s[i].net \in Int
    PROVE  \E sum : Sums(sum, s) /\ Net(s) = sum[Len(s)]
<1>. DEFINE N == Len(s)
            Step(n, x) == x + s[n].net
            Rule(g, n) == IF n = 0 THEN 0 ELSE Step(n, g[n - 1])
            F == [i \in 1..N |-> [x \in Int |-> Step(i, x)]]
            Upto(g) == g = [n \in 0..N |-> Rule(g, n)]
            sum == CHOOSE g : Upto(g)
<1>1. F \in Rules(Int, N) /\ 0 \in Int /\ N \in Nat
  <2>1. \A i \in 1..N : \A x \in Int : Step(i, x) \in Int
    OBVIOUS
  <2>. HIDE DEF Step
  <2>. QED  BY <2>1 DEF Rules
<1>2. \A i \in 1..N, x \in Int : F[i][x] = Step(i, x)
  OBVIOUS
<1>. HIDE DEF F
<1>3. PICK g \in [0..N -> Int] : Follows(g, Int, 0, N, F)
  BY <1>1, Recursion
<1>4. \A n \in 0..N : g[n] = Rule(g, n)
  <2>1. \A i \in 1..N : i - 1 \in 0..N
    BY <1>1
  <2>. HIDE DEF Step, N
  <2>. QED  BY <1>1, <1>2, <1>3, <2>1 DEF Follows
<1>5. Upto(g)
  <2>. HIDE DEF Rule
  <2>. QED  BY <1>4
<1>6. Upto(sum)
  <2>. HIDE DEF Upto
  <2>. QED  BY <1>5
<1>7. Net(s) = sum[N]
  BY DEF Net
<1>. HIDE DEF sum
<1>8. \A n \in 0..N : sum[n] = Rule(sum, n)
  <2>. HIDE DEF Rule
  <2>. QED  BY <1>6
<1>9. sum[0] = 0 /\ \A i \in 1..N : sum[i] = Step(i, sum[i - 1])
  <2>. HIDE DEF Step, N
  <2>. QED  BY <1>1, <1>8
<1>10. Follows(sum, Int, 0, N, F)
  <2>. HIDE DEF Step
  <2>. QED  BY <1>2, <1>9 DEF Follows
<1>11. \A n \in 0..N : sum[n] \in Int
  BY <1>1, <1>10, RecursionKeeps
<1>12. Sums(sum, s)
  BY <1>9, <1>11 DEF Sums
<1>. QED  BY <1>7, <1>12

\* The sums of two sequences are the same as long as the sequences are.
LEMMA SumsAgree ==
    ASSUME NEW s, NEW u, NEW m \in Nat, Len(s) \in Nat, Len(u) \in Nat, m <= Len(s), m <= Len(u),
           \A i \in 1..m : s[i] = u[i],
           NEW a, Sums(a, s), NEW b, Sums(b, u)
    PROVE  a[m] = b[m]
<1>. DEFINE M == {n \in Nat : n <= m => a[n] = b[n]}
<1>1. 0 \in M
  BY DEF Sums
<1>2. ASSUME NEW n \in Nat, n \in M
      PROVE  n + 1 \in M
  <2>. SUFFICES ASSUME n + 1 <= m
                PROVE  a[n + 1] = b[n + 1]
    OBVIOUS
  <2>1. n + 1 \in 1..Len(s) /\ n + 1 \in 1..Len(u) /\ (n + 1) - 1 = n /\ a[n] = b[n]
        /\ s[n + 1] = u[n + 1]
    BY <1>2
  <2>2. a[n + 1] = a[n] + s[n + 1].net /\ b[n + 1] = b[n] + u[n + 1].net
    BY <2>1 DEF Sums
  <2>. QED  BY <2>1, <2>2
<1>. HIDE DEF M
<1>3. Nat \subseteq M
  BY <1>1, <1>2, SetInduction
<1>. QED  BY <1>3 DEF M

\* What the first n trades have made.
LEMMA NetOfPrefix ==
    ASSUME NEW T, NEW s \in Seq(T), \A i \in 1..Len(s) : s[i].net \in Int,
           NEW sum, Sums(sum, s), NEW n \in 0..Len(s)
    PROVE  Net(SubSeq(s, 1, n)) = sum[n]
<1>. DEFINE u == SubSeq(s, 1, n)
<1>1. Len(s) \in Nat /\ n \in Nat /\ n <= Len(s) /\ Len(u) = n /\ \A i \in 1..n : u[i] = s[i]
  OBVIOUS
<1>. HIDE DEF u
<1>2. \A i \in 1..Len(u) : u[i].net \in Int
  BY <1>1
<1>3. PICK b : Sums(b, u) /\ Net(u) = b[Len(u)]
  BY <1>1, <1>2, NetSums
<1>4. sum[n] = b[n]
  <2>1. n <= Len(u) /\ Len(u) \in Nat /\ \A i \in 1..n : s[i] = u[i]
    BY <1>1
  <2>2. /\ n \in Nat /\ Len(s) \in Nat /\ n <= Len(s)
        /\ Sums(sum, s) /\ Sums(b, u)
    BY <1>1, <1>3
  <2>. HIDE DEF Sums
  <2>. QED  BY <2>1, <2>2, SumsAgree, SMTT(30)
<1>. QED  BY <1>1, <1>3, <1>4 DEF u

\* The greatest of a set of integers is the one no other is above.
LEMMA MaxIs ==
    ASSUME NEW S \in SUBSET Int, NEW m \in S, \A y \in S : y <= m
    PROVE  Max(S) = m
<1>. DEFINE x == Max(S)
<1>1. \A y \in S : m >= y
  OBVIOUS
<1>2. x \in S /\ \A y \in S : x >= y
  BY <1>1 DEF Max
<1>. HIDE DEF x
<1>3. x \in Int /\ m \in Int /\ x >= m /\ x <= m
  BY <1>2
<1>4. x = m
  BY <1>3
<1>. QED  BY <1>4 DEF x

\* A sequence of closed trades, each of which is a win, a loss or neither.
Nets(s) == Len(s) \in Nat /\ \A i \in 1..Len(s) : s[i].net \in Int
OfSign(s, t) == /\ t.wins = Only(s, {x \in ToSet(s) : x.net > 0})
                /\ t.losses = Only(s, {x \in ToSet(s) : x.net < 0})
                /\ t.even = Only(s, {x \in ToSet(s) : x.net = 0})

\* Wins, losses and the rest are all the trades, and what they make is what the
\* trades make.
LEMMA PartsAddUp ==
    ASSUME NEW s \in Seq(SimulatedTrade), Nets(s), NEW t, OfSign(s, t)
    PROVE  /\ Net(s) = Net(t.wins) + Net(t.losses)
           /\ Len(s) = Len(t.wins) + Len(t.losses) + Len(t.even)
           /\ Net(s) \in Int /\ Net(t.wins) \in Int /\ Net(t.losses) \in Int
<1>. DEFINE N == Len(s)
            W == {x \in ToSet(s) : x.net > 0}
            L == {x \in ToSet(s) : x.net < 0}
            E == {x \in ToSet(s) : x.net = 0}
            w == t.wins
            l == t.losses
            e == t.even
<1>0. w = Only(s, W) /\ l = Only(s, L) /\ e = Only(s, E)
  BY DEF OfSign
<1>. HIDE DEF W, L, E, w, l, e
<1>1. N \in Nat /\ \A i \in 1..N : s[i].net \in Int /\ s[i] \in ToSet(s)
  BY ToSetOf DEF Nets
<1>2. \A i \in 1..N : /\ s[i] \in W <=> s[i].net > 0
                      /\ s[i] \in L <=> s[i].net < 0
                      /\ s[i] \in E <=> s[i].net = 0
  BY <1>1 DEF W, L, E
<1>3. /\ w \in Seq(SimulatedTrade) /\ ToSet(w) = ToSet(s) \cap W
      /\ l \in Seq(SimulatedTrade) /\ ToSet(l) = ToSet(s) \cap L
      /\ e \in Seq(SimulatedTrade)
  BY <1>0, OnlyKeeps
<1>4. \A x \in ToSet(s) : x.net \in Int
  BY <1>1, ToSetOf
<1>5. /\ Len(w) \in Nat /\ \A i \in 1..Len(w) : w[i].net \in Int
      /\ Len(l) \in Nat /\ \A i \in 1..Len(l) : l[i].net \in Int
      /\ Len(e) \in Nat
  <2>1. Len(w) \in Nat /\ \A i \in 1..Len(w) : w[i] \in ToSet(w)
    BY <1>3, ToSetOf
  <2>2. Len(l) \in Nat /\ \A i \in 1..Len(l) : l[i] \in ToSet(l)
    BY <1>3, ToSetOf
  <2>. QED  BY <1>3, <1>4, <2>1, <2>2
<1>6. PICK pw : Positions(pw, s, W, w)
  BY <1>0, OnlyPositions
<1>7. PICK pl : Positions(pl, s, L, l)
  BY <1>0, OnlyPositions
<1>8. PICK pe : Positions(pe, s, E, e)
  BY <1>0, OnlyPositions
<1>9. PICK sum : Sums(sum, s) /\ Net(s) = sum[N]
  BY <1>1, NetSums
<1>10. PICK sw : Sums(sw, w) /\ Net(w) = sw[Len(w)]
  BY <1>5, NetSums
<1>11. PICK sl : Sums(sl, l) /\ Net(l) = sl[Len(l)]
  BY <1>5, NetSums
<1>. DEFINE Good(n) == /\ sum[n] = sw[pw[n]] + sl[pl[n]]
                       /\ n = pw[n] + pl[n] + pe[n]
            M == {n \in Nat : n <= N => Good(n)}
<1>12. 0 \in M
  BY <1>6, <1>7, <1>8, <1>9, <1>10, <1>11 DEF Positions, Sums
<1>13. ASSUME NEW n \in Nat, n \in M
       PROVE  n + 1 \in M
  <2>. SUFFICES ASSUME n + 1 <= N
                PROVE  Good(n + 1)
    OBVIOUS
  <2>1. Good(n) /\ n \in 0..N /\ n + 1 \in 1..N /\ n + 1 \in 0..N /\ (n + 1) - 1 = n
    BY <1>1, <1>13
  <2>. DEFINE m == n + 1
              x == s[n + 1]
  <2>2. sum[m] = sum[n] + x.net /\ x.net \in Int
    BY <1>1, <1>9, <2>1 DEF Sums
  <2>3. /\ pw[n] \in 0..Len(w) /\ pw[m] \in 0..Len(w)
        /\ x \in W => pw[m] = pw[n] + 1 /\ w[pw[m]] = x
        /\ x \notin W => pw[m] = pw[n]
    BY <1>6, <2>1 DEF Positions
  <2>4. /\ pl[n] \in 0..Len(l) /\ pl[m] \in 0..Len(l)
        /\ x \in L => pl[m] = pl[n] + 1 /\ l[pl[m]] = x
        /\ x \notin L => pl[m] = pl[n]
    BY <1>7, <2>1 DEF Positions
  <2>5. /\ pe[n] \in 0..Len(e) /\ pe[m] \in 0..Len(e)
        /\ x \in E => pe[m] = pe[n] + 1
        /\ x \notin E => pe[m] = pe[n]
    BY <1>8, <2>1 DEF Positions
  <2>6. (x \in W <=> x.net > 0) /\ (x \in L <=> x.net < 0) /\ (x \in E <=> x.net = 0)
    BY <1>2, <2>1
  <2>. HIDE DEF m, x
  <2>7. x \in W => sw[pw[m]] = sw[pw[n]] + x.net
    <3>. SUFFICES ASSUME x \in W
                  PROVE  sw[pw[m]] = sw[pw[n]] + x.net
      OBVIOUS
    <3>1. pw[m] \in 1..Len(w) /\ pw[m] - 1 = pw[n] /\ w[pw[m]] = x
      BY <1>5, <2>3
    <3>. QED  BY <1>10, <3>1 DEF Sums
  <2>8. x \in L => sl[pl[m]] = sl[pl[n]] + x.net
    <3>. SUFFICES ASSUME x \in L
                  PROVE  sl[pl[m]] = sl[pl[n]] + x.net
      OBVIOUS
    <3>1. pl[m] \in 1..Len(l) /\ pl[m] - 1 = pl[n] /\ l[pl[m]] = x
      BY <1>5, <2>4
    <3>. QED  BY <1>11, <3>1 DEF Sums
  <2>9. sw[pw[n]] \in Int /\ sl[pl[n]] \in Int
    BY <1>10, <1>11, <2>3, <2>4 DEF Sums
  <2>10. /\ pw[n] \in Nat /\ pl[n] \in Nat /\ pe[n] \in Nat /\ m = n + 1 /\ n \in Nat
         /\ n = pw[n] + pl[n] + pe[n] /\ sum[n] = sw[pw[n]] + sl[pl[n]]
         /\ sum[m] = sum[n] + x.net /\ x.net \in Int
         /\ sw[pw[n]] \in Int /\ sl[pl[n]] \in Int
    BY <1>5, <2>1, <2>2, <2>3, <2>4, <2>5, <2>9 DEF m
  <2>11. /\ pw[n] \in Nat /\ pl[n] \in Nat /\ pe[n] \in Nat
         /\ m = (pw[n] + 1) + pl[n] + pe[n] /\ m = pw[n] + (pl[n] + 1) + pe[n]
         /\ m = pw[n] + pl[n] + (pe[n] + 1)
    <3>. DEFINE a == pw[n]
                b == pl[n]
                c == pe[n]
    <3>1. a \in Nat /\ b \in Nat /\ c \in Nat /\ m = n + 1 /\ n = a + b + c
      BY <2>10
    <3>. HIDE DEF a, b, c
    <3>2. m = (a + 1) + b + c /\ m = a + (b + 1) + c /\ m = a + b + (c + 1)
      BY <3>1
    <3>. QED  BY <3>1, <3>2 DEF a, b, c
  <2>. SUFFICES sum[m] = sw[pw[m]] + sl[pl[m]] /\ m = pw[m] + pl[m] + pe[m]
    BY DEF m
  <2>12. CASE x.net > 0
    <3>1. x \in W /\ x \notin L /\ x \notin E
      BY <2>2, <2>6, <2>12
    <3>2. pw[m] = pw[n] + 1 /\ pl[m] = pl[n] /\ pe[m] = pe[n]
      BY <2>3, <2>4, <2>5, <3>1
    <3>3. sw[pw[m]] = sw[pw[n]] + x.net /\ sl[pl[m]] = sl[pl[n]]
      BY <2>7, <3>1, <3>2
    <3>4. sum[m] = sw[pw[m]] + sl[pl[m]]
      BY <2>10, <2>12, <3>3
    <3>5. m = pw[m] + pl[m] + pe[m]
      BY <2>11, <3>2
    <3>. QED  BY <3>4, <3>5
  <2>13. CASE x.net < 0
    <3>1. x \in L /\ x \notin W /\ x \notin E
      BY <2>2, <2>6, <2>13
    <3>2. pl[m] = pl[n] + 1 /\ pw[m] = pw[n] /\ pe[m] = pe[n]
      BY <2>3, <2>4, <2>5, <3>1
    <3>3. sw[pw[m]] = sw[pw[n]] /\ sl[pl[m]] = sl[pl[n]] + x.net
      BY <2>8, <3>1, <3>2
    <3>4. sum[m] = sw[pw[m]] + sl[pl[m]]
      BY <2>10, <2>13, <3>3
    <3>5. m = pw[m] + pl[m] + pe[m]
      BY <2>11, <3>2
    <3>. QED  BY <3>4, <3>5
  <2>14. CASE x.net = 0
    <3>1. x \in E /\ x \notin W /\ x \notin L
      BY <2>2, <2>6, <2>14
    <3>2. pe[m] = pe[n] + 1 /\ pw[m] = pw[n] /\ pl[m] = pl[n]
      BY <2>3, <2>4, <2>5, <3>1
    <3>3. sw[pw[m]] = sw[pw[n]] /\ sl[pl[m]] = sl[pl[n]]
      BY <3>2
    <3>4. sum[m] = sw[pw[m]] + sl[pl[m]]
      BY <2>10, <2>14, <3>3
    <3>5. m = pw[m] + pl[m] + pe[m]
      BY <2>11, <3>2
    <3>. QED  BY <3>4, <3>5
  <2>. QED  BY <2>2, <2>12, <2>13, <2>14
<1>14. Good(N)
  <2>. HIDE DEF M
  <2>1. Nat \subseteq M
    BY <1>12, <1>13, SetInduction
  <2>. QED  BY <1>1, <2>1 DEF M
<1>15. pw[N] = Len(w) /\ pl[N] = Len(l) /\ pe[N] = Len(e)
  BY <1>6, <1>7, <1>8 DEF Positions
<1>16. sum[N] \in Int /\ sw[Len(w)] \in Int /\ sl[Len(l)] \in Int
  BY <1>1, <1>5, <1>9, <1>10, <1>11 DEF Sums
<1>. QED  BY <1>9, <1>10, <1>11, <1>14, <1>15, <1>16 DEF w, l, e

\* The recursive function that Streak is defined by.
Counter == [now : Nat, best : Nat]
Counted(count, s) ==
  /\ count[0] = [now |-> 0, best |-> 0]
  /\ \A n \in 0..Len(s) : count[n] \in Counter
  /\ \A n \in 1..Len(s) :
       /\ count[n].now = IF s[n].net > 0 THEN count[n - 1].now + 1 ELSE 0
       /\ count[n].best = Max({count[n - 1].best, count[n].now})

\* Streak is the best of a running count that starts again at every other trade.
LEMMA StreakCounts ==
    ASSUME NEW s, Nets(s)
    PROVE  \E count : Counted(count, s) /\ Streak(s, 1) = count[Len(s)].best
<1>. DEFINE N == Len(s)
            V == Counter
            Zero == [now |-> 0, best |-> 0]
            Now1(n, v) == IF s[n].net * 1 > 0 THEN v.now + 1 ELSE 0
            Step(n, v) == [now |-> Now1(n, v), best |-> Max({v.best, Now1(n, v)})]
            Rule(g, n) == IF n = 0 THEN Zero ELSE Step(n, g[n - 1])
            F == [i \in 1..N |-> [v \in V |-> Step(i, v)]]
            Upto(g) == g = [n \in 0..N |-> Rule(g, n)]
            count == CHOOSE g : Upto(g)
<1>0. N \in Nat /\ \A i \in 1..N : s[i].net \in Int
  BY DEF Nets
<1>1. \A i \in 1..N : \A v \in V : Step(i, v) \in V
  <2>. SUFFICES ASSUME NEW i \in 1..N, NEW v \in V
                PROVE  Step(i, v) \in V
    OBVIOUS
  <2>. DEFINE now == Now1(i, v)
  <2>1. now \in Nat /\ v.best \in Nat
    BY DEF Counter
  <2>. HIDE DEF now
  <2>2. Max({v.best, now}) = IF v.best >= now THEN v.best ELSE now
    BY <2>1, ExtremaOfTwo
  <2>3. Max({v.best, now}) \in Nat
    BY <2>1, <2>2
  <2>. QED  BY <2>1, <2>3 DEF now, Counter
<1>2. Zero \in V
  BY DEF Counter
<1>. HIDE DEF V
<1>3. F \in Rules(V, N)
  <2>. HIDE DEF Step
  <2>. QED  BY <1>1 DEF Rules
<1>4. \A i \in 1..N, v \in V : F[i][v] = Step(i, v)
  <2>. HIDE DEF Step
  <2>. QED  OBVIOUS
<1>. HIDE DEF F
<1>5. PICK g \in [0..N -> V] : Follows(g, V, Zero, N, F)
  <2>. HIDE DEF Zero, N
  <2>. QED  BY <1>0, <1>2, <1>3, Recursion
<1>6. \A n \in 0..N : g[n] = Rule(g, n)
  <2>1. \A i \in 1..N : i - 1 \in 0..N
    BY <1>0
  <2>. HIDE DEF Step, N, Zero
  <2>. QED  BY <1>0, <1>4, <1>5, <2>1 DEF Follows
<1>7. Upto(g)
  <2>. HIDE DEF Rule
  <2>. QED  BY <1>6
<1>8. Upto(count)
  <2>. HIDE DEF Upto
  <2>. QED  BY <1>7
<1>9. Streak(s, 1) = count[N].best
  BY DEF Streak
<1>. HIDE DEF count
<1>10. \A n \in 0..N : count[n] = Rule(count, n)
  <2>. HIDE DEF Rule
  <2>. QED  BY <1>8
<1>11. count[0] = Zero /\ \A i \in 1..N : count[i] = Step(i, count[i - 1])
  <2>. HIDE DEF Step, N, Zero
  <2>. QED  BY <1>0, <1>10
<1>12. Follows(count, V, Zero, N, F)
  <2>. HIDE DEF Step, Zero
  <2>. QED  BY <1>4, <1>11 DEF Follows
<1>13. \A n \in 0..N : count[n] \in V
  <2>. HIDE DEF Zero, N
  <2>. QED  BY <1>0, <1>2, <1>3, <1>12, RecursionKeeps
<1>14. ASSUME NEW n \in 1..N
       PROVE  /\ count[n].now = IF s[n].net > 0 THEN count[n - 1].now + 1 ELSE 0
              /\ count[n].best = Max({count[n - 1].best, count[n].now})
  <2>1. count[n] = Step(n, count[n - 1])
    BY <1>11
  <2>2. s[n].net * 1 = s[n].net
    BY <1>0
  <2>. QED  BY <2>1, <2>2
<1>15. Counted(count, s)
  <2>. HIDE DEF N
  <2>1. count[0] = [now |-> 0, best |-> 0] /\ \A n \in 0..N : count[n] \in Counter
    BY <1>11, <1>13 DEF V
  <2>. QED  BY <1>14, <2>1 DEF Counted, N
<1>. QED  BY <1>9, <1>15

\* All the trades from one to another are wins; the lengths of such runs.
Won(s, i, j) == \A k \in i..j : s[k].net > 0
WonLengths(s) ==
  {p[2] - p[1] + 1 : p \in {q \in (1..Len(s)) \X (1..Len(s)) : q[1] <= q[2] /\ Won(s, q[1], q[2])}}

\* What the counter knows after n trades.
Knows(c, s, n) ==
  /\ c.now <= n /\ Won(s, n - c.now + 1, n)
  /\ c.now < n => ~(s[n - c.now].net > 0)
  /\ c.best # 0 => \E i, j \in 1..n : i <= j /\ Won(s, i, j) /\ c.best = j - i + 1
  /\ \A i, j \in 1..n : i <= j /\ Won(s, i, j) => j - i + 1 <= c.best

\* One more trade.
LEMMA CounterStep ==
    ASSUME NEW s, NEW n \in Nat, \A i \in 1..n + 1 : s[i].net \in Int,
           NEW c \in Counter, NEW b \in Counter, Knows(c, s, n),
           b.now = IF s[n + 1].net > 0 THEN c.now + 1 ELSE 0,
           b.best = Max({c.best, b.now})
    PROVE  Knows(b, s, n + 1)
<1>1. c.now \in Nat /\ c.best \in Nat /\ b.now \in Nat /\ b.best \in Nat
  BY DEF Counter
<1>2. b.best = IF c.best >= b.now THEN c.best ELSE b.now
  <2>1. Max({c.best, b.now}) = IF c.best >= b.now THEN c.best ELSE b.now
    BY <1>1, ExtremaOfTwo
  <2>. QED  BY <2>1
<1>3. /\ c.now <= n /\ \A k \in n - c.now + 1..n : s[k].net > 0
      /\ c.now < n => ~(s[n - c.now].net > 0)
  BY DEF Knows, Won
<1>4. b.now <= n + 1
  BY <1>1, <1>3
<1>5. Won(s, (n + 1) - b.now + 1, n + 1)
  <2>1. CASE s[n + 1].net > 0
    <3>1. (n + 1) - b.now + 1 = n - c.now + 1
      BY <1>1, <2>1
    <3>2. \A k \in n - c.now + 1..n + 1 : k = n + 1 \/ k \in n - c.now + 1..n
      BY <1>1
    <3>. QED  BY <1>3, <2>1, <3>1, <3>2 DEF Won
  <2>2. CASE ~(s[n + 1].net > 0)
    <3>1. \A k \in (n + 1) - b.now + 1..n + 1 : FALSE
      BY <2>2
    <3>. QED  BY <3>1 DEF Won
  <2>. QED  BY <2>1, <2>2
<1>6. b.now < n + 1 => ~(s[(n + 1) - b.now].net > 0)
  <2>1. CASE s[n + 1].net > 0
    <3>1. (n + 1) - b.now = n - c.now /\ (b.now < n + 1 => c.now < n)
      BY <1>1, <2>1
    <3>. QED  BY <1>3, <3>1
  <2>2. CASE ~(s[n + 1].net > 0)
    <3>1. (n + 1) - b.now = n + 1
      BY <2>2
    <3>. QED  BY <2>2, <3>1
  <2>. QED  BY <2>1, <2>2
<1>7. b.best # 0 => \E i, j \in 1..n + 1 : i <= j /\ Won(s, i, j) /\ b.best = j - i + 1
  <2>. SUFFICES ASSUME b.best # 0
                PROVE  \E i, j \in 1..n + 1 : i <= j /\ Won(s, i, j) /\ b.best = j - i + 1
    OBVIOUS
  <2>1. CASE c.best >= b.now
    <3>1. b.best = c.best /\ c.best # 0
      BY <1>2, <2>1
    <3>2. PICK i \in 1..n, j \in 1..n : i <= j /\ Won(s, i, j) /\ c.best = j - i + 1
      BY <3>1 DEF Knows
    <3>3. i \in 1..n + 1 /\ j \in 1..n + 1
      BY <3>2
    <3>. QED  BY <3>1, <3>2, <3>3
  <2>2. CASE ~(c.best >= b.now)
    <3>. DEFINE i == (n + 1) - b.now + 1
                j == n + 1
    <3>1. b.best = b.now /\ b.now > 0
      BY <1>1, <1>2, <2>2
    <3>2. i \in 1..n + 1 /\ j \in 1..n + 1 /\ i <= j /\ b.best = j - i + 1
      BY <1>1, <1>4, <3>1
    <3>3. Won(s, i, j)
      BY <1>5
    <3>. HIDE DEF i, j
    <3>. QED  BY <3>2, <3>3
  <2>. QED  BY <2>1, <2>2
<1>8. ASSUME NEW i \in 1..n + 1, NEW j \in 1..n + 1, i <= j, Won(s, i, j)
      PROVE  j - i + 1 <= b.best
  <2>1. CASE j \in 1..n
    <3>1. i \in 1..n
      BY <1>8, <2>1
    <3>2. j - i + 1 <= c.best
      BY <1>8, <2>1, <3>1 DEF Knows
    <3>. QED  BY <1>1, <1>2, <2>1, <3>1, <3>2
  <2>2. CASE j = n + 1
    <3>1. s[n + 1].net > 0
      BY <1>8, <2>2 DEF Won
    <3>2. b.now = c.now + 1
      BY <3>1
    <3>3. n - c.now < i
      <4>. SUFFICES ASSUME i <= n - c.now
                    PROVE  FALSE
        BY <1>1
      <4>1. n - c.now \in i..j /\ c.now < n
        BY <1>1, <2>2
      <4>2. s[n - c.now].net > 0
        BY <1>8, <4>1 DEF Won
      <4>. QED  BY <1>3, <4>1, <4>2
    <3>4. j - i + 1 <= b.now
      BY <1>1, <2>2, <3>2, <3>3
    <3>. QED  BY <1>1, <1>2, <2>2, <3>4
  <2>3. j \in 1..n \/ j = n + 1
    OBVIOUS
  <2>. QED  BY <2>1, <2>2, <2>3
<1>. QED  BY <1>4, <1>5, <1>6, <1>7, <1>8 DEF Knows

\* The streak of wins is the longest run of winners.
LEMMA LongestRun ==
    ASSUME NEW s, Nets(s)
    PROVE  Streak(s, 1) = Max({0} \cup WonLengths(s))
<1>. DEFINE N == Len(s)
            S == {0} \cup WonLengths(s)
<1>0. N \in Nat /\ \A i \in 1..N : s[i].net \in Int
  BY DEF Nets
<1>1. PICK count : Counted(count, s) /\ Streak(s, 1) = count[N].best
  BY StreakCounts
<1>. DEFINE M == {n \in Nat : n <= N => Knows(count[n], s, n)}
<1>2. 0 \in M
  <2>1. count[0].now = 0 /\ count[0].best = 0
    BY <1>1 DEF Counted
  <2>2. Knows(count[0], s, 0)
    BY <2>1 DEF Knows, Won
  <2>. QED  BY <2>2
<1>3. ASSUME NEW n \in Nat, n \in M
      PROVE  n + 1 \in M
  <2>. SUFFICES ASSUME n + 1 <= N
                PROVE  Knows(count[n + 1], s, n + 1)
    OBVIOUS
  <2>. DEFINE c == count[n]
              b == count[n + 1]
  <2>1. n + 1 \in 1..N /\ n \in 0..N /\ n + 1 \in 0..N /\ (n + 1) - 1 = n /\ Knows(c, s, n)
    BY <1>0, <1>3
  <2>2. c \in Counter /\ b \in Counter
    BY <1>1, <2>1 DEF Counted
  <2>3. /\ b.now = IF s[n + 1].net > 0 THEN c.now + 1 ELSE 0
        /\ b.best = Max({c.best, b.now})
    BY <1>1, <2>1 DEF Counted
  <2>4. \A i \in 1..n + 1 : s[i].net \in Int
    BY <1>0, <2>1
  <2>. HIDE DEF b, c
  <2>5. Knows(b, s, n + 1)
    BY <2>1, <2>2, <2>3, <2>4, CounterStep
  <2>. QED  BY <2>5 DEF b
<1>. DEFINE c == count[N]
<1>4. Knows(c, s, N) /\ c \in Counter
  <2>1. Nat \subseteq M
    <3>. HIDE DEF M
    <3>. QED  BY <1>2, <1>3, SetInduction
  <2>2. N \in 0..N /\ N \in M
    BY <1>0, <2>1
  <2>. QED  BY <1>0, <1>1, <2>2 DEF Counted
<1>5. c.best \in Nat
  BY <1>4 DEF Counter
<1>. HIDE DEF c
<1>6. ASSUME NEW y
      PROVE  y \in WonLengths(s) <=>
               \E i, j \in 1..N : i <= j /\ Won(s, i, j) /\ y = j - i + 1
  <2>1. ASSUME y \in WonLengths(s)
        PROVE  \E i, j \in 1..N : i <= j /\ Won(s, i, j) /\ y = j - i + 1
    <3>1. PICK p \in (1..N) \X (1..N) : p[1] <= p[2] /\ Won(s, p[1], p[2]) /\ y = p[2] - p[1] + 1
      BY <2>1 DEF WonLengths
    <3>2. p[1] \in 1..N /\ p[2] \in 1..N
      BY <3>1
    <3>. QED  BY <3>1, <3>2
  <2>2. ASSUME NEW i \in 1..N, NEW j \in 1..N, i <= j, Won(s, i, j), y = j - i + 1
        PROVE  y \in WonLengths(s)
    <3>. DEFINE p == << i, j >>
    <3>1. p \in (1..N) \X (1..N) /\ p[1] = i /\ p[2] = j
      OBVIOUS
    <3>. HIDE DEF p
    <3>2. p \in {q \in (1..N) \X (1..N) : q[1] <= q[2] /\ Won(s, q[1], q[2])}
      BY <2>2, <3>1
    <3>. QED  BY <2>2, <3>1, <3>2 DEF WonLengths
  <2>. QED  BY <2>1, <2>2
<1>7. c.best \in S
  <2>1. c.best # 0 => \E i, j \in 1..N : i <= j /\ Won(s, i, j) /\ c.best = j - i + 1
    BY <1>4 DEF Knows
  <2>. QED  BY <1>6, <2>1
<1>8. \A y \in S : y \in Int /\ y <= c.best
  <2>. SUFFICES ASSUME NEW y \in WonLengths(s)
                PROVE  y \in Int /\ y <= c.best
    BY <1>5
  <2>1. PICK i \in 1..N, j \in 1..N : i <= j /\ Won(s, i, j) /\ y = j - i + 1
    BY <1>6
  <2>2. j - i + 1 <= c.best
    BY <1>4, <2>1 DEF Knows
  <2>. QED  BY <2>1, <2>2
<1>. HIDE DEF S
<1>9. Max(S) = c.best
  BY <1>7, <1>8, MaxIs
<1>. QED  BY <1>1, <1>9 DEF S, c

\* The drawdowns of a run against the balances bal[0], .., bal[p] it has had: the
\* peak is the highest of them, and the deepest drawdown is the deepest fall
\* from one of them to a later one.
Falls(bal, p, x) == \E i, j \in 0..p : i <= j /\ x = bal[i] - bal[j]
Booked(run, bal, p) ==
  LET falls == ToSet(run.drawdowns) \cup {0}
  IN /\ run.balance = bal[p]
     /\ \E i \in 0..p : run.peak = bal[i]
     /\ \A i \in 0..p : bal[i] <= run.peak
     /\ \E a \in falls : /\ \A y \in falls : y <= a
                         /\ Falls(bal, p, a)
                         /\ \A i, j \in 0..p : i <= j => bal[i] - bal[j] <= a

\* One more closed trade is booked.
LEMMA BookStep ==
    ASSUME NEW run \in SimulationResult, NEW trade \in Filled, NEW p \in Nat, NEW bal,
           \A i \in 0..p + 1 : bal[i] \in Int, bal[p + 1] = bal[p] + trade.net,
           Booked(run, bal, p)
    PROVE  Booked(WithTrade(run, trade), bal, p + 1)
<1>. DEFINE next == WithTrade(run, trade)
            b == bal[p + 1]
            d == Max({run.peak - run.balance - trade.net, 0})
            falls == ToSet(run.drawdowns) \cup {0}
            grown == ToSet(next.drawdowns) \cup {0}
<1>1. /\ run.balance \in Int /\ run.peak \in Int /\ run.drawdowns \in Seq(Nat)
      /\ trade.net \in Int
  BY DEF SimulationResult, Filled
<1>2. /\ next.balance = run.balance + trade.net
      /\ next.peak = Max({run.peak, run.balance + trade.net})
      /\ next.drawdowns = Append(run.drawdowns, d)
  BY DEF WithTrade
<1>3. run.balance = bal[p] /\ b = run.balance + trade.net /\ b \in Int
      /\ p \in 0..p + 1 /\ p + 1 \in 0..p + 1
  BY DEF Booked
<1>4. next.balance = b /\ next.peak = IF run.peak >= b THEN run.peak ELSE b
  <2>1. Max({run.peak, b}) = IF run.peak >= b THEN run.peak ELSE b
    BY <1>1, <1>3, ExtremaOfTwo
  <2>. QED  BY <1>2, <1>3, <2>1
<1>5. d = IF run.peak - b >= 0 THEN run.peak - b ELSE 0
  <2>. DEFINE x == run.peak - run.balance - trade.net
  <2>1. x \in Int /\ 0 \in Int /\ x = run.peak - b
    BY <1>1, <1>3
  <2>. HIDE DEF x
  <2>2. Max({x, 0}) = IF x >= 0 THEN x ELSE 0
    BY <2>1, ExtremaOfTwo
  <2>. QED  BY <2>1, <2>2 DEF x
<1>. HIDE DEF d
<1>6. d \in Nat /\ grown = falls \cup {d}
  <2>1. d \in Nat
    BY <1>1, <1>3, <1>5
  <2>2. ToSet(next.drawdowns) = ToSet(run.drawdowns) \cup {d}
    BY <1>1, <1>2, <2>1, AppendIs
  <2>. QED  BY <2>1, <2>2
<1>7. falls \subseteq Int
  BY <1>1, ToSetOf
<1>8. PICK h \in 0..p : run.peak = bal[h]
  BY DEF Booked
<1>9. \A i \in 0..p : bal[i] <= run.peak /\ bal[i] \in Int
  BY DEF Booked
<1>10. PICK a \in falls : /\ \A y \in falls : y <= a
                          /\ Falls(bal, p, a)
                          /\ \A i, j \in 0..p : i <= j => bal[i] - bal[j] <= a
  BY DEF Booked
<1>. HIDE DEF next, b, falls, grown
<1>11. \A i \in 0..p + 1 : i = p + 1 \/ i \in 0..p
  OBVIOUS
<1>12. \E i \in 0..p + 1 : next.peak = bal[i]
  <2>1. CASE run.peak >= b
    BY <1>4, <1>8, <2>1
  <2>2. CASE ~(run.peak >= b)
    BY <1>3, <1>4, <2>2 DEF b
  <2>. QED  BY <2>1, <2>2
<1>13. \A i \in 0..p + 1 : bal[i] <= next.peak
  <2>. SUFFICES ASSUME NEW i \in 0..p + 1
                PROVE  bal[i] <= next.peak
    OBVIOUS
  <2>1. CASE i = p + 1
    BY <1>1, <1>3, <1>4, <2>1 DEF b
  <2>2. CASE i \in 0..p
    <3>1. bal[i] <= run.peak /\ bal[i] \in Int
      BY <1>9, <2>2
    <3>. QED  BY <1>1, <1>3, <1>4, <3>1
  <2>. QED  BY <1>11, <2>1, <2>2
<1>. DEFINE m == IF a >= d THEN a ELSE d
<1>14. /\ m \in grown /\ m \in Int /\ a <= m /\ d <= m /\ a \in Int
       /\ \A y \in grown : y <= m
  BY <1>6, <1>7, <1>10
<1>15. Falls(bal, p + 1, m)
  <2>1. CASE a >= d
    <3>1. PICK i \in 0..p, j \in 0..p : i <= j /\ a = bal[i] - bal[j]
      BY <1>10 DEF Falls
    <3>2. i \in 0..p + 1 /\ j \in 0..p + 1
      OBVIOUS
    <3>. QED  BY <2>1, <3>1, <3>2 DEF Falls
  <2>2. CASE ~(a >= d)
    <3>1. m = d
      BY <2>2
    <3>2. CASE run.peak - b >= 0
      <4>1. m = bal[h] - bal[p + 1] /\ h <= p + 1 /\ h \in 0..p + 1
        BY <1>5, <1>8, <3>1, <3>2 DEF b
      <4>. QED  BY <1>3, <4>1 DEF Falls
    <3>3. CASE ~(run.peak - b >= 0)
      <4>1. m = bal[p] - bal[p]
        BY <1>5, <1>9, <3>1, <3>3
      <4>. QED  BY <1>3, <4>1 DEF Falls
    <3>. QED  BY <3>2, <3>3
  <2>. QED  BY <2>1, <2>2
<1>. HIDE DEF m
<1>16. ASSUME NEW i \in 0..p + 1, NEW j \in 0..p + 1, i <= j
       PROVE  bal[i] - bal[j] <= m
  <2>0. bal[i] \in Int /\ bal[j] \in Int /\ m \in Int /\ d \in Int
    BY <1>6, <1>14
  <2>1. CASE j \in 0..p
    <3>1. i \in 0..p
      BY <1>16, <2>1
    <3>2. bal[i] - bal[j] <= a
      BY <1>10, <1>16, <2>1, <3>1
    <3>. QED  BY <1>14, <2>0, <3>2
  <2>2. CASE j = p + 1
    <3>1. CASE i = p + 1
      <4>1. bal[i] - bal[j] = 0 /\ 0 <= d
        BY <1>6, <2>0, <2>2, <3>1
      <4>. QED  BY <1>14, <2>0, <4>1
    <3>2. CASE i \in 0..p
      <4>1. bal[i] <= run.peak /\ bal[j] = b
        BY <1>9, <2>2, <3>2 DEF b
      <4>2. bal[i] - bal[j] <= d
        BY <1>1, <1>3, <1>5, <2>0, <4>1
      <4>. QED  BY <1>14, <2>0, <4>2
    <3>. QED  BY <1>11, <3>1, <3>2
  <2>. QED  BY <1>11, <2>1, <2>2
<1>17. Booked(next, bal, p + 1)
  <2>1. next.balance = bal[p + 1]
    BY <1>4 DEF b
  <2>. QED  BY <1>12, <1>13, <1>14, <1>15, <1>16, <2>1 DEF Booked, grown
<1>. QED  BY <1>17 DEF next

\* The trades of a simulation, and those of them that were closed.
LEMMA ClosedIs ==
    ASSUME NEW trades \in Seq(SimulatedTrade)
    PROVE  /\ Closed(trades) \in Seq(SimulatedTrade) /\ Nets(Closed(trades))
           /\ \A i \in 1..Len(Closed(trades)) : Closed(trades)[i] \in Filled
<1>. DEFINE S == {t \in ToSet(trades) : t.status = "FILLED_CLOSED"}
            closed == Only(trades, S)
<1>1. closed \in Seq(SimulatedTrade) /\ ToSet(closed) = ToSet(trades) \cap S
  BY OnlyKeeps
<1>2. Len(closed) \in Nat /\ \A i \in 1..Len(closed) : closed[i] \in ToSet(closed)
  BY <1>1, ToSetOf
<1>3. ASSUME NEW i \in 1..Len(closed)
      PROVE  closed[i] \in Filled /\ closed[i].net \in Int
  <2>. DEFINE t == closed[i]
  <2>1. t \in S /\ t \in SimulatedTrade
    BY <1>1, <1>2
  <2>2. t.status = "FILLED_CLOSED"
    BY <2>1
  <2>. HIDE DEF t
  <2>3. t \in Filled
    BY <2>1, <2>2 DEF SimulatedTrade, Filled
  <2>4. t.net \in Int
    BY <2>3 DEF Filled
  <2>. QED  BY <2>3, <2>4 DEF t
<1>4. closed = Closed(trades)
  BY DEF Closed
<1>. HIDE DEF closed
<1>. QED  BY <1>1, <1>2, <1>3, <1>4 DEF Nets

\* A simulation is booked: its balances are what its closed trades make.
LEMMA SimulationBooked ==
    ASSUME NEW d, NEW events \in Seq(ReplayStrategyEvent), NEW cs \in Seq(Candle),
           NEW closed, closed = Closed(Simulate(d, events, cs).trades),
           NEW sum, Sums(sum, closed)
    PROVE  Booked(Simulate(d, events, cs),
                  [i \in 0..Len(closed) |-> InitialBalance + sum[i]], Len(closed))
<1>. DEFINE trades == Simulate(d, events, cs).trades
            N == Len(events)
            K == Len(closed)
            S == {t \in ToSet(trades) : t.status = "FILLED_CLOSED"}
            bal == [i \in 0..K |-> InitialBalance + sum[i]]
            size(n) == Approved(d, events[n].plan, events[n].at)
<1>1. trades \in Seq(SimulatedTrade)
  <2>1. PICK run : Run(run, d, events, cs)
    BY SimulateIs
  <2>2. Simulate(d, events, cs) \in SimulationResult
    BY <2>1 DEF Run
  <2>. QED  BY <2>2 DEF SimulationResult
<1>2. PICK run : Traded(run, d, events, cs)
  BY TradesAre
<1>3. /\ run[0] = NoTrades /\ Len(trades) = N /\ Simulate(d, events, cs) = run[N] /\ N \in Nat
  BY <1>2 DEF Traded
<1>4. \A n \in 1..N :
        /\ run[n - 1] \in SimulationResult /\ run[n] \in SimulationResult
        /\ TradeFrom(trades[n], run[n - 1], run[n], events[n], size(n), cs)
  BY <1>2 DEF Traded
<1>5. closed = Only(trades, S)
  BY DEF Closed
<1>6. PICK pos : Positions(pos, trades, S, closed)
  BY <1>1, <1>5, OnlyPositions
<1>7. K \in Nat /\ \A i \in 1..K : closed[i].net \in Int
  BY <1>1, ClosedIs DEF Nets
<1>8. \A n \in 1..N : trades[n] \in S <=> trades[n].status = "FILLED_CLOSED"
  BY <1>1, <1>3, ToSetOf
<1>9. /\ \A i \in 0..K : bal[i] \in Int
      /\ \A i \in 1..K : bal[i] = bal[i - 1] + closed[i].net
      /\ bal[0] = InitialBalance
  <2>1. InitialBalance \in Int
    BY CostsAssumption DEF CostsAndSizes
  <2>2. sum[0] = 0 /\ \A i \in 0..K : sum[i] \in Int
    BY DEF Sums
  <2>3. \A i \in 1..K : sum[i] = sum[i - 1] + closed[i].net /\ i - 1 \in 0..K /\ i \in 0..K
    BY <1>7 DEF Sums
  <2>. HIDE DEF K
  <2>4. bal[0] = InitialBalance /\ \A i \in 0..K : bal[i] = InitialBalance + sum[i] /\ bal[i] \in Int
    BY <1>7, <2>1, <2>2 DEF K
  <2>5. ASSUME NEW i \in 1..K
        PROVE  bal[i] = bal[i - 1] + closed[i].net
    <3>1. /\ bal[i] = InitialBalance + sum[i] /\ bal[i - 1] = InitialBalance + sum[i - 1]
          /\ sum[i] = sum[i - 1] + closed[i].net /\ sum[i - 1] \in Int /\ closed[i].net \in Int
      BY <1>7, <2>2, <2>3, <2>4 DEF K
    <3>. HIDE DEF bal
    <3>. QED  BY <2>1, <3>1
  <2>. QED  BY <2>4, <2>5
<1>. HIDE DEF S, bal, K, N, trades, size
<1>10. /\ pos[0] = 0 /\ pos[N] = K /\ \A n \in 0..N : pos[n] \in 0..K
       /\ \A n \in 1..N :
            /\ trades[n] \in S => pos[n] = pos[n - 1] + 1 /\ closed[pos[n]] = trades[n]
            /\ trades[n] \notin S => pos[n] = pos[n - 1]
  BY <1>3, <1>6 DEF Positions, K
<1>. DEFINE M == {n \in Nat : n <= N => Booked(run[n], bal, pos[n])}
<1>11. 0 \in M
  <2>. DEFINE r == run[0]
  <2>1. r.balance = InitialBalance /\ r.peak = InitialBalance /\ r.drawdowns = <<>>
    BY <1>3 DEF NoTrades
  <2>2. ToSet(r.drawdowns) = {}
    BY <2>1 DEF ToSet
  <2>3. bal[0] \in Int /\ 0 \in 0..0 /\ \A i \in 0..0 : i = 0
    BY <1>7, <1>9
  <2>4. Falls(bal, 0, 0)
    BY <2>3 DEF Falls
  <2>. HIDE DEF r
  <2>5. Booked(r, bal, 0)
    <3>1. \A i, j \in 0..0 : bal[i] - bal[j] <= 0
      BY <2>3
    <3>. QED  BY <1>9, <2>1, <2>2, <2>3, <2>4, <3>1 DEF Booked
  <2>. QED  BY <1>10, <2>5 DEF r
<1>12. ASSUME NEW n \in Nat, n \in M
       PROVE  n + 1 \in M
  <2>. SUFFICES ASSUME n + 1 <= N
                PROVE  Booked(run[n + 1], bal, pos[n + 1])
    OBVIOUS
  <2>. DEFINE m == n + 1
              r == run[n]
              s == run[m]
              t == trades[m]
              p == pos[n]
  <2>1. n \in 0..N /\ m \in 1..N /\ m \in 0..N /\ m - 1 = n /\ Booked(r, bal, p)
    BY <1>3, <1>12
  <2>. HIDE DEF m
  <2>2. /\ r \in SimulationResult /\ s \in SimulationResult
        /\ TradeFrom(t, r, s, events[m], size(m), cs)
    BY <1>4, <2>1
  <2>3. /\ p \in 0..K /\ pos[m] \in 0..K
        /\ t \in S => pos[m] = p + 1 /\ closed[pos[m]] = t
        /\ t \notin S => pos[m] = p
        /\ t \in S <=> t.status = "FILLED_CLOSED"
    BY <1>8, <1>10, <2>1
  <2>. HIDE DEF r, s, t, p
  <2>. SUFFICES Booked(s, bal, pos[m])
    BY DEF s, m
  <2>4. CASE Fillable(r, events[m], size(m), cs)
    <3>1. t \in Filled /\ s = WithTrade(r, t) /\ t.status = "FILLED_CLOSED"
      BY <2>2, <2>4 DEF TradeFrom, Filled
    <3>2. pos[m] = p + 1 /\ closed[p + 1] = t /\ p \in Nat /\ p + 1 \in 1..K /\ (p + 1) - 1 = p
      BY <1>7, <2>3, <3>1
    <3>3. bal[p + 1] = bal[p] + t.net /\ \A i \in 0..p + 1 : bal[i] \in Int
      BY <1>7, <1>9, <3>2
    <3>4. Booked(WithTrade(r, t), bal, p + 1)
      BY <2>1, <2>2, <3>1, <3>2, <3>3, BookStep
    <3>. QED  BY <3>1, <3>2, <3>4
  <2>5. CASE ~Fillable(r, events[m], size(m), cs)
    <3>1. t.status # "FILLED_CLOSED"
      BY <2>2, <2>5, StatusIs
    <3>2. s = [r EXCEPT !.trades = Append(@, t)]
      BY <2>2, <2>5 DEF TradeFrom
    <3>3. s.balance = r.balance /\ s.peak = r.peak /\ s.drawdowns = r.drawdowns
      BY <2>2, <3>2 DEF SimulationResult
    <3>4. pos[m] = p
      BY <2>3, <3>1
    <3>. QED  BY <2>1, <3>3, <3>4 DEF Booked
  <2>. QED  BY <2>4, <2>5
<1>13. Booked(run[N], bal, K)
  <2>1. Nat \subseteq M
    <3>. HIDE DEF M
    <3>. QED  BY <1>11, <1>12, SetInduction
  <2>. QED  BY <1>3, <1>10, <2>1
<1>. QED  BY <1>3, <1>13 DEF bal, K

\* The report agrees with the account.
LEMMA BooksAre ==
    ASSUME NEW d, NEW events \in Seq(ReplayStrategyEvent), NEW cs \in Seq(Candle)
    PROVE  LET run == Simulate(d, events, cs)
           IN BooksAddUp(run, Metrics(run), Closed(run.trades))
<1>. DEFINE run == Simulate(d, events, cs)
            closed == Closed(run.trades)
            wins == Only(closed, {t \in ToSet(closed) : t.net > 0})
            losses == Only(closed, {t \in ToSet(closed) : t.net < 0})
            even == Only(closed, {t \in ToSet(closed) : t.net = 0})
            m == Metrics(run)
            K == Len(closed)
            balance(n) == InitialBalance + Net(SubSeq(closed, 1, n))
            D == {balance(p[1]) - balance(p[2]) : p \in {q \in (0..K) \X (0..K) : q[1] <= q[2]}}
<1>1. /\ m.total = K /\ m.wins = Len(wins) /\ m.losses = Len(losses) /\ m.breakeven = Len(even)
      /\ m.profit = Net(wins) /\ m.loss = -Net(losses) /\ m.net = Net(closed)
      /\ m.drawdown = Max(ToSet(run.drawdowns) \cup {0}) /\ m.winning = Streak(closed, 1)
  BY DEF Metrics
<1>2. run.trades \in Seq(SimulatedTrade) /\ run.drawdowns \in Seq(Nat)
  <2>1. PICK f : Run(f, d, events, cs)
    BY SimulateIs
  <2>2. Simulate(d, events, cs) \in SimulationResult
    BY <2>1 DEF Run
  <2>. QED  BY <2>2 DEF SimulationResult
<1>3. closed \in Seq(SimulatedTrade) /\ Nets(closed)
  BY <1>2, ClosedIs
<1>4. K \in Nat /\ \A i \in 1..K : closed[i].net \in Int
  BY <1>3 DEF Nets
<1>5. PICK sum : Sums(sum, closed) /\ Net(closed) = sum[K]
  BY <1>4, NetSums
<1>. DEFINE bal == [i \in 0..K |-> InitialBalance + sum[i]]
<1>6. Booked(run, bal, K)
  BY <1>5, SimulationBooked
<1>7. InitialBalance \in Int
  BY CostsAssumption DEF CostsAndSizes
<1>8. \A i \in 0..K : bal[i] = InitialBalance + sum[i] /\ bal[i] \in Int /\ balance(i) = bal[i]
  <2>. SUFFICES ASSUME NEW i \in 0..K
                PROVE  bal[i] = InitialBalance + sum[i] /\ bal[i] \in Int /\ balance(i) = bal[i]
    OBVIOUS
  <2>1. sum[i] \in Int
    BY <1>5 DEF Sums
  <2>2. Net(SubSeq(closed, 1, i)) = sum[i]
    BY <1>3, <1>4, <1>5, NetOfPrefix
  <2>. QED  BY <1>7, <2>1, <2>2
<1>9. /\ Net(closed) = Net(wins) + Net(losses) /\ K = Len(wins) + Len(losses) + Len(even)
      /\ Net(closed) \in Int /\ Net(wins) \in Int /\ Net(losses) \in Int
  <2>. DEFINE t == [wins |-> wins, losses |-> losses, even |-> even]
  <2>1. OfSign(closed, t) /\ t.wins = wins /\ t.losses = losses /\ t.even = even
    <3>. HIDE DEF closed
    <3>. QED  BY DEF OfSign
  <2>. HIDE DEF t, closed, wins, losses, even
  <2>2. /\ Net(closed) = Net(t.wins) + Net(t.losses)
        /\ Len(closed) = Len(t.wins) + Len(t.losses) + Len(t.even)
        /\ Net(closed) \in Int /\ Net(t.wins) \in Int /\ Net(t.losses) \in Int
    BY <1>3, <2>1, PartsAddUp
  <2>. QED  BY <2>1, <2>2
<1>10. Streak(closed, 1) = Max({0} \cup WonLengths(closed))
  BY <1>3, LongestRun
<1>. HIDE DEF closed, wins, losses, even, m, run
<1>11. run.balance = InitialBalance + m.net
  <2>1. run.balance = bal[K] /\ K \in 0..K
    BY <1>4, <1>6 DEF Booked
  <2>. HIDE DEF bal, K
  <2>. QED  BY <1>1, <1>5, <1>8, <2>1
<1>12. m.net = m.profit - m.loss /\ m.total = m.wins + m.losses + m.breakeven
  <2>. HIDE DEF K
  <2>. QED  BY <1>1, <1>9
<1>13. m.drawdown = Max(D)
  <2>. DEFINE falls == ToSet(run.drawdowns) \cup {0}
  <2>1. PICK a \in falls : /\ \A y \in falls : y <= a
                           /\ Falls(bal, K, a)
                           /\ \A i, j \in 0..K : i <= j => bal[i] - bal[j] <= a
    BY <1>6 DEF Booked
  <2>. HIDE DEF bal, K
  <2>2. falls \subseteq Int
    BY <1>2, ToSetOf
  <2>. HIDE DEF falls
  <2>3. Max(falls) = a
    BY <2>1, <2>2, MaxIs
  <2>4. a \in D
    <3>1. PICK i \in 0..K, j \in 0..K : i <= j /\ a = bal[i] - bal[j]
      BY <2>1 DEF Falls
    <3>. DEFINE p == << i, j >>
    <3>2. p \in (0..K) \X (0..K) /\ p[1] = i /\ p[2] = j
      OBVIOUS
    <3>. HIDE DEF p
    <3>3. p \in {q \in (0..K) \X (0..K) : q[1] <= q[2]}
      BY <3>1, <3>2
    <3>4. a = balance(p[1]) - balance(p[2])
      BY <1>8, <3>1, <3>2
    <3>. HIDE DEF balance
    <3>. QED  BY <3>3, <3>4
  <2>5. \A y \in D : y \in Int /\ y <= a
    <3>. SUFFICES ASSUME NEW p \in (0..K) \X (0..K), p[1] <= p[2]
                  PROVE  /\ balance(p[1]) - balance(p[2]) \in Int
                         /\ balance(p[1]) - balance(p[2]) <= a
      <4>. HIDE DEF balance
      <4>. QED  OBVIOUS
    <3>1. p[1] \in 0..K /\ p[2] \in 0..K
      OBVIOUS
    <3>2. /\ balance(p[1]) = bal[p[1]] /\ balance(p[2]) = bal[p[2]]
          /\ bal[p[1]] \in Int /\ bal[p[2]] \in Int
      BY <1>8, <3>1
    <3>3. bal[p[1]] - bal[p[2]] <= a
      BY <2>1, <3>1
    <3>. HIDE DEF balance
    <3>. QED  BY <3>2, <3>3
  <2>. HIDE DEF D
  <2>6. Max(D) = a
    BY <2>4, <2>5, MaxIs
  <2>. QED  BY <1>1, <2>3, <2>6 DEF falls
<1>14. BooksAddUp(run, m, closed)
  <2>1. D = {balance(p[1]) - balance(p[2]) : p \in
               {q \in (0..m.total) \X (0..m.total) : q[1] <= q[2]}}
    BY <1>1
  <2>2. WonLengths(closed) =
          {p[2] - p[1] + 1 : p \in {q \in (1..m.total) \X (1..m.total) :
                                      q[1] <= q[2] /\ \A k \in q[1]..q[2] : closed[k].net > 0}}
    BY <1>1 DEF WonLengths, Won
  <2>3. m.winning = Max({0} \cup WonLengths(closed))
    BY <1>1, <1>10
  <2>. HIDE DEF D
  <2>. QED  BY <1>11, <1>12, <1>13, <2>1, <2>2, <2>3, Zenon DEF BooksAddUp
<1>. QED  BY <1>14 DEF run, m, closed

\* Every filled trade is honest, no two are open at once, and the books add up.
LEMMA TradesHold == ClockInv => TradesAreExecutable
<1>. SUFFICES ASSUME ClockInv
              PROVE  Executable(Simulate(data, journal, candles))
  BY DEF TradesAreExecutable
<1>. DEFINE run == Simulate(data, journal, candles)
            trades == run.trades
            N == Len(journal)
            size(n) == Approved(data, journal[n].plan, journal[n].at)
<1>1. journal \in Seq(ReplayStrategyEvent) /\ candles \in Seq(Candle) /\ N \in Nat
  BY NowIs DEF ClockInv
<1>2. PICK r : Traded(r, data, journal, candles)
  BY <1>1, TradesAre
<1>3. Len(trades) = N
  BY <1>2 DEF Traded
<1>4. ASSUME NEW i \in 1..N, trades[i].status = "FILLED_CLOSED"
      PROVE  Honest(trades[i], journal[i].plan, size(i), CandleAt(trades[i].exits - 1))
  <2>. DEFINE e == journal[i]
              v == size(i)
              t == trades[i]
              cs == candles
  <2>1. /\ r[i - 1] \in SimulationResult /\ e \in ReplayStrategyEvent
        /\ e.plan # Nothing => v \in Nat
        /\ TradeFrom(t, r[i - 1], r[i], e, v, cs)
    BY <1>2 DEF Traded
  <2>. HIDE DEF e, v, t
  <2>2. Fillable(r[i - 1], e, v, cs)
    BY <1>4, <2>1, StatusIs DEF t
  <2>3. t = TradeOf(e, v, candles) /\ e.plan # Nothing /\ v # 0 /\ v \in Nat
        /\ Fills(e.plan, candles) # {}
    BY <2>1, <2>2 DEF TradeFrom, Fillable
  <2>4. Honest(t, e.plan, v, CandleAt(t.exits - 1))
    BY <2>1, <2>3, TradeIsHonest
  <2>. QED  BY <2>4 DEF t, e, v
<1>5. ASSUME NEW i \in 1..N, NEW j \in 1..N, j < i,
             trades[i].status = "FILLED_CLOSED", trades[j].status = "FILLED_CLOSED"
      PROVE  trades[j].exits <= trades[i].planned
  BY <1>5, OnePosition
<1>6. BooksAddUp(run, Metrics(run), Closed(run.trades))
  <2>. DEFINE cs == candles
              events == journal
  <2>1. cs \in Seq(Candle) /\ events \in Seq(ReplayStrategyEvent)
    BY <1>1
  <2>. HIDE DEF cs, events
  <2>2. LET x == Simulate(data, events, cs) IN BooksAddUp(x, Metrics(x), Closed(x.trades))
    BY <2>1, BooksAre
  <2>. QED  BY <2>2 DEF cs, events
<1>. HIDE DEF run
<1>7. Executable(run)
  <2>. DEFINE filled == {i \in 1..Len(trades) : trades[i].status = "FILLED_CLOSED"}
  <2>1. \A i \in filled : Honest(trades[i], journal[i].plan, size(i), CandleAt(trades[i].exits - 1))
    BY <1>3, <1>4
  <2>2. \A i, j \in filled : j < i => trades[j].exits <= trades[i].planned
    BY <1>3, <1>5
  <2>. QED  BY <1>6, <2>1, <2>2, Zenon DEF Executable
<1>. QED  BY <1>7 DEF run

\* Whatever the candles, the plans and the costs are, the simulation claims no
\* trade that the candles do not bear out and no result its trades do not make
\* (simulation.py, metrics.py).
THEOREM TradesExecutable == Spec => []TradesAreExecutable
<1>. QED  BY ClockRuns, TradesHold, PTL DEF Spec

-----------------------------------------------------------------------------
(* What structure is earned by *)

Other(side) == <<side[1], IF side[2] = "HIGH" THEN "LOW" ELSE "HIGH">>
Toward(side) == IF side[2] = "HIGH" THEN "BULLISH" ELSE "BEARISH"
SideOf(e) == <<e.scope, e.swing.kind>>

\* A swing is the extremum of the candles from its own to its confirmation, and
\* unless it is the one that was broken, no candle has closed beyond it since.
SwingEarned(s, b, side, cs, now) ==
  /\ s.scope = side[1] /\ s.kind = side[2] /\ s.confirmed <= now
  /\ \E x \in cs : /\ x.time = s.at /\ s.at < s.confirmed
                   /\ s.price = IF s.kind = "HIGH" THEN x.high ELSE x.low
  /\ \A x \in cs : s.at <= x.time /\ x.time < s.confirmed =>
       IF s.kind = "HIGH" THEN x.high <= s.price ELSE x.low >= s.price
  /\ b # s => \A x \in cs : x.time >= s.confirmed => ~Crossed(s, x)

\* An event is a close beyond its swing, which is either the latest of its side
\* and broken, or older than the latest.
EventEarned(e, latest, broken, cs, now) ==
  /\ e.swing.scope = e.scope /\ e.direction = Toward(SideOf(e))
  /\ e.swing.confirmed <= e.at /\ e.confirmed = e.at + 1 /\ e.confirmed <= now
  /\ \E x \in cs : x.time = e.at /\ Crossed(e.swing, x)
  /\ \/ latest[SideOf(e)] = e.swing /\ broken[SideOf(e)] = e.swing
     \/ latest[SideOf(e)].confirmed >= e.confirmed

Alike(es) ==
  /\ \A e, f \in es : e.swing = f.swing => e.at = f.at
  /\ \A e, f \in es : e.scope = f.scope /\ e.at = f.at => e.direction = f.direction

\* An MSS comes right after its CHOCH.
Chained(events) ==
  \A i \in 1..Len(events) : events[i].kind = "MSS" =>
    /\ events[i].displaced
    /\ IF i = 1 THEN Len(events) >= MaxObjects
       ELSE events[i - 1].kind = "CHOCH" /\ events[i - 1].swing = events[i].swing

LastOfScope(events, i) == \A j \in i + 1..Len(events) : events[j].scope # events[i].scope

\* A trend against the last event of its scope has been turned since.
TrendEarned(latest, broken, trend, events, cs) ==
  \A i \in 1..Len(events) :
    LastOfScope(events, i) /\ trend[events[i].scope] = Opposite(events[i].direction) =>
      Turned(latest, broken, cs, events[i])

Earned(st, cs, now) ==
  /\ \A side \in ToSet(Sides) : st.latest[side] # Nothing =>
       SwingEarned(st.latest[side], st.broken[side], side, cs, now)
  /\ \A e \in ToSet(st.events) : EventEarned(e, st.latest, st.broken, cs, now)
  /\ Alike(ToSet(st.events))
  /\ Chained(st.events)
  /\ TrendEarned(st.latest, st.broken, st.trend, st.events, cs)

\* The two sides of a scope.
LEMMA TwoSides ==
    ASSUME NEW side \in ToSet(Sides)
    PROVE  /\ Other(side) \in ToSet(Sides) /\ Other(side) # side /\ Other(side)[1] = side[1]
           /\ side = <<side[1], side[2]>> /\ side[2] \in {"HIGH", "LOW"}
           /\ side[1] \in ToSet(Scopes)
           /\ Toward(side) \in Direction /\ Toward(Other(side)) = Opposite(Toward(side))
           /\ Opposite(Toward(side)) # Toward(side) /\ "NEUTRAL" # Opposite(Toward(side))
           /\ \A t \in ToSet(Sides) : t[1] = side[1] => t \in {side, Other(side)}
<1>1. side \in {<<"INTERNAL", "HIGH">>, <<"INTERNAL", "LOW">>,
                <<"EXTERNAL", "HIGH">>, <<"EXTERNAL", "LOW">>}
  BY SidesAre
<1>2. \A t \in ToSet(Sides) : t \in {<<"INTERNAL", "HIGH">>, <<"INTERNAL", "LOW">>,
                                     <<"EXTERNAL", "HIGH">>, <<"EXTERNAL", "LOW">>}
  BY SidesAre
<1>3. /\ Other(<<"INTERNAL", "HIGH">>) = <<"INTERNAL", "LOW">>
      /\ Other(<<"INTERNAL", "LOW">>) = <<"INTERNAL", "HIGH">>
      /\ Other(<<"EXTERNAL", "HIGH">>) = <<"EXTERNAL", "LOW">>
      /\ Other(<<"EXTERNAL", "LOW">>) = <<"EXTERNAL", "HIGH">>
  BY DEF Other
<1>4. /\ Toward(<<"INTERNAL", "HIGH">>) = "BULLISH" /\ Toward(<<"INTERNAL", "LOW">>) = "BEARISH"
      /\ Toward(<<"EXTERNAL", "HIGH">>) = "BULLISH" /\ Toward(<<"EXTERNAL", "LOW">>) = "BEARISH"
  BY DEF Toward
<1>5. Opposite("BULLISH") = "BEARISH" /\ Opposite("BEARISH") = "BULLISH"
  BY DEF Opposite
<1>6. /\ Other(side) \in ToSet(Sides) /\ Other(side) # side /\ Other(side)[1] = side[1]
      /\ side = <<side[1], side[2]>> /\ side[2] \in {"HIGH", "LOW"} /\ side[1] \in ToSet(Scopes)
  BY <1>1, <1>3, SidesAre
<1>7. /\ Toward(side) \in Direction /\ Toward(Other(side)) = Opposite(Toward(side))
      /\ Opposite(Toward(side)) # Toward(side) /\ "NEUTRAL" # Opposite(Toward(side))
  BY <1>1, <1>3, <1>4, <1>5 DEF Direction
<1>8. \A t \in ToSet(Sides) : t[1] = side[1] => t \in {side, Other(side)}
  BY <1>1, <1>2, <1>3
<1>. QED  BY <1>6, <1>7, <1>8

\* No candle closes beyond both sides of a scope (_breaks takes the sides in
\* turn): the low cannot lie above the high, for each holds where the other
\* was made or has not been closed beyond since.
LEMMA OneSided ==
    ASSUME NEW cs \in SUBSET Candle, NEW c \in Candle, NEW now \in Nat,
           NEW h \in PricedSwing, NEW l \in PricedSwing, NEW bh, NEW bl, NEW scope,
           SwingEarned(h, bh, << scope, "HIGH" >>, cs, now), bh # h,
           SwingEarned(l, bl, << scope, "LOW" >>, cs, now), bl # l
    PROVE  ~(Crossed(h, c) /\ Crossed(l, c))
<1>1. /\ h.kind = "HIGH" /\ l.kind = "LOW"
      /\ h.price \in Nat /\ l.price \in Nat /\ h.at \in Nat /\ l.at \in Nat
      /\ h.confirmed \in Nat /\ l.confirmed \in Nat
  BY SMT DEF SwingEarned, PricedSwing, SwingPoint, Price
<1>2. PICK x \in cs : x.time = h.at /\ h.at < h.confirmed /\ h.price = x.high
  BY <1>1 DEF SwingEarned
<1>3. PICK y \in cs : y.time = l.at /\ l.at < l.confirmed /\ l.price = y.low
  BY <1>1 DEF SwingEarned
<1>4. /\ x.low \in Nat /\ x.high \in Nat /\ x.close \in Nat /\ x.low <= x.close /\ x.close <= x.high
      /\ y.low \in Nat /\ y.high \in Nat /\ y.close \in Nat /\ y.low <= y.close /\ y.close <= y.high
      /\ c.close \in Nat /\ x.time \in Nat /\ y.time \in Nat
  BY CandleTypes
<1>5. Tol \in Nat
  BY Configured
<1>6. l.at >= h.at /\ l.at < h.confirmed => y.high <= h.price
  BY <1>1, <1>3 DEF SwingEarned
<1>7. h.at >= l.at /\ h.at < l.confirmed => x.low >= l.price
  BY <1>1, <1>2 DEF SwingEarned
<1>8. l.at >= h.confirmed => ~(y.close > h.price + Tol)
  BY <1>1, <1>3 DEF SwingEarned, Crossed
<1>9. h.at >= l.confirmed => ~(x.close < l.price - Tol)
  BY <1>1, <1>2 DEF SwingEarned, Crossed
<1>10. l.price <= h.price + Tol
  BY <1>1, <1>2, <1>3, <1>4, <1>5, <1>6, <1>7, <1>8, <1>9
<1>. QED  BY <1>1, <1>4, <1>5, <1>10 DEF Crossed

\* Whether a candle breaks a side, and what then changes (engine.py _breaks):
\* the swing is broken, and the trend goes on, turns, is warned of or begins.
Breaking(st, side, c) == Unbroken(st, side) /\ Crossed(st.latest[side], c)

Broke(u, t, c, side) ==
  LET event(kind, d) == EventOf(u, kind, side, Toward(side), c, d)
  IN \/ \E d \in BOOLEAN : t.events = Append(u.events, event("BOS", d))
        /\ t.trend = u.trend /\ u.trend[side[1]] = Toward(side)
     \/ /\ t.events = Append(Append(u.events, event("CHOCH", TRUE)), event("MSS", TRUE))
        /\ t.trend = [u.trend EXCEPT ![side[1]] = Toward(side)]
     \/ \E d \in BOOLEAN : t.events = Append(u.events, event("CHOCH", d))
        /\ t.trend = [u.trend EXCEPT ![side[1]] = "NEUTRAL"]
     \/ t.events = u.events /\ t.trend = [u.trend EXCEPT ![side[1]] = Toward(side)]

\* A break of one side, field by field.
LEMMA BreakSideDoes ==
    ASSUME NEW u \in Engine, NEW c \in Candle, NEW side \in ToSet(Sides)
    PROVE  LET t == BreakSide(u, c, side)
           IN /\ t \in Engine /\ t.bars = u.bars /\ t.latest = u.latest
              /\ ~Breaking(u, side, c) => t = u
              /\ Breaking(u, side, c) =>
                   /\ t.broken = [u.broken EXCEPT ![side] = u.latest[side]]
                   /\ Broke(u, t, c, side)
<1>. DEFINE direction == Toward(side)
            old == u.trend[side[1]]
            displaced == Displacement(u, c, direction)
            marked == [u EXCEPT !.broken[side] = u.latest[side]]
            warned == Record(marked, "CHOCH", side, direction, c, displaced)
            mss == Record(warned, "MSS", side, direction, c, TRUE)
            bos == Record(marked, "BOS", side, direction, c, displaced)
            toward(t, trend) == [t EXCEPT !.trend[side[1]] = trend]
            t == BreakSide(u, c, side)
            event(kind, d) == EventOf(u, kind, side, direction, c, d)
<1>1. /\ direction \in Direction /\ displaced \in BOOLEAN
      /\ direction \in Direction \cup {"UNKNOWN", "NEUTRAL"}
      /\ "NEUTRAL" \in Direction \cup {"UNKNOWN", "NEUTRAL"}
  BY TwoSides DEF Displacement
<1>2. t = IF ~Unbroken(u, side) THEN u
          ELSE IF ~Crossed(u.latest[side], c) THEN u
          ELSE IF old = direction THEN bos
          ELSE IF old = Opposite(direction) /\ displaced THEN toward(mss, direction)
          ELSE IF old = Opposite(direction) THEN toward(warned, "NEUTRAL")
          ELSE toward(marked, direction)
  BY DEF BreakSide, Toward
<1>3. Grows(u, t, c)
  BY BreakSideIs
<1>4. t \in Engine /\ t.bars = u.bars
  BY <1>3 DEF Grows
<1>. HIDE DEF t, direction, displaced
<1>5. CASE ~Breaking(u, side, c)
  <2>1. t = u
    BY <1>2, <1>5 DEF Breaking
  <2>. QED  BY <1>4, <1>5, <2>1 DEF t
<1>6. CASE Breaking(u, side, c)
  <2>1. u.latest[side] # Nothing
    BY <1>6 DEF Breaking, Unbroken
  <2>2. /\ Grows(u, marked, c) /\ marked.events = u.events /\ marked.latest = u.latest
        /\ marked.trend = u.trend /\ marked.broken = [u.broken EXCEPT ![side] = u.latest[side]]
    BY EngineChanges
  <2>3. \/ t = bos /\ old = direction
        \/ t = toward(mss, direction) /\ displaced
        \/ t = toward(warned, "NEUTRAL")
        \/ t = toward(marked, direction)
    <3>. HIDE DEF old, marked, warned, mss, bos, toward
    <3>. QED  BY <1>2, <1>6 DEF Breaking
  <2>. HIDE DEF marked
  <2>4. marked \in Engine
    BY <2>2 DEF Grows
  <2>5. \A kind, d : EventOf(marked, kind, side, direction, c, d) = event(kind, d)
    BY <2>2 DEF EventOf
  <2>. HIDE DEF event
  <2>6. /\ bos.events = Append(marked.events, EventOf(marked, "BOS", side, direction, c, displaced))
        /\ bos.latest = marked.latest /\ bos.broken = marked.broken /\ bos.trend = marked.trend
    BY <1>1, <2>1, <2>2, <2>4, RecordIs
  <2>7. /\ Grows(marked, warned, c)
        /\ warned.events
             = Append(marked.events, EventOf(marked, "CHOCH", side, direction, c, displaced))
        /\ warned.latest = marked.latest /\ warned.broken = marked.broken
        /\ warned.trend = marked.trend
    BY <1>1, <2>1, <2>2, <2>4, RecordIs
  <2>. HIDE DEF warned, bos
  <2>8. warned \in Engine
    BY <2>7 DEF Grows
  <2>9. EventOf(warned, "MSS", side, direction, c, TRUE) = event("MSS", TRUE)
    BY <2>2, <2>7 DEF EventOf, event
  <2>10. /\ Grows(warned, mss, c)
         /\ mss.events = Append(warned.events, EventOf(warned, "MSS", side, direction, c, TRUE))
         /\ mss.latest = warned.latest /\ mss.broken = warned.broken
         /\ mss.trend = warned.trend
    <3>1. TRUE \in BOOLEAN /\ "MSS" \in {"BOS", "CHOCH", "MSS"} /\ warned.latest[side] # Nothing
      BY <2>1, <2>2, <2>7
    <3>2. \A d \in BOOLEAN :
            LET r == Record(warned, "MSS", side, direction, c, d)
            IN /\ Grows(warned, r, c)
               /\ r.events = Append(warned.events, EventOf(warned, "MSS", side, direction, c, d))
               /\ r.latest = warned.latest /\ r.broken = warned.broken /\ r.trend = warned.trend
      BY <1>1, <2>8, <3>1, RecordIs
    <3>. QED  BY <3>1, <3>2, Zenon
  <2>. HIDE DEF mss
  <2>11. mss \in Engine
    BY <2>10 DEF Grows
  <2>12. \A s \in Engine, trend \in Direction \cup {"UNKNOWN", "NEUTRAL"} :
           /\ toward(s, trend).events = s.events /\ toward(s, trend).latest = s.latest
           /\ toward(s, trend).broken = s.broken
           /\ toward(s, trend).trend = [s.trend EXCEPT ![side[1]] = trend]
    BY EngineChanges
  <2>. HIDE DEF toward
  <2>. DEFINE done(r) == /\ r.latest = u.latest
                         /\ r.broken = [u.broken EXCEPT ![side] = u.latest[side]]
  <2>13. CASE t = bos /\ old = direction
    <3>1. /\ done(bos) /\ bos.events = Append(u.events, event("BOS", displaced))
          /\ bos.trend = u.trend
      BY <2>2, <2>5, <2>6
    <3>2. done(t) /\ Broke(u, t, c, side)
      BY <1>1, <2>13, <3>1 DEF Broke, event, direction
    <3>. QED  BY <1>4, <1>6, <3>2 DEF t
  <2>14. CASE t = toward(mss, direction) /\ displaced
    <3>1. /\ done(t) /\ t.trend = [u.trend EXCEPT ![side[1]] = direction]
      BY <1>1, <2>2, <2>7, <2>10, <2>11, <2>12, <2>14
    <3>2. t.events = mss.events
      BY <1>1, <2>11, <2>12, <2>14
    <3>3. mss.events = Append(warned.events, event("MSS", TRUE))
      BY <2>9, <2>10
    <3>4. warned.events = Append(u.events, event("CHOCH", TRUE))
      BY <1>1, <2>2, <2>5, <2>7, <2>14
    <3>5. t.events = Append(Append(u.events, event("CHOCH", TRUE)), event("MSS", TRUE))
      BY <3>2, <3>3, <3>4
    <3>6. Broke(u, t, c, side)
      BY <3>1, <3>5 DEF Broke, event, direction
    <3>. QED  BY <1>4, <1>6, <3>1, <3>6 DEF t
  <2>15. CASE t = toward(warned, "NEUTRAL")
    <3>1. /\ done(t) /\ t.trend = [u.trend EXCEPT ![side[1]] = "NEUTRAL"]
      BY <1>1, <2>2, <2>7, <2>8, <2>12, <2>15
    <3>2. t.events = Append(u.events, event("CHOCH", displaced))
      <4>1. t.events = warned.events
        BY <1>1, <2>8, <2>12, <2>15
      <4>2. warned.events = Append(u.events, EventOf(marked, "CHOCH", side, direction, c, displaced))
        BY <2>2, <2>7
      <4>. QED  BY <2>5, <4>1, <4>2
    <3>3. Broke(u, t, c, side)
      BY <1>1, <3>1, <3>2 DEF Broke, event, direction
    <3>. QED  BY <1>4, <1>6, <3>1, <3>3 DEF t
  <2>16. CASE t = toward(marked, direction)
    <3>1. /\ done(t) /\ t.trend = [u.trend EXCEPT ![side[1]] = direction]
          /\ t.events = u.events
      BY <1>1, <2>2, <2>4, <2>12, <2>16
    <3>2. Broke(u, t, c, side)
      BY <3>1 DEF Broke, direction
    <3>. QED  BY <1>4, <1>6, <3>1, <3>2 DEF t
  <2>. QED  BY <2>3, <2>13, <2>14, <2>15, <2>16
<1>. QED  BY <1>5, <1>6

-----------------------------------------------------------------------------
(* Events in sequence *)

\* An event may follow if it is no MSS, or its CHOCH comes last.
LEMMA ChainGrows ==
    ASSUME NEW es \in Seq(StructureEvent), Chained(es), NEW e \in StructureEvent,
           e.kind = "MSS" => /\ e.displaced /\ Len(es) >= 1 /\ es[Len(es)].kind = "CHOCH"
                             /\ es[Len(es)].swing = e.swing
    PROVE  Chained(Append(es, e))
<1>. DEFINE u == Append(es, e)
            n == Len(es)
<1>1. /\ n \in Nat /\ Len(u) = n + 1 /\ u[n + 1] = e /\ \A i \in 1..n : u[i] = es[i]
  BY AppendIs
<1>. HIDE DEF u, n
<1>2. ASSUME NEW i \in 1..Len(u), u[i].kind = "MSS"
      PROVE  /\ u[i].displaced
             /\ IF i = 1 THEN Len(u) >= MaxObjects
                ELSE u[i - 1].kind = "CHOCH" /\ u[i - 1].swing = u[i].swing
  <2>1. CASE i = n + 1
    <3>1. e.displaced /\ n >= 1 /\ es[n].kind = "CHOCH" /\ es[n].swing = e.swing
      BY <1>1, <1>2, <2>1 DEF n
    <3>2. n \in 1..n /\ i - 1 = n /\ i # 1
      BY <1>1, <2>1, <3>1
    <3>3. u[i - 1] = es[n] /\ u[i] = e
      BY <1>1, <2>1, <3>2
    <3>. QED  BY <3>1, <3>2, <3>3
  <2>2. CASE i # n + 1
    <3>1. i \in 1..n
      BY <1>1, <2>2
    <3>2. /\ es[i].displaced
          /\ IF i = 1 THEN n >= MaxObjects
             ELSE es[i - 1].kind = "CHOCH" /\ es[i - 1].swing = es[i].swing
      BY <1>1, <1>2, <3>1 DEF Chained, n
    <3>3. CASE i = 1
      BY <1>1, <3>1, <3>2, <3>3, Configured
    <3>4. CASE i # 1
      <4>1. i - 1 \in 1..n
        BY <1>1, <3>1, <3>4
      <4>. QED  BY <1>1, <3>1, <3>2, <3>4, <4>1
    <3>. QED  BY <3>3, <3>4
  <2>. QED  BY <2>1, <2>2
<1>. QED  BY <1>2 DEF Chained, u

\* The cap keeps the order, and may separate only the oldest from the one before.
LEMMA ChainCapped ==
    ASSUME NEW es \in Seq(StructureEvent), Chained(es)
    PROVE  Chained(LastN(es, MaxObjects))
<1>. DEFINE u == LastN(es, MaxObjects)
            k == Len(es) - Len(u)
<1>1. MaxObjects \in Nat /\ MaxObjects >= 1 /\ Len(es) \in Nat
  BY Configured
<1>2. /\ Len(u) = IF Len(es) > MaxObjects THEN MaxObjects ELSE Len(es)
      /\ \A i \in 1..Len(u) : u[i] = es[i + k]
  <2>1. \A i \in 1..Len(u) : i + Len(es) - Len(u) = i + k
    BY <1>1, LastNIs
  <2>. QED  BY <1>1, <2>1, LastNIs
<1>. HIDE DEF u
<1>3. k \in Nat /\ Len(u) \in Nat /\ Len(es) = Len(u) + k /\ (k > 0 => Len(u) = MaxObjects)
  BY <1>1, <1>2
<1>. HIDE DEF k
<1>4. ASSUME NEW i \in 1..Len(u), u[i].kind = "MSS"
      PROVE  /\ u[i].displaced
             /\ IF i = 1 THEN Len(u) >= MaxObjects
                ELSE u[i - 1].kind = "CHOCH" /\ u[i - 1].swing = u[i].swing
  <2>. DEFINE j == i + k
  <2>1. j \in 1..Len(es) /\ u[i] = es[j] /\ (j = 1 => i = 1)
    BY <1>2, <1>3
  <2>2. i # 1 => i - 1 \in 1..Len(u) /\ (i - 1) + k = j - 1 /\ j # 1
    BY <1>3
  <2>. HIDE DEF j
  <2>3. i # 1 => u[i - 1] = es[j - 1]
    BY <1>2, <2>2
  <2>4. /\ es[j].displaced
        /\ IF j = 1 THEN Len(es) >= MaxObjects
           ELSE es[j - 1].kind = "CHOCH" /\ es[j - 1].swing = es[j].swing
    BY <1>4, <2>1, Zenon DEF Chained
  <2>5. i = 1 => Len(u) >= MaxObjects
    <3>1. j = 1 => Len(es) >= MaxObjects
      BY <2>4
    <3>2. j > 1 => k > 0 \/ i > 1
      BY <1>3 DEF j
    <3>3. j \in Nat /\ j >= 1
      BY <1>1, <2>1
    <3>. QED  BY <1>1, <1>2, <1>3, <3>1, <3>2, <3>3
  <2>. QED  BY <2>1, <2>2, <2>3, <2>4, <2>5, Zenon
<1>. QED  BY <1>4 DEF Chained, u

\* A new event that its scope does not trend against speaks for the trend.
LEMMA TrendGrows ==
    ASSUME NEW es \in Seq(StructureEvent), NEW e \in StructureEvent,
           NEW latest, NEW broken, NEW trend, NEW after, NEW cs,
           TrendEarned(latest, broken, trend, es, cs),
           \A i \in 1..Len(es) : es[i].scope # e.scope => after[es[i].scope] = trend[es[i].scope],
           after[e.scope] # Opposite(e.direction)
    PROVE  TrendEarned(latest, broken, after, Append(es, e), cs)
<1>. DEFINE u == Append(es, e)
            n == Len(es)
<1>1. /\ n \in Nat /\ Len(u) = n + 1 /\ u[n + 1] = e /\ \A i \in 1..n : u[i] = es[i]
  BY AppendIs
<1>. HIDE DEF u
<1>2. ASSUME NEW i \in 1..Len(u), LastOfScope(u, i),
             after[u[i].scope] = Opposite(u[i].direction)
      PROVE  Turned(latest, broken, cs, u[i])
  <2>1. i # n + 1
    BY <1>1, <1>2
  <2>2. i \in 1..n /\ u[i] = es[i]
    BY <1>1, <2>1
  <2>3. es[i].scope # e.scope
    <3>1. n + 1 \in i + 1..Len(u)
      BY <1>1, <2>2
    <3>. QED  BY <1>1, <1>2, <2>2, <3>1 DEF LastOfScope
  <2>4. LastOfScope(es, i)
    <3>1. \A j \in i + 1..n : j \in i + 1..Len(u) /\ u[j] = es[j]
      BY <1>1, <2>2
    <3>. QED  BY <1>2, <2>2, <3>1 DEF LastOfScope
  <2>5. trend[es[i].scope] = Opposite(es[i].direction)
    BY <1>2, <2>2, <2>3
  <2>. QED  BY <2>2, <2>4, <2>5 DEF TrendEarned
<1>. QED  BY <1>2 DEF TrendEarned, u

\* The cap keeps the last event of a scope if it keeps any of it.
LEMMA TrendCapped ==
    ASSUME NEW es \in Seq(StructureEvent), NEW latest, NEW broken, NEW trend, NEW cs,
           TrendEarned(latest, broken, trend, es, cs)
    PROVE  TrendEarned(latest, broken, trend, LastN(es, MaxObjects), cs)
<1>. DEFINE u == LastN(es, MaxObjects)
            k == Len(es) - Len(u)
<1>1. MaxObjects \in Nat /\ MaxObjects >= 1 /\ Len(es) \in Nat
  BY Configured
<1>2. /\ Len(u) = IF Len(es) > MaxObjects THEN MaxObjects ELSE Len(es)
      /\ \A i \in 1..Len(u) : u[i] = es[i + k]
  <2>1. \A i \in 1..Len(u) : i + Len(es) - Len(u) = i + k
    BY <1>1, LastNIs
  <2>. QED  BY <1>1, <2>1, LastNIs
<1>. HIDE DEF u
<1>3. k \in Nat /\ Len(u) \in Nat /\ Len(es) = Len(u) + k
  BY <1>1, <1>2
<1>. HIDE DEF k
<1>4. ASSUME NEW i \in 1..Len(u), LastOfScope(u, i),
             trend[u[i].scope] = Opposite(u[i].direction)
      PROVE  Turned(latest, broken, cs, u[i])
  <2>1. i + k \in 1..Len(es) /\ u[i] = es[i + k]
    BY <1>2, <1>3
  <2>2. ASSUME NEW j \in i + k + 1..Len(es)
        PROVE  es[j].scope # es[i + k].scope
    <3>1. j - k \in i + 1..Len(u) /\ j - k \in 1..Len(u) /\ (j - k) + k = j
      BY <1>3
    <3>2. u[j - k] = es[j]
      BY <1>2, <3>1
    <3>. QED  BY <1>4, <2>1, <3>1, <3>2 DEF LastOfScope
  <2>3. LastOfScope(es, i + k)
    BY <2>2 DEF LastOfScope
  <2>. QED  BY <1>4, <2>1, <2>3 DEF TrendEarned
<1>. QED  BY <1>4 DEF TrendEarned, u

-----------------------------------------------------------------------------
(* What a candle breaks *)

\* A candle that opens after all of these have closed.
Comes(cs, now, c) ==
  cs \in SUBSET Candle /\ now \in Nat /\ now <= c.time /\ \A x \in cs : x.time < c.time

\* An event of this candle.
NewBreak(s, side, c, e) ==
  /\ Breaking(s, side, c)
  /\ e.scope = side[1] /\ e.swing = s.latest[side] /\ e.direction = Toward(side)
  /\ e.at = c.time /\ e.confirmed = End(c)

\* Between the breaks of one candle: some sides are done, the others as they were.
Breached(s, u, c, done, cs) ==
  /\ u \in Engine /\ u.bars = s.bars /\ u.latest = s.latest
  /\ \A side \in ToSet(Sides) :
       u.broken[side] = IF side \in done /\ Breaking(s, side, c) THEN s.latest[side]
                        ELSE s.broken[side]
  /\ \A e \in ToSet(u.events) :
       e \in ToSet(s.events) \/ \E side \in done : NewBreak(s, side, c, e)
  /\ Chained(u.events)
  /\ TrendEarned(u.latest, u.broken, u.trend, u.events, cs \cup {c})

\* A candle breaks at most one side of a scope.
LEMMA BreaksOneSide ==
    ASSUME NEW s \in Engine, NEW c \in Candle, NEW cs, NEW now,
           Comes(cs, now, c), Earned(s, cs, now), NEW side \in ToSet(Sides)
    PROVE  ~(Breaking(s, side, c) /\ Breaking(s, Other(side), c))
<1>1. ASSUME NEW scope \in ToSet(Scopes),
             Breaking(s, << scope, "HIGH" >>, c), Breaking(s, << scope, "LOW" >>, c)
      PROVE  FALSE
  <2>. DEFINE high == << scope, "HIGH" >>
              low == << scope, "LOW" >>
  <2>1. high \in ToSet(Sides) /\ low \in ToSet(Sides)
    BY SidesAre
  <2>. HIDE DEF high, low
  <2>2. /\ s.latest[high] # Nothing /\ s.latest[low] # Nothing
        /\ s.broken[high] # s.latest[high] /\ s.broken[low] # s.latest[low]
        /\ Crossed(s.latest[high], c) /\ Crossed(s.latest[low], c)
    BY <1>1 DEF Breaking, Unbroken, high, low
  <2>3. s.latest[high] \in PricedSwing /\ s.latest[low] \in PricedSwing
    BY <2>1, <2>2, EngineTypes
  <2>4. /\ SwingEarned(s.latest[high], s.broken[high], high, cs, now)
        /\ SwingEarned(s.latest[low], s.broken[low], low, cs, now)
    BY <2>1, <2>2 DEF Earned
  <2>5. cs \in SUBSET Candle /\ now \in Nat
    BY DEF Comes
  <2>. QED  BY <2>2, <2>3, <2>4, <2>5, OneSided DEF high, low
<1>2. \E scope \in ToSet(Scopes) : {side, Other(side)} = {<<scope, "HIGH">>, <<scope, "LOW">>}
  BY SidesAre, TwoSides DEF Other
<1>. QED  BY <1>1, <1>2

\* So the events of the scope of a side that breaks are older.
LEMMA EarlierEvents ==
    ASSUME NEW s \in Engine, NEW c \in Candle, NEW cs, NEW now,
           Comes(cs, now, c), Earned(s, cs, now),
           NEW done \in SUBSET ToSet(Sides), NEW u, Breached(s, u, c, done, cs),
           NEW side \in ToSet(Sides), side \notin done, Breaking(s, side, c),
           NEW e \in ToSet(u.events), e.scope = side[1]
    PROVE  e \in ToSet(s.events)
<1>1. SUFFICES ASSUME NEW t \in done, NewBreak(s, t, c, e)
               PROVE  FALSE
  BY DEF Breached
<1>2. t \in ToSet(Sides) /\ t[1] = side[1] /\ t # side /\ Breaking(s, t, c)
  BY <1>1 DEF NewBreak
<1>3. t = Other(side)
  BY <1>2, TwoSides
<1>. QED  BY <1>2, <1>3, BreaksOneSide

\* What an event says of its sides.
LEMMA EventSides ==
    ASSUME NEW e \in StructureEvent
    PROVE  /\ SideOf(e) \in ToSet(Sides) /\ Other(SideOf(e)) \in ToSet(Sides)
           /\ SideOf(e)[1] = e.scope /\ Other(SideOf(e))[1] = e.scope
           /\ Other(SideOf(e)) = <<e.scope, IF e.swing.kind = "HIGH" THEN "LOW" ELSE "HIGH">>
           /\ e.at \in Nat /\ e.confirmed \in Nat /\ e.swing \in SwingPoint
           /\ e.swing.confirmed \in Nat
<1>1. e.scope \in ToSet(Scopes) /\ e.swing \in SwingPoint /\ e.at \in Nat /\ e.confirmed \in Nat
  BY DEF StructureEvent
<1>2. e.swing.kind \in {"HIGH", "LOW"} /\ e.swing.confirmed \in Nat
  BY <1>1 DEF SwingPoint
<1>3. SideOf(e) \in ToSet(Sides) /\ SideOf(e)[1] = e.scope
  BY <1>1, <1>2, SidesAre DEF SideOf
<1>4. Other(SideOf(e)) = <<e.scope, IF e.swing.kind = "HIGH" THEN "LOW" ELSE "HIGH">>
  BY DEF Other, SideOf
<1>. QED  BY <1>1, <1>2, <1>3, <1>4, TwoSides

\* A break of the other side turns a scope, too.
LEMMA TurnedStays ==
    ASSUME NEW s \in Engine, NEW c \in Candle, NEW cs, NEW now,
           Comes(cs, now, c), Earned(s, cs, now),
           NEW done \in SUBSET ToSet(Sides), NEW u, Breached(s, u, c, done, cs),
           NEW side \in ToSet(Sides), side \notin done, Breaking(s, side, c),
           NEW e \in ToSet(u.events),
           Turned(u.latest, u.broken, cs \cup {c}, e) \/ Other(SideOf(e)) = side
    PROVE  Turned(u.latest, [u.broken EXCEPT ![side] = u.latest[side]], cs \cup {c}, e)
<1>. DEFINE b == [u.broken EXCEPT ![side] = u.latest[side]]
            o == Other(SideOf(e))
<1>1. u \in Engine /\ u.latest = s.latest /\ e \in StructureEvent
  <2>1. u \in Engine /\ u.latest = s.latest
    BY DEF Breached
  <2>. QED  BY <2>1, EngineTypes, ToSetOf
<1>2. /\ o \in ToSet(Sides) /\ o[1] = e.scope
      /\ o = <<e.scope, IF e.swing.kind = "HIGH" THEN "LOW" ELSE "HIGH">>
      /\ e.confirmed \in Nat
  BY <1>1, EventSides
<1>3. u.broken \in [ToSet(Sides) -> PricedSwing \cup {Nothing}]
  BY <1>1, EngineTypes
<1>4. CASE o # side
  <2>1. b[o] = u.broken[o]
    BY <1>2, <1>3, <1>4
  <2>. HIDE DEF b
  <2>2. Turned(u.latest, b, cs \cup {c}, e)
    BY <1>2, <1>4, <2>1 DEF Turned
  <2>. QED  BY <2>2 DEF b
<1>5. CASE o = side
  <2>1. e \in ToSet(s.events)
    BY <1>2, <1>5, EarlierEvents
  <2>2. e.confirmed <= now /\ now \in Nat /\ now <= c.time /\ c.time \in Nat
    BY <2>1, CandleTypes DEF Earned, EventEarned, Comes
  <2>3. b[side] = s.latest[side] /\ s.latest[side] # Nothing /\ Crossed(s.latest[side], c)
    BY <1>1, <1>3 DEF Breaking, Unbroken
  <2>4. s.latest[side].confirmed <= now
    BY <2>3 DEF Earned, SwingEarned
  <2>5. s.latest[side].confirmed \in Nat
    BY <2>3, EngineTypes DEF PricedSwing, SwingPoint
  <2>6. e.confirmed <= c.time /\ s.latest[side].confirmed <= c.time
    BY <1>2, <2>2, <2>4, <2>5
  <2>. HIDE DEF b
  <2>7. Turned(u.latest, b, cs \cup {c}, e)
    BY <1>2, <1>5, <2>3, <2>6 DEF Turned
  <2>. QED  BY <2>7 DEF b
<1>. QED  BY <1>4, <1>5

\* The event of a break.
LEMMA NewEventIs ==
    ASSUME NEW s \in Engine, NEW u \in Engine, u.latest = s.latest, NEW c \in Candle,
           NEW side \in ToSet(Sides), Breaking(s, side, c),
           NEW kind \in {"BOS", "CHOCH", "MSS"}, NEW d \in BOOLEAN
    PROVE  LET e == EventOf(u, kind, side, Toward(side), c, d)
           IN /\ e \in StructureEvent /\ NewBreak(s, side, c, e)
              /\ e.kind = kind /\ e.displaced = d /\ e.swing = s.latest[side]
              /\ e.scope = side[1] /\ e.direction = Toward(side)
<1>1. u.latest[side] # Nothing
  BY DEF Breaking, Unbroken
<1>2. Toward(side) \in Direction
  BY TwoSides
<1>3. EventOf(u, kind, side, Toward(side), c, d) \in StructureEvent
  BY <1>1, <1>2, RecordIs
<1>. QED  BY <1>3 DEF EventOf, NewBreak

\* The break of one more side.
LEMMA BreakStep ==
    ASSUME NEW s \in Engine, NEW c \in Candle, NEW cs, NEW now,
           Comes(cs, now, c), Earned(s, cs, now),
           NEW done \in SUBSET ToSet(Sides), NEW u, Breached(s, u, c, done, cs),
           NEW side \in ToSet(Sides), side \notin done
    PROVE  Breached(s, BreakSide(u, c, side), c, done \cup {side}, cs)
<1>. DEFINE t == BreakSide(u, c, side)
            X == cs \cup {c}
            b == [u.broken EXCEPT ![side] = u.latest[side]]
            E(kind, d) == EventOf(u, kind, side, Toward(side), c, d)
<1>1. /\ u \in Engine /\ u.bars = s.bars /\ u.latest = s.latest
      /\ u.broken[side] = s.broken[side]
      /\ Chained(u.events) /\ TrendEarned(u.latest, u.broken, u.trend, u.events, X)
  BY DEF Breached
<1>2. Breaking(u, side, c) <=> Breaking(s, side, c)
  BY <1>1 DEF Breaking, Unbroken
<1>3. /\ t \in Engine /\ t.bars = u.bars /\ t.latest = u.latest
      /\ ~Breaking(u, side, c) => t = u
      /\ Breaking(u, side, c) => t.broken = b /\ Broke(u, t, c, side)
  BY <1>1, BreakSideDoes
<1>. HIDE DEF t
<1>4. CASE ~Breaking(s, side, c)
  <2>1. t = u
    BY <1>2, <1>3, <1>4
  <2>2. \A z \in ToSet(Sides) :
          u.broken[z] = IF z \in done \cup {side} /\ Breaking(s, z, c) THEN s.latest[z]
                        ELSE s.broken[z]
    BY <1>4 DEF Breached
  <2>3. \A e \in ToSet(u.events) :
          e \in ToSet(s.events) \/ \E z \in done \cup {side} : NewBreak(s, z, c, e)
    BY DEF Breached
  <2>4. Breached(s, u, c, done \cup {side}, cs)
    BY <1>1, <2>2, <2>3 DEF Breached
  <2>. QED  BY <2>1, <2>4 DEF t
<1>5. CASE Breaking(s, side, c)
  <2>1. t.broken = b /\ Broke(u, t, c, side)
    BY <1>2, <1>3, <1>5
  <2>2. \A z \in ToSet(Sides) :
          t.broken[z] = IF z \in done \cup {side} /\ Breaking(s, z, c) THEN s.latest[z]
                        ELSE s.broken[z]
    <3>1. u.broken \in [ToSet(Sides) -> PricedSwing \cup {Nothing}]
      BY <1>1, EngineTypes
    <3>2. b[side] = s.latest[side] /\ \A z \in ToSet(Sides) : z # side => b[z] = u.broken[z]
      BY <1>1, <3>1
    <3>. HIDE DEF b
    <3>. QED  BY <1>5, <2>1, <3>2 DEF Breached
  <2>3. u.events \in Seq(StructureEvent) /\ u.trend \in [ToSet(Scopes) -> Direction \cup {"UNKNOWN", "NEUTRAL"}]
    BY <1>1, EngineTypes
  <2>4. \A kind \in {"BOS", "CHOCH", "MSS"}, d \in BOOLEAN :
          /\ E(kind, d) \in StructureEvent /\ NewBreak(s, side, c, E(kind, d))
          /\ E(kind, d).kind = kind /\ E(kind, d).displaced = d
          /\ E(kind, d).swing = s.latest[side]
          /\ E(kind, d).scope = side[1] /\ E(kind, d).direction = Toward(side)
    BY <1>1, <1>5, NewEventIs
  <2>5. \A es \in Seq(StructureEvent), e \in StructureEvent :
          Append(es, e) \in Seq(StructureEvent) /\ ToSet(Append(es, e)) = ToSet(es) \cup {e}
    BY AppendIs
  <2>6. /\ Toward(side) \in Direction /\ Toward(side) # Opposite(Toward(side))
        /\ "NEUTRAL" # Opposite(Toward(side)) /\ side[1] \in ToSet(Scopes)
    BY TwoSides
  <2>7. TrendEarned(u.latest, b, u.trend, u.events, X)
    <3>1. ASSUME NEW i \in 1..Len(u.events), LastOfScope(u.events, i),
                 u.trend[u.events[i].scope] = Opposite(u.events[i].direction)
          PROVE  Turned(u.latest, b, X, u.events[i])
      <4>1. Turned(u.latest, u.broken, X, u.events[i])
        BY <1>1, <3>1 DEF TrendEarned
      <4>2. u.events[i] \in ToSet(u.events)
        BY <2>3, ToSetOf
      <4>. QED  BY <1>5, <4>1, <4>2, TurnedStays
    <3>. QED  BY <3>1 DEF TrendEarned
  <2>. HIDE DEF b
  <2>8. \A trend \in Direction \cup {"NEUTRAL"} :
          t.trend = [u.trend EXCEPT ![side[1]] = trend] =>
            /\ t.trend[side[1]] = trend
            /\ \A scope \in ToSet(Scopes) : scope # side[1] => t.trend[scope] = u.trend[scope]
    BY <2>3, <2>6
  <2>9. \A i \in 1..Len(u.events) : u.events[i] \in StructureEvent /\ u.events[i].scope \in ToSet(Scopes)
    <3>1. \A i \in 1..Len(u.events) : u.events[i] \in StructureEvent
      BY <2>3
    <3>2. \A e \in StructureEvent : e.scope \in ToSet(Scopes)
      BY DEF StructureEvent
    <3>. QED  BY <3>1, <3>2
  <2>. DEFINE Held == /\ \A e \in ToSet(t.events) :
                           e \in ToSet(u.events) \/ NewBreak(s, side, c, e)
                      /\ Chained(t.events)
                      /\ TrendEarned(u.latest, b, t.trend, t.events, X)
  <2>10. ASSUME NEW d \in BOOLEAN, t.events = Append(u.events, E("BOS", d)),
                t.trend = u.trend, u.trend[side[1]] = Toward(side)
         PROVE  Held
    <3>. DEFINE e == E("BOS", d)
    <3>1. /\ e \in StructureEvent /\ NewBreak(s, side, c, e) /\ e.kind = "BOS"
          /\ e.scope = side[1] /\ e.direction = Toward(side)
      BY <2>4
    <3>. HIDE DEF E, e
    <3>2. t.events = Append(u.events, e)
      BY <2>10 DEF e
    <3>3. Chained(Append(u.events, e))
      BY <1>1, <2>3, <3>1, ChainGrows
    <3>4. u.trend[e.scope] # Opposite(e.direction)
      BY <2>6, <2>10, <3>1
    <3>5. TrendEarned(u.latest, b, u.trend, Append(u.events, e), X)
      <4>. HIDE DEF X
      <4>. QED  BY <2>3, <2>7, <3>1, <3>4, TrendGrows
    <3>. QED  BY <2>3, <2>5, <2>10, <3>1, <3>2, <3>3, <3>5
  <2>11. ASSUME NEW d \in BOOLEAN, t.events = Append(u.events, E("CHOCH", d)),
                t.trend = [u.trend EXCEPT ![side[1]] = "NEUTRAL"]
         PROVE  Held
    <3>. DEFINE e == E("CHOCH", d)
    <3>1. /\ e \in StructureEvent /\ NewBreak(s, side, c, e) /\ e.kind = "CHOCH"
          /\ e.scope = side[1] /\ e.direction = Toward(side)
      BY <2>4
    <3>. HIDE DEF E, e
    <3>2. t.events = Append(u.events, e)
      BY <2>11 DEF e
    <3>3. Chained(Append(u.events, e))
      BY <1>1, <2>3, <3>1, ChainGrows
    <3>4. /\ t.trend[side[1]] = "NEUTRAL"
          /\ \A scope \in ToSet(Scopes) : scope # side[1] => t.trend[scope] = u.trend[scope]
      <4>1. "NEUTRAL" \in Direction \cup {"NEUTRAL"}
        OBVIOUS
      <4>. QED  BY <2>8, <2>11, <4>1
    <3>5. /\ t.trend[e.scope] # Opposite(e.direction)
          /\ \A i \in 1..Len(u.events) : u.events[i].scope # e.scope =>
               t.trend[u.events[i].scope] = u.trend[u.events[i].scope]
      BY <2>6, <2>9, <3>1, <3>4
    <3>6. TrendEarned(u.latest, b, t.trend, Append(u.events, e), X)
      <4>. HIDE DEF X
      <4>. QED  BY <2>3, <2>7, <3>1, <3>5, TrendGrows
    <3>. QED  BY <2>3, <2>5, <3>1, <3>2, <3>3, <3>6
  <2>12. ASSUME t.events = Append(Append(u.events, E("CHOCH", TRUE)), E("MSS", TRUE)),
                t.trend = [u.trend EXCEPT ![side[1]] = Toward(side)]
         PROVE  Held
    <3>. DEFINE e == E("CHOCH", TRUE)
                f == E("MSS", TRUE)
                es == Append(u.events, e)
    <3>1. /\ e \in StructureEvent /\ NewBreak(s, side, c, e) /\ e.kind = "CHOCH"
          /\ e.scope = side[1] /\ e.direction = Toward(side) /\ e.swing = s.latest[side]
      BY <2>4
    <3>2. /\ f \in StructureEvent /\ NewBreak(s, side, c, f) /\ f.kind = "MSS"
          /\ f.scope = side[1] /\ f.direction = Toward(side) /\ f.swing = s.latest[side]
      BY <2>4
    <3>3. f.displaced
      <4>1. f.displaced = TRUE
        BY <2>4, Zenon
      <4>. QED  BY <4>1
    <3>. HIDE DEF E, e, f
    <3>4. t.events = Append(es, f)
      BY <2>12 DEF e, f
    <3>5. Chained(es)
      BY <1>1, <2>3, <3>1, ChainGrows
    <3>6. es \in Seq(StructureEvent) /\ Len(es) >= 1 /\ es[Len(es)] = e
          /\ ToSet(es) = ToSet(u.events) \cup {e}
      BY <2>3, <3>1, AppendIs
    <3>7. /\ t.trend[side[1]] = Toward(side)
          /\ \A scope \in ToSet(Scopes) : scope # side[1] => t.trend[scope] = u.trend[scope]
      BY <2>6, <2>8, <2>12
    <3>8. /\ t.trend[e.scope] # Opposite(e.direction) /\ t.trend[f.scope] # Opposite(f.direction)
          /\ \A i \in 1..Len(u.events) : u.events[i].scope # e.scope =>
               t.trend[u.events[i].scope] = u.trend[u.events[i].scope]
      BY <2>6, <2>9, <3>1, <3>2, <3>7
    <3>9. TrendEarned(u.latest, b, t.trend, es, X)
      <4>. HIDE DEF X
      <4>. QED  BY <2>3, <2>7, <3>1, <3>8, TrendGrows
    <3>. HIDE DEF es
    <3>10. Chained(Append(es, f))
      BY <3>1, <3>2, <3>3, <3>5, <3>6, ChainGrows
    <3>11. TrendEarned(u.latest, b, t.trend, Append(es, f), X)
      <4>. HIDE DEF X
      <4>. QED  BY <3>2, <3>6, <3>8, <3>9, TrendGrows
    <3>12. ToSet(t.events) = ToSet(u.events) \cup {e, f}
      BY <2>5, <3>2, <3>4, <3>6
    <3>. QED  BY <3>1, <3>2, <3>4, <3>10, <3>11, <3>12
  <2>13. ASSUME t.events = u.events,
                t.trend = [u.trend EXCEPT ![side[1]] = Toward(side)]
         PROVE  Held
    <3>1. /\ t.trend[side[1]] = Toward(side)
          /\ \A scope \in ToSet(Scopes) : scope # side[1] => t.trend[scope] = u.trend[scope]
      BY <2>6, <2>8, <2>13
    <3>2. ASSUME NEW i \in 1..Len(u.events), LastOfScope(u.events, i),
                 t.trend[u.events[i].scope] = Opposite(u.events[i].direction)
          PROVE  Turned(u.latest, b, X, u.events[i])
      <4>. DEFINE e == u.events[i]
      <4>1. e \in ToSet(u.events) /\ e \in StructureEvent /\ e.scope \in ToSet(Scopes)
        BY <2>3, <2>9, ToSetOf
      <4>2. CASE e.scope # side[1]
        <5>1. u.trend[e.scope] = Opposite(e.direction)
          BY <3>1, <3>2, <4>1, <4>2
        <5>. QED  BY <2>7, <3>2, <5>1 DEF TrendEarned
      <4>3. CASE e.scope = side[1]
        <5>. HIDE DEF e
        <5>1. e \in ToSet(s.events)
          BY <1>5, <4>1, <4>3, EarlierEvents
        <5>2. e.direction = Toward(SideOf(e))
          BY <5>1 DEF Earned, EventEarned
        <5>3. Toward(side) = Opposite(e.direction)
          BY <3>1, <3>2, <4>3 DEF e
        <5>4. SideOf(e) # side
          BY <2>6, <5>2, <5>3
        <5>5. SideOf(e) = Other(side)
          BY <4>1, <4>3, <5>4, EventSides, TwoSides
        <5>6. Other(SideOf(e)) = side
          BY <5>5, TwoSides
        <5>7. Turned(u.latest, b, X, e)
          BY <1>5, <4>1, <5>6, TurnedStays DEF b
        <5>. QED  BY <5>7 DEF e
      <4>. QED  BY <4>2, <4>3
    <3>3. TrendEarned(u.latest, b, t.trend, t.events, X)
      BY <2>13, <3>2 DEF TrendEarned
    <3>. QED  BY <1>1, <2>13, <3>3
  <2>14. Held
    <3>. HIDE DEF Held
    <3>. QED  BY <2>1, <2>10, <2>11, <2>12, <2>13 DEF Broke
  <2>15. \A e \in ToSet(t.events) :
           e \in ToSet(s.events) \/ \E z \in done \cup {side} : NewBreak(s, z, c, e)
    BY <2>14 DEF Breached
  <2>16. TrendEarned(t.latest, t.broken, t.trend, t.events, X) /\ Chained(t.events)
    BY <1>3, <2>1, <2>14
  <2>17. Breached(s, t, c, done \cup {side}, cs)
    BY <1>1, <1>3, <2>2, <2>15, <2>16 DEF Breached
  <2>. QED  BY <2>17 DEF t
<1>. QED  BY <1>4, <1>5

\* What has turned a scope still has when more candles have come.
LEMMA TrendLater ==
    ASSUME NEW latest, NEW broken, NEW trend, NEW es, NEW cs, NEW c,
           TrendEarned(latest, broken, trend, es, cs)
    PROVE  TrendEarned(latest, broken, trend, es, cs \cup {c})
<1>1. \A e : Turned(latest, broken, cs, e) => Turned(latest, broken, cs \cup {c}, e)
  BY DEF Turned
<1>. QED  BY <1>1 DEF TrendEarned

\* All four sides of a candle (engine.py _breaks).
LEMMA SidesBreached ==
    ASSUME NEW s \in Engine, NEW c \in Candle, NEW cs, NEW now,
           Comes(cs, now, c), Earned(s, cs, now)
    PROVE  Breached(s, Breaks(s, c), c, ToSet(Sides), cs)
<1>1. Breached(s, s, c, {}, cs)
  <2>1. TrendEarned(s.latest, s.broken, s.trend, s.events, cs \cup {c}) /\ Chained(s.events)
    BY TrendLater DEF Earned
  <2>. QED  BY <2>1 DEF Breached
<1>. DEFINE b1 == BreakSide(s, c, Sides[1])
            b2 == BreakSide(b1, c, Sides[2])
            b3 == BreakSide(b2, c, Sides[3])
            b4 == BreakSide(b3, c, Sides[4])
<1>2. /\ Sides[1] \in ToSet(Sides) /\ Sides[2] \in ToSet(Sides)
      /\ Sides[3] \in ToSet(Sides) /\ Sides[4] \in ToSet(Sides)
      /\ Sides[2] # Sides[1] /\ Sides[3] \notin {Sides[1], Sides[2]}
      /\ Sides[4] \notin {Sides[1], Sides[2], Sides[3]}
      /\ ToSet(Sides) = {Sides[1], Sides[2], Sides[3], Sides[4]}
  <2>1. /\ Sides[1] = <<"INTERNAL", "HIGH">> /\ Sides[2] = <<"INTERNAL", "LOW">>
        /\ Sides[3] = <<"EXTERNAL", "HIGH">> /\ Sides[4] = <<"EXTERNAL", "LOW">>
    BY DEF Sides
  <2>2. ToSet(Sides) = {<<"INTERNAL", "HIGH">>, <<"INTERNAL", "LOW">>,
                        <<"EXTERNAL", "HIGH">>, <<"EXTERNAL", "LOW">>}
    BY SidesAre
  <2>. QED  BY <2>1, <2>2
<1>3. Breaks(s, c) = b4
  BY DEF Breaks, OverSides
<1>4. Breached(s, b1, c, {} \cup {Sides[1]}, cs)
  BY <1>1, <1>2, BreakStep
<1>. HIDE DEF b1
<1>5. Breached(s, b2, c, {Sides[1]} \cup {Sides[2]}, cs)
  <2>1. Breached(s, b1, c, {Sides[1]}, cs)
    <3>1. {} \cup {Sides[1]} = {Sides[1]}
      OBVIOUS
    <3>. QED  BY <1>4, <3>1
  <2>. QED  BY <1>2, <2>1, BreakStep
<1>. HIDE DEF b2
<1>6. Breached(s, b3, c, {Sides[1], Sides[2]} \cup {Sides[3]}, cs)
  <2>1. Breached(s, b2, c, {Sides[1], Sides[2]}, cs)
    <3>1. {Sides[1]} \cup {Sides[2]} = {Sides[1], Sides[2]}
      OBVIOUS
    <3>. QED  BY <1>5, <3>1
  <2>. QED  BY <1>2, <2>1, BreakStep
<1>. HIDE DEF b3
<1>7. Breached(s, b4, c, {Sides[1], Sides[2], Sides[3]} \cup {Sides[4]}, cs)
  <2>1. Breached(s, b3, c, {Sides[1], Sides[2], Sides[3]}, cs)
    <3>1. {Sides[1], Sides[2]} \cup {Sides[3]} = {Sides[1], Sides[2], Sides[3]}
      OBVIOUS
    <3>. QED  BY <1>6, <3>1
  <2>. QED  BY <1>2, <2>1, BreakStep
<1>8. {Sides[1], Sides[2], Sides[3]} \cup {Sides[4]} = ToSet(Sides)
  BY <1>2
<1>. QED  BY <1>3, <1>7, <1>8

\* After its breaks a candle is one of those that structure is earned by.
LEMMA BreaksEarned ==
    ASSUME NEW s \in Engine, NEW c \in Candle, NEW cs, NEW now,
           Comes(cs, now, c), Earned(s, cs, now)
    PROVE  Earned(Breaks(s, c), cs \cup {c}, End(c))
<1>. DEFINE u == Breaks(s, c)
            X == cs \cup {c}
<1>1. Breached(s, u, c, ToSet(Sides), cs)
  BY SidesBreached
<1>. HIDE DEF u
<1>2. /\ u \in Engine /\ u.latest = s.latest /\ Chained(u.events)
      /\ TrendEarned(u.latest, u.broken, u.trend, u.events, X)
  BY <1>1 DEF Breached
<1>3. /\ now \in Nat /\ now <= c.time /\ c.time \in Nat /\ End(c) = c.time + 1
      /\ cs \in SUBSET Candle /\ \A x \in cs : x.time < c.time
  BY CandleTypes DEF Comes, End
<1>4. \A side \in ToSet(Sides) :
        u.broken[side] = IF Breaking(s, side, c) THEN s.latest[side] ELSE s.broken[side]
  BY <1>1 DEF Breached
<1>5. ASSUME NEW side \in ToSet(Sides), u.latest[side] # Nothing
      PROVE  SwingEarned(u.latest[side], u.broken[side], side, X, End(c))
  <2>. DEFINE w == s.latest[side]
              b == u.broken[side]
  <2>1. w # Nothing /\ w = u.latest[side] /\ w \in PricedSwing
    BY <1>2, <1>5, EngineTypes
  <2>2. SwingEarned(w, s.broken[side], side, cs, now)
    BY <2>1 DEF Earned
  <2>3. w.confirmed \in Nat /\ w.at \in Nat
    BY <2>1 DEF PricedSwing, SwingPoint
  <2>4. b # w => s.broken[side] # w /\ ~Crossed(w, c)
    BY <1>4, <2>1 DEF Breaking, Unbroken
  <2>. HIDE DEF w, b
  <2>5. w.scope = side[1] /\ w.kind = side[2] /\ w.confirmed <= now
    BY <2>2 DEF SwingEarned
  <2>6. w.confirmed <= End(c)
    BY <1>3, <2>3, <2>5
  <2>7. \E x \in X : /\ x.time = w.at /\ w.at < w.confirmed
                     /\ w.price = IF w.kind = "HIGH" THEN x.high ELSE x.low
    BY <2>2 DEF SwingEarned
  <2>8. \A x \in X : w.at <= x.time /\ x.time < w.confirmed =>
          IF w.kind = "HIGH" THEN x.high <= w.price ELSE x.low >= w.price
    <3>1. ~(c.time < w.confirmed)
      BY <1>3, <2>3, <2>5
    <3>2. \A x \in cs : w.at <= x.time /\ x.time < w.confirmed =>
            IF w.kind = "HIGH" THEN x.high <= w.price ELSE x.low >= w.price
      BY <2>2 DEF SwingEarned
    <3>. QED  BY <3>1, <3>2
  <2>9. b # w => \A x \in X : x.time >= w.confirmed => ~Crossed(w, x)
    BY <2>2, <2>4 DEF SwingEarned
  <2>10. SwingEarned(w, b, side, X, End(c))
    BY <2>5, <2>6, <2>7, <2>8, <2>9 DEF SwingEarned
  <2>. QED  BY <2>1, <2>10 DEF b
<1>6. ASSUME NEW side \in ToSet(Sides), NEW e, NewBreak(s, side, c, e)
      PROVE  /\ EventEarned(e, u.latest, u.broken, X, End(c))
             /\ e.swing = s.latest[side] /\ SideOf(e) = side /\ e.direction = Toward(side)
             /\ e.at = c.time
  <2>1. /\ Breaking(s, side, c) /\ e.scope = side[1] /\ e.swing = s.latest[side]
        /\ e.direction = Toward(side) /\ e.at = c.time /\ e.confirmed = End(c)
    BY <1>6 DEF NewBreak
  <2>2. s.latest[side] # Nothing /\ Crossed(s.latest[side], c)
    BY <2>1 DEF Breaking, Unbroken
  <2>3. SwingEarned(s.latest[side], s.broken[side], side, cs, now)
    BY <2>2 DEF Earned
  <2>4. s.latest[side].confirmed \in Nat
    BY <2>2, EngineTypes DEF PricedSwing, SwingPoint
  <2>5. e.swing.scope = side[1] /\ e.swing.kind = side[2] /\ e.swing.confirmed <= now
    BY <2>1, <2>3 DEF SwingEarned
  <2>6. SideOf(e) = side
    BY <2>1, <2>5, TwoSides DEF SideOf
  <2>7. e.swing.confirmed <= e.at /\ e.confirmed = e.at + 1 /\ e.confirmed <= End(c)
    BY <1>3, <2>1, <2>4, <2>5
  <2>8. u.latest[side] = e.swing /\ u.broken[side] = e.swing
    BY <1>2, <1>4, <2>1
  <2>9. \E x \in X : x.time = e.at /\ Crossed(e.swing, x)
    BY <2>1, <2>2
  <2>10. EventEarned(e, u.latest, u.broken, X, End(c))
    BY <2>1, <2>5, <2>6, <2>7, <2>8, <2>9 DEF EventEarned
  <2>. QED  BY <2>1, <2>6, <2>10
<1>7. ASSUME NEW e \in ToSet(s.events)
      PROVE  /\ EventEarned(e, u.latest, u.broken, X, End(c))
             /\ e.at < c.time
             /\ \A side \in ToSet(Sides) : Breaking(s, side, c) => e.swing # s.latest[side]
  <2>1. e \in StructureEvent
    BY EngineTypes, ToSetOf
  <2>2. EventEarned(e, s.latest, s.broken, cs, now)
    BY DEF Earned
  <2>3. /\ SideOf(e) \in ToSet(Sides) /\ e.at \in Nat /\ e.confirmed \in Nat
        /\ e.swing.confirmed \in Nat
    BY <2>1, EventSides
  <2>4. /\ e.swing.scope = e.scope /\ e.direction = Toward(SideOf(e))
        /\ e.swing.confirmed <= e.at /\ e.confirmed = e.at + 1 /\ e.confirmed <= now
        /\ \E x \in cs : x.time = e.at /\ Crossed(e.swing, x)
        /\ \/ s.latest[SideOf(e)] = e.swing /\ s.broken[SideOf(e)] = e.swing
           \/ s.latest[SideOf(e)].confirmed >= e.confirmed
    BY <2>2 DEF EventEarned
  <2>5. e.at < c.time /\ e.confirmed <= End(c)
    BY <1>3, <2>3, <2>4
  <2>6. \/ u.latest[SideOf(e)] = e.swing /\ u.broken[SideOf(e)] = e.swing
        \/ u.latest[SideOf(e)].confirmed >= e.confirmed
    BY <1>2, <1>4, <2>3, <2>4
  <2>7. EventEarned(e, u.latest, u.broken, X, End(c))
    BY <2>4, <2>5, <2>6 DEF EventEarned
  <2>8. ASSUME NEW side \in ToSet(Sides), Breaking(s, side, c), e.swing = s.latest[side]
        PROVE  FALSE
    <3>1. s.latest[side] # Nothing /\ s.broken[side] # s.latest[side]
      BY <2>8 DEF Breaking, Unbroken
    <3>2. e.swing.scope = side[1] /\ e.swing.kind = side[2]
      BY <2>8, <3>1 DEF Earned, SwingEarned
    <3>3. SideOf(e) = side
      BY <2>4, <3>2, TwoSides DEF SideOf
    <3>4. e.swing.confirmed >= e.confirmed
      BY <2>4, <2>8, <3>1, <3>3
    <3>. QED  BY <2>3, <2>4, <3>4
  <2>. QED  BY <2>5, <2>7, <2>8
<1>8. \A e \in ToSet(u.events) :
        e \in ToSet(s.events) \/ \E side \in ToSet(Sides) : NewBreak(s, side, c, e)
  BY <1>1 DEF Breached
<1>9. \A e \in ToSet(u.events) : EventEarned(e, u.latest, u.broken, X, End(c))
  <2>. HIDE DEF X
  <2>. QED  BY <1>6, <1>7, <1>8
<1>10. Alike(ToSet(u.events))
  <2>. DEFINE Twins(e, f) == /\ e.swing = f.swing => e.at = f.at
                             /\ e.scope = f.scope /\ e.at = f.at => e.direction = f.direction
  <2>1. \A e, f \in ToSet(s.events) : Twins(e, f)
    BY DEF Earned, Alike
  <2>2. ASSUME NEW e \in ToSet(s.events), NEW f, NEW side \in ToSet(Sides), NewBreak(s, side, c, f)
        PROVE  Twins(e, f) /\ Twins(f, e)
    <3>1. e.at < c.time /\ e.swing # s.latest[side]
      BY <1>7, <2>2 DEF NewBreak
    <3>2. f.at = c.time /\ f.swing = s.latest[side]
      BY <2>2 DEF NewBreak
    <3>3. e.at # f.at
      <4>1. e.at \in Nat
        BY EngineTypes, ToSetOf, EventSides
      <4>. QED  BY <1>3, <3>1, <3>2, <4>1
    <3>. QED  BY <3>1, <3>2, <3>3
  <2>3. ASSUME NEW e, NEW p \in ToSet(Sides), NewBreak(s, p, c, e),
               NEW f, NEW q \in ToSet(Sides), NewBreak(s, q, c, f)
        PROVE  Twins(e, f)
    <3>1. e.at = f.at
      BY <2>3 DEF NewBreak
    <3>2. ASSUME e.scope = f.scope
          PROVE  p = q
      <4>1. p[1] = q[1] /\ Breaking(s, p, c) /\ Breaking(s, q, c)
        BY <2>3, <3>2 DEF NewBreak
      <4>2. q \in {p, Other(p)}
        BY <4>1, TwoSides
      <4>. QED  BY <4>1, <4>2, BreaksOneSide
    <3>3. e.direction = Toward(p) /\ f.direction = Toward(q)
      BY <2>3 DEF NewBreak
    <3>. QED  BY <3>1, <3>2, <3>3
  <2>. HIDE DEF Twins
  <2>4. \A e, f \in ToSet(u.events) : Twins(e, f)
    BY <1>8, <2>1, <2>2, <2>3
  <2>. QED  BY <2>4 DEF Alike, Twins
<1>11. Earned(u, X, End(c))
  BY <1>2, <1>5, <1>9, <1>10 DEF Earned
<1>. QED  BY <1>11 DEF u

-----------------------------------------------------------------------------
(* What a candle confirms *)

\* A pair of swings changes a trend only while neither is broken (_swing).
LEMMA PairUnbroken ==
    ASSUME NEW latest, NEW broken, NEW scope, NEW old,
           TrendOfPair(latest, broken, scope, old) # old
    PROVE  /\ latest[<< scope, "HIGH" >>] # broken[<< scope, "HIGH" >>]
           /\ latest[<< scope, "LOW" >>] # broken[<< scope, "LOW" >>]
BY DEF TrendOfPair

\* The swing of a pivot, and what adding it changes.
SwingOf(s, side, pivot, confirmed) ==
  LET price == IF side[2] = "HIGH" THEN pivot.high ELSE pivot.low
  IN [scope |-> side[1], kind |-> side[2], label |-> Label(side[2], price, s.latest[side]),
      price |-> price, at |-> pivot.time, confirmed |-> confirmed]

\* A confirmed swing, field by field.
LEMMA AddSwingDoes ==
    ASSUME NEW s \in Engine, NEW c \in Candle, NEW side \in ToSet(Sides), NEW pivot \in Candle
    PROVE  LET t == AddSwing(s, side, pivot, End(c))
               w == SwingOf(s, side, pivot, End(c))
           IN /\ t \in Engine /\ t.bars = s.bars /\ t.events = s.events /\ t.broken = s.broken
              /\ w \in PricedSwing
              /\ t.latest = [s.latest EXCEPT ![side] = w]
              /\ t.trend = [s.trend EXCEPT ![side[1]] =
                              TrendOfPair(t.latest, s.broken, side[1], s.trend[side[1]])]
<1>. DEFINE w == SwingOf(s, side, pivot, End(c))
            latest == [s.latest EXCEPT ![side] = w]
            trend == [s.trend EXCEPT ![side[1]] =
                        TrendOfPair(latest, s.broken, side[1], s.trend[side[1]])]
            t == AddSwing(s, side, pivot, End(c))
<1>1. t \in Engine /\ t.bars = s.bars
  BY AddSwingIs DEF Grows
<1>. DEFINE price == IF side[2] = "HIGH" THEN pivot.high ELSE pivot.low
            previous == s.latest[side]
            label == Label(side[2], price, previous)
            own == NewLevel(IF side[2] = "HIGH" THEN "BSL" ELSE "SSL", side[2], price,
                            pivot.time, End(c))
            equal == NewLevel(label, side[2], (price + previous.price) \div 2, previous.at, End(c))
            more == IF side[1] = "INTERNAL" THEN <<>>
                    ELSE IF label \in {"EQH", "EQL"} THEN <<own, equal>>
                    ELSE <<own>>
            swings == Append(s.swings, w)
            levels == s.levels \o more
<1>2. t = [s EXCEPT !.swings = swings, !.latest = latest, !.levels = levels, !.trend = trend]
  BY DEF AddSwing, SwingOf
<1>. HIDE DEF swings, levels
<1>3. w \in PricedSwing
  <2>1. /\ side[1] \in ToSet(Scopes) /\ side[2] \in {"HIGH", "LOW"}
        /\ s.latest[side] \in PricedSwing \cup {Nothing}
    BY SidesAre, EngineTypes
  <2>2. price \in Price /\ price \in Nat /\ pivot.time \in Nat /\ End(c) \in Nat
    BY CandleTypes
  <2>3. label \in {"SH", "SL", "HH", "HL", "LH", "LL", "EQH", "EQL"}
    BY <2>1, <2>2, LabelIs
  <2>4. w = [scope |-> side[1], kind |-> side[2], label |-> label, price |-> price,
             at |-> pivot.time, confirmed |-> End(c)]
    BY DEF SwingOf
  <2>. HIDE DEF w, label, price
  <2>. QED  BY <2>1, <2>2, <2>3, <2>4 DEF PricedSwing, SwingPoint, Price
<1>. HIDE DEF w, latest, trend, t
<1>4. t.events = s.events /\ t.broken = s.broken /\ t.latest = latest /\ t.trend = trend
  BY <1>2 DEF Engine
<1>. QED  BY <1>1, <1>3, <1>4 DEF w, latest, trend, t

\* A pivot is the extremum of the candles from its own on.
LEMMA PivotIs ==
    ASSUME NEW s \in Engine, Ordered(s.bars), NEW side \in ToSet(Sides), IsPivot(s, side)
    PROVE  LET pivot == PivotOf(s, side[1])
           IN /\ pivot \in Candle /\ pivot \in ToSet(s.bars)
              /\ \A x \in ToSet(s.bars) : pivot.time <= x.time =>
                   IF side[2] = "HIGH" THEN x.high <= pivot.high ELSE x.low >= pivot.low
<1>. DEFINE bars == s.bars
            n == Len(bars)
            L == Left[side[1]]
            R == Right[side[1]]
            width == L + R + 1
            p == n - R
            pivot == bars[p]
            recent == LastN(bars, width)
<1>1. bars \in Seq(Candle) /\ n \in Nat
  BY EngineTypes
<1>2. L \in Nat \ {0} /\ R \in Nat \ {0}
  <2>1. side[1] \in ToSet(Scopes)
    BY SidesAre
  <2>. QED  BY <2>1, StructureAssumption DEF AnalysisConfig
<1>3. /\ n >= width
      /\ \A v \in ToSet(recent) \ {pivot} :
           IF side[2] = "HIGH" THEN pivot.high > v.high ELSE pivot.low < v.low
  BY DEF IsPivot, PivotOf
<1>4. PivotOf(s, side[1]) = pivot
  BY DEF PivotOf
<1>. HIDE DEF L, R
<1>5. width \in Nat /\ p \in 1..n /\ width >= R + 1
  BY <1>1, <1>2, <1>3
<1>. HIDE DEF width
<1>6. /\ recent \in Seq(Candle) /\ Len(recent) = width
      /\ \A j \in 1..width : recent[j] = bars[j + n - width]
  <2>1. Len(recent) = IF n > width THEN width ELSE n
    BY <1>1, <1>5, LastNIs
  <2>2. Len(recent) = width
    BY <1>1, <1>3, <1>5, <2>1
  <2>3. /\ recent \in Seq(Candle)
        /\ \A j \in 1..Len(recent) : recent[j] = bars[j + n - Len(recent)]
    BY <1>1, <1>5, LastNIs
  <2>. QED  BY <2>2, <2>3
<1>7. pivot \in Candle /\ pivot \in ToSet(bars)
  BY <1>1, <1>5, ToSetOf
<1>. HIDE DEF recent, pivot
<1>8. ASSUME NEW x \in ToSet(bars), pivot.time <= x.time
      PROVE  IF side[2] = "HIGH" THEN x.high <= pivot.high ELSE x.low >= pivot.low
  <2>1. PICK i \in 1..n : x = bars[i]
    BY <1>1, ToSetOf
  <2>2. x \in Candle /\ x.time \in Nat /\ pivot.time \in Nat /\ x.high \in Nat /\ x.low \in Nat
        /\ pivot.high \in Nat /\ pivot.low \in Nat
    BY <1>1, <1>7, <2>1, CandleTypes
  <2>3. i >= p
    <3>1. i < p => x.time < pivot.time
      BY <1>5, <2>1 DEF Ordered, pivot
    <3>2. i \in Int /\ p \in Int
      BY <1>5
    <3>. HIDE DEF p
    <3>. QED  BY <1>8, <2>2, <3>1, <3>2
  <2>4. x \in ToSet(recent)
    <3>. DEFINE j == i - n + width
    <3>1. j \in 1..width /\ j + n - width = i
      BY <1>1, <1>2, <1>5, <2>3 DEF L, R
    <3>. HIDE DEF j
    <3>2. recent[j] = x
      BY <1>6, <2>1, <3>1
    <3>. QED  BY <1>6, <3>1, <3>2, ToSetOf
  <2>5. x = pivot \/ IF side[2] = "HIGH" THEN pivot.high > x.high ELSE pivot.low < x.low
    BY <1>3, <2>4
  <2>. QED  BY <2>2, <2>5
<1>. QED  BY <1>4, <1>7, <1>8

\* The newest candle confirms the swings of a side (engine.py _pivots, _swing).
LEMMA PivotEarned ==
    ASSUME NEW s \in Engine, Ordered(s.bars), NEW c \in Candle,
           \A x \in ToSet(s.bars) : x.time <= c.time,
           Earned(s, ToSet(s.bars), End(c)), NEW side \in ToSet(Sides)
    PROVE  LET t == PivotSide(s, c, side)
           IN t \in Engine /\ t.bars = s.bars /\ Earned(t, ToSet(s.bars), End(c))
<1>. DEFINE X == ToSet(s.bars)
            pivot == PivotOf(s, side[1])
            w == SwingOf(s, side, pivot, End(c))
            t == AddSwing(s, side, pivot, End(c))
<1>1. CASE ~IsPivot(s, side)
  BY <1>1 DEF PivotSide
<1>2. CASE IsPivot(s, side)
  <2>1. /\ pivot \in Candle /\ pivot \in X
        /\ \A x \in X : pivot.time <= x.time =>
             IF side[2] = "HIGH" THEN x.high <= pivot.high ELSE x.low >= pivot.low
    BY <1>2, PivotIs
  <2>2. PivotSide(s, c, side) = t
    BY <1>2 DEF PivotSide
  <2>. HIDE DEF pivot
  <2>3. /\ t \in Engine /\ t.bars = s.bars /\ t.events = s.events /\ t.broken = s.broken
        /\ w \in PricedSwing
        /\ t.latest = [s.latest EXCEPT ![side] = w]
        /\ t.trend = [s.trend EXCEPT ![side[1]] =
                        TrendOfPair(t.latest, s.broken, side[1], s.trend[side[1]])]
    BY <2>1, AddSwingDoes
  <2>4. /\ w.scope = side[1] /\ w.kind = side[2] /\ w.at = pivot.time /\ w.confirmed = End(c)
        /\ w.price = IF side[2] = "HIGH" THEN pivot.high ELSE pivot.low
    BY DEF SwingOf
  <2>. HIDE DEF t, w
  <2>5. /\ s.latest \in [ToSet(Sides) -> PricedSwing \cup {Nothing}]
        /\ s.trend \in [ToSet(Scopes) -> Direction \cup {"UNKNOWN", "NEUTRAL"}]
        /\ s.events \in Seq(StructureEvent)
    BY EngineTypes
  <2>6. t.latest[side] = w /\ \A z \in ToSet(Sides) : z # side => t.latest[z] = s.latest[z]
    BY <2>3, <2>5
  <2>7. c.time \in Nat /\ End(c) = c.time + 1 /\ \A x \in X : x.time \in Nat
    <3>1. X \subseteq Candle
      BY EngineTypes, ToSetOf
    <3>. QED  BY <3>1, CandleTypes DEF End
  <2>8. SwingEarned(w, t.broken[side], side, X, End(c))
    <3>1. w.confirmed <= End(c) /\ pivot.time < End(c)
      BY <2>1, <2>4, <2>7
    <3>2. \E x \in X : /\ x.time = w.at /\ w.at < w.confirmed
                       /\ w.price = IF w.kind = "HIGH" THEN x.high ELSE x.low
      BY <2>1, <2>4, <3>1
    <3>3. \A x \in X : w.at <= x.time /\ x.time < w.confirmed =>
            IF w.kind = "HIGH" THEN x.high <= w.price ELSE x.low >= w.price
      BY <2>1, <2>4
    <3>4. \A x \in X : ~(x.time >= w.confirmed)
      BY <2>4, <2>7
    <3>. QED  BY <2>4, <3>1, <3>2, <3>3, <3>4 DEF SwingEarned
  <2>9. ASSUME NEW z \in ToSet(Sides), t.latest[z] # Nothing
        PROVE  SwingEarned(t.latest[z], t.broken[z], z, X, End(c))
    BY <2>3, <2>6, <2>8, <2>9 DEF Earned
  <2>10. ASSUME NEW e \in ToSet(s.events)
         PROVE  /\ EventEarned(e, t.latest, t.broken, X, End(c))
                /\ SideOf(e) = side => t.latest[SideOf(e)].confirmed >= e.confirmed
    <3>1. e \in StructureEvent
      BY <2>5, ToSetOf
    <3>2. EventEarned(e, s.latest, s.broken, X, End(c))
      BY DEF Earned
    <3>3. e.confirmed <= End(c) /\ e.confirmed \in Nat /\ SideOf(e) \in ToSet(Sides)
      BY <3>1, <3>2, EventSides DEF EventEarned
    <3>4. SideOf(e) = side => t.latest[SideOf(e)].confirmed >= e.confirmed
      BY <2>4, <2>6, <2>7, <3>3
    <3>. QED  BY <2>3, <2>6, <3>2, <3>3, <3>4 DEF EventEarned
  <2>11. TrendEarned(t.latest, t.broken, t.trend, t.events, X)
    <3>1. ASSUME NEW i \in 1..Len(s.events), LastOfScope(s.events, i),
                 t.trend[s.events[i].scope] = Opposite(s.events[i].direction)
          PROVE  Turned(t.latest, s.broken, X, s.events[i])
      <4>. DEFINE e == s.events[i]
      <4>1. e \in ToSet(s.events) /\ e \in StructureEvent
        BY <2>5, ToSetOf
      <4>2. /\ SideOf(e) \in ToSet(Sides) /\ e.scope \in ToSet(Scopes)
            /\ SideOf(e) = <<e.scope, e.swing.kind>> /\ e.swing.kind \in {"HIGH", "LOW"}
        BY <4>1, EventSides DEF SideOf, StructureEvent, SwingPoint
      <4>3. ASSUME s.trend[e.scope] = Opposite(e.direction)
            PROVE  Turned(t.latest, s.broken, X, e)
        <5>1. Turned(s.latest, s.broken, X, e)
          BY <3>1, <4>3 DEF Earned, TrendEarned
        <5>. HIDE DEF e
        <5>. QED  BY <2>6, <2>10, <4>1, <4>2, <5>1 DEF Turned
      <4>4. CASE e.scope # side[1]
        <5>1. t.trend[e.scope] = s.trend[e.scope]
          BY <2>3, <2>5, <4>2, <4>4
        <5>. QED  BY <3>1, <4>3, <5>1
      <4>5. CASE e.scope = side[1]
        <5>. DEFINE new == TrendOfPair(t.latest, s.broken, side[1], s.trend[side[1]])
        <5>1. t.trend[e.scope] = new
          BY <2>3, <2>5, <4>2, <4>5
        <5>2. CASE new = s.trend[side[1]]
          BY <3>1, <4>3, <4>5, <5>1, <5>2
        <5>3. CASE new # s.trend[side[1]]
          <6>1. t.latest[SideOf(e)] # s.broken[SideOf(e)]
            <7>1. TrendOfPair(t.latest, s.broken, side[1], s.trend[side[1]]) # s.trend[side[1]]
              BY <5>3
            <7>. HIDE DEF e, new, w, t
            <7>2. /\ t.latest[<<side[1], "HIGH">>] # s.broken[<<side[1], "HIGH">>]
                  /\ t.latest[<<side[1], "LOW">>] # s.broken[<<side[1], "LOW">>]
              <8>. DEFINE lat == t.latest
                          bro == s.broken
                          scope == side[1]
                          old == s.trend[scope]
              <8>1. TrendOfPair(lat, bro, scope, old) # old
                BY <7>1
              <8>. HIDE DEF lat, bro, scope, old
              <8>2. /\ lat[<<scope, "HIGH">>] # bro[<<scope, "HIGH">>]
                    /\ lat[<<scope, "LOW">>] # bro[<<scope, "LOW">>]
                BY <8>1, PairUnbroken
              <8>. QED  BY <8>2 DEF lat, bro, scope
            <7>. QED  BY <4>2, <4>5, <7>2
          <6>2. EventEarned(e, t.latest, t.broken, X, End(c))
            BY <2>10, <4>1
          <6>3. t.latest[SideOf(e)].confirmed >= e.confirmed
            BY <2>3, <6>1, <6>2 DEF EventEarned
          <6>4. Turned(t.latest, s.broken, X, e)
            <7>. HIDE DEF e
            <7>. QED  BY <4>2, <6>3 DEF Turned
          <6>. QED  BY <6>4
        <5>. QED  BY <5>2, <5>3
      <4>. QED  BY <4>4, <4>5
    <3>. QED  BY <2>3, <3>1 DEF TrendEarned
  <2>12. Alike(ToSet(t.events)) /\ Chained(t.events)
    BY <2>3 DEF Earned
  <2>13. \A e \in ToSet(t.events) : EventEarned(e, t.latest, t.broken, X, End(c))
    BY <2>3, <2>10
  <2>14. Earned(t, X, End(c))
    BY <2>9, <2>11, <2>12, <2>13 DEF Earned
  <2>. QED  BY <2>2, <2>3, <2>14
<1>. QED  BY <1>1, <1>2

-----------------------------------------------------------------------------
(* Structure is earned *)

\* What is earned depends on the structure alone, not on levels, zones or windows.
LEMMA SameStructure ==
    ASSUME NEW s, NEW t, NEW cs, NEW now, Earned(s, cs, now),
           t.latest = s.latest, t.broken = s.broken, t.trend = s.trend, t.events = s.events
    PROVE  Earned(t, cs, now)
BY Zenon DEF Earned

\* All four sides of a candle (engine.py _pivots).
LEMMA PivotsEarned ==
    ASSUME NEW s \in Engine, Ordered(s.bars), NEW c \in Candle,
           \A x \in ToSet(s.bars) : x.time <= c.time,
           Earned(s, ToSet(s.bars), End(c))
    PROVE  LET t == Pivots(s, c)
           IN t \in Engine /\ t.bars = s.bars /\ Earned(t, ToSet(s.bars), End(c))
<1>. DEFINE b == s.bars
            Good(t) == t \in Engine /\ t.bars = b /\ Earned(t, ToSet(b), End(c))
            p1 == PivotSide(s, c, Sides[1])
            p2 == PivotSide(p1, c, Sides[2])
            p3 == PivotSide(p2, c, Sides[3])
            p4 == PivotSide(p3, c, Sides[4])
<1>1. ASSUME NEW t, Good(t), NEW side \in ToSet(Sides)
      PROVE  Good(PivotSide(t, c, side))
  <2>1. t \in Engine /\ t.bars = b /\ Ordered(t.bars) /\ Earned(t, ToSet(t.bars), End(c))
        /\ \A x \in ToSet(t.bars) : x.time <= c.time
    BY <1>1
  <2>2. LET u == PivotSide(t, c, side)
        IN u \in Engine /\ u.bars = t.bars /\ Earned(u, ToSet(t.bars), End(c))
    BY <2>1, PivotEarned
  <2>. QED  BY <2>1, <2>2
<1>2. Pivots(s, c) = p4
  BY DEF Pivots, OverSides
<1>3. Good(s)
  OBVIOUS
<1>. HIDE DEF Good
<1>4. Good(p1)
  BY <1>1, <1>3, SidesAre
<1>. HIDE DEF p1
<1>5. Good(p2)
  BY <1>1, <1>4, SidesAre
<1>. HIDE DEF p2
<1>6. Good(p3)
  BY <1>1, <1>5, SidesAre
<1>. HIDE DEF p3
<1>7. Good(p4)
  BY <1>1, <1>6, SidesAre
<1>. QED  BY <1>2, <1>7 DEF Good

\* The cap drops the oldest events only.
LEMMA CappedEarned ==
    ASSUME NEW s \in Engine, NEW cs, NEW now, Earned(s, cs, now)
    PROVE  Earned(Capped(s), cs, now)
<1>. DEFINE ev == LastN(s.events, MaxObjects)
            t == Capped(s)
<1>1. t.events = ev /\ t.latest = s.latest /\ t.broken = s.broken /\ t.trend = s.trend
  BY DEF Capped, Engine
<1>2. s.events \in Seq(StructureEvent) /\ MaxObjects \in Nat
  BY EngineTypes, Configured
<1>3. ToSet(ev) \subseteq ToSet(s.events)
  BY <1>2, LastNIs
<1>4. Chained(ev) /\ TrendEarned(s.latest, s.broken, s.trend, ev, cs)
  <2>1. Chained(s.events) /\ TrendEarned(s.latest, s.broken, s.trend, s.events, cs)
    BY DEF Earned
  <2>. QED  BY <1>2, <2>1, ChainCapped, TrendCapped
<1>5. Alike(ToSet(ev))
  <2>1. Alike(ToSet(s.events))
    BY DEF Earned
  <2>. QED  BY <1>3, <2>1 DEF Alike
<1>. HIDE DEF ev, t
<1>6. /\ \A side \in ToSet(Sides) : s.latest[side] # Nothing =>
           SwingEarned(s.latest[side], s.broken[side], side, cs, now)
      /\ \A e \in ToSet(ev) : EventEarned(e, s.latest, s.broken, cs, now)
  BY <1>3 DEF Earned
<1>7. Earned(t, cs, now)
  BY <1>1, <1>4, <1>5, <1>6, Zenon DEF Earned
<1>. QED  BY <1>7 DEF t

\* One candle keeps the structure earned (engine.py feed).
LEMMA FeedEarned ==
    ASSUME NEW s \in Engine, NEW c \in Candle, NEW now, Ordered(Append(s.bars, c)),
           Comes(ToSet(s.bars), now, c), Earned(s, ToSet(s.bars), now)
    PROVE  Earned(Feed(s, c), ToSet(s.bars) \cup {c}, End(c))
<1>. DEFINE X == ToSet(s.bars)
            aged == Lifecycles(s, c)
            broken == Breaks(aged, c)
            bars == Append(broken.bars, c)
            fed == [broken EXCEPT !.bars = bars]
            grown == Pivots(fed, c)
            zs == grown.zones \o Gap(grown.bars)
            gapped == [grown EXCEPT !.zones = zs]
            closed == Periods(gapped, c)
<1>1. Feed(s, c) = Capped(closed)
  BY DEF Feed
<1>2. aged \in Engine /\ aged.bars = s.bars
  BY LifecyclesIs
<1>3. Earned(aged, X, now)
  <2>1. /\ aged.latest = s.latest /\ aged.broken = s.broken
        /\ aged.trend = s.trend /\ aged.events = s.events
    BY DEF Lifecycles, Engine
  <2>. HIDE DEF aged
  <2>. QED  BY <2>1, SameStructure
<1>. HIDE DEF aged
<1>4. broken \in Engine /\ broken.bars = s.bars
  BY <1>2, BreaksGrow DEF Grows
<1>5. Earned(broken, X \cup {c}, End(c))
  <2>1. Comes(X, now, c)
    OBVIOUS
  <2>. HIDE DEF X
  <2>. QED  BY <1>2, <1>3, <2>1, BreaksEarned
<1>. HIDE DEF broken
<1>6. bars \in Seq(Candle) /\ bars = Append(s.bars, c) /\ ToSet(bars) = X \cup {c}
  BY <1>4, EngineTypes, AppendIs
<1>. HIDE DEF bars
<1>7. fed \in Engine /\ fed.bars = bars
  BY <1>4, <1>6 DEF Engine
<1>8. Earned(fed, ToSet(bars), End(c))
  <2>1. /\ fed.latest = broken.latest /\ fed.broken = broken.broken
        /\ fed.trend = broken.trend /\ fed.events = broken.events
    BY <1>4 DEF Engine
  <2>. HIDE DEF fed, X
  <2>. QED  BY <1>5, <1>6, <2>1, SameStructure
<1>. HIDE DEF fed
<1>9. grown \in Engine /\ grown.bars = bars /\ Earned(grown, ToSet(bars), End(c))
  <2>1. \A x \in ToSet(fed.bars) : x.time <= c.time
    BY <1>6, <1>7, CandleTypes DEF Comes
  <2>2. Ordered(fed.bars) /\ Earned(fed, ToSet(fed.bars), End(c))
    BY <1>6, <1>7, <1>8
  <2>. QED  BY <1>7, <2>1, <2>2, PivotsEarned
<1>. HIDE DEF grown
<1>10. zs \in Seq(PricedZone)
  <2>1. Gap(grown.bars) \in Seq(PricedZone)
    BY <1>6, <1>9, EngineTypes, GapIs
  <2>. QED  BY <1>9, <2>1, EngineTypes, ConcatIs
<1>. HIDE DEF zs
<1>11. gapped \in Engine
  BY <1>9, <1>10 DEF Engine
<1>12. Earned(gapped, ToSet(bars), End(c))
  <2>1. /\ gapped.latest = grown.latest /\ gapped.broken = grown.broken
        /\ gapped.trend = grown.trend /\ gapped.events = grown.events
    BY <1>9 DEF Engine
  <2>. HIDE DEF gapped
  <2>. QED  BY <1>9, <2>1, SameStructure
<1>. HIDE DEF gapped
<1>13. closed \in Engine
  BY <1>11, PeriodsIs DEF Grows
<1>14. Earned(closed, ToSet(bars), End(c))
  <2>1. /\ closed.latest = gapped.latest /\ closed.broken = gapped.broken
        /\ closed.trend = gapped.trend /\ closed.events = gapped.events
    BY <1>11 DEF Periods, Engine
  <2>. HIDE DEF closed
  <2>. QED  BY <1>12, <2>1, SameStructure
<1>. HIDE DEF closed
<1>15. Earned(Capped(closed), ToSet(bars), End(c))
  BY <1>13, <1>14, CappedEarned
<1>. QED  BY <1>1, <1>6, <1>15

\* The engine before the first candle owes nothing.
LEMMA EmptyEarned == \A now : Earned(EmptyEngine, {}, now)
<1>1. /\ EmptyEngine.events = <<>> /\ ToSet(EmptyEngine.events) = {}
      /\ \A side \in ToSet(Sides) : EmptyEngine.latest[side] = Nothing
  BY DEF EmptyEngine, ToSet
<1>2. Chained(<<>>) /\ Alike({})
  BY DEF Chained, Alike
<1>3. TrendEarned(EmptyEngine.latest, EmptyEngine.broken, EmptyEngine.trend, <<>>, {})
  BY DEF TrendEarned
<1>. QED  BY <1>1, <1>2, <1>3 DEF Earned

EarnedInv == Earned(engine, ToSet(candles), Now)

\* A run starts with nothing to earn.
LEMMA EarnedInit == Init => EarnedInv
<1>. SUFFICES ASSUME Init
              PROVE  EarnedInv
  OBVIOUS
<1>1. engine = EmptyEngine
  BY DEF Init
<1>2. candles = <<>> /\ ToSet(candles) = {}
  BY <1>1, EmptyEngineIs DEF candles, ToSet
<1>. HIDE DEF candles
<1>. QED  BY <1>1, <1>2, EmptyEarned DEF EarnedInv

\* A tick keeps the structure earned.
LEMMA EarnedStep == ClockInv /\ ClockInv' /\ EarnedInv /\ [Next]_vars => EarnedInv'
<1>. SUFFICES ASSUME ClockInv, ClockInv', EarnedInv, [Next]_vars
              PROVE  EarnedInv'
  OBVIOUS
<1>1. CASE UNCHANGED vars
  <2>1. engine' = engine
    BY <1>1 DEF vars
  <2>2. candles' = candles /\ Now' = Now
    BY <2>1 DEF candles, Now
  <2>. QED  BY <2>1, <2>2 DEF EarnedInv
<1>2. CASE Next
  <2>1. PICK c \in Candle : Tick(c)
    BY <1>2, NextTicks
  <2>2. Before(ToSet(candles), c) /\ engine \in Engine /\ candles \in Seq(Candle) /\ Now \in Nat
    BY <2>1, ClockBefore, NowIs DEF Tick, ClockInv
  <2>3. ToSet(candles') = ToSet(candles) \cup {c} /\ ToSet(candles) \in SUBSET Candle
    BY <2>1, <2>2, AppendIs, ToSetOf DEF Tick
  <2>4. Comes(ToSet(candles), Now, c)
    BY <2>1, <2>2, <2>3 DEF Comes, Tick, Before
  <2>5. candles = engine.bars
    BY DEF candles
  <2>6. Ordered(Append(candles, c))
    <3>1. Ordered(candles')
      BY DEF ClockInv
    <3>2. candles' = Append(candles, c)
      BY <2>1 DEF Tick
    <3>. QED  BY <3>1, <3>2, Zenon
  <2>7. Earned(Feed(engine, c), ToSet(candles) \cup {c}, End(c))
    <3>1. Earned(engine, ToSet(engine.bars), Now) /\ Comes(ToSet(engine.bars), Now, c)
          /\ Ordered(Append(engine.bars, c))
      BY <2>4, <2>5, <2>6 DEF EarnedInv
    <3>. HIDE DEF candles, Now
    <3>2. Earned(Feed(engine, c), ToSet(engine.bars) \cup {c}, End(c))
      BY <2>2, <3>1, FeedEarned
    <3>. QED  BY <2>5, <3>2
  <2>8. engine' = Feed(engine, c) /\ Now' = End(c)
    BY <2>1 DEF Tick
  <2>. QED  BY <2>3, <2>7, <2>8 DEF EarnedInv
<1>. QED  BY <1>1, <1>2

\* What is earned is what the property says.
LEMMA EarnedHolds == ClockInv /\ EarnedInv => StructureIsEarned
<1>. SUFFICES ASSUME ClockInv, EarnedInv
              PROVE  StructureIsEarned
  OBVIOUS
<1>. DEFINE events == engine.events
            kept == ToSet(events)
            cs == ToSet(candles)
<1>1. engine \in Engine /\ candles \in Seq(Candle) /\ Now \in Nat
      /\ events \in Seq(StructureEvent)
  BY NowIs, EngineTypes DEF ClockInv
<1>2. /\ \A e \in kept : EventEarned(e, engine.latest, engine.broken, cs, Now)
      /\ Alike(kept) /\ Chained(events)
      /\ TrendEarned(engine.latest, engine.broken, engine.trend, events, cs)
  BY DEF EarnedInv, Earned
<1>3. ASSUME NEW e \in kept
      PROVE  /\ e.swing.confirmed <= e.at /\ Crossed(e.swing, CandleAt(e.at))
             /\ e.direction = "BULLISH" <=> e.swing.kind = "HIGH"
  <2>1. EventEarned(e, engine.latest, engine.broken, cs, Now) /\ e \in StructureEvent
    BY <1>1, <1>2, ToSetOf
  <2>2. PICK x \in cs : x.time = e.at /\ Crossed(e.swing, x)
    BY <2>1 DEF EventEarned
  <2>3. PICK i \in 1..Len(candles) : x = candles[i]
    BY <1>1, ToSetOf
  <2>4. CandleAt(e.at) = x
    BY <2>2, <2>3, CandleAtIs
  <2>5. e.direction = Toward(SideOf(e)) /\ e.swing.confirmed <= e.at
    BY <2>1 DEF EventEarned
  <2>6. e.direction = "BULLISH" <=> e.swing.kind = "HIGH"
    BY <2>5 DEF Toward, SideOf
  <2>. QED  BY <2>2, <2>4, <2>5, <2>6
<1>4. ASSUME NEW scope \in ToSet(Scopes),
             LastIn(events, {e \in kept : e.scope = scope}) # Nothing,
             engine.trend[scope] =
               Opposite(LastIn(events, {e \in kept : e.scope = scope}).direction)
      PROVE  Turned(engine.latest, engine.broken, cs,
                    LastIn(events, {e \in kept : e.scope = scope}))
  <2>. DEFINE S == {e \in kept : e.scope = scope}
              last == LastIn(events, S)
  <2>0. last # Nothing /\ engine.trend[scope] = Opposite(last.direction)
    BY <1>4
  <2>1. PICK i \in 1..Len(events) : /\ last = events[i] /\ events[i] \in S
                                    /\ \A j \in i + 1..Len(events) : events[j] \notin S
    <3>. HIDE DEF S, events
    <3>. QED  BY <1>1, <2>0, LastInIs
  <2>2. \A j \in i + 1..Len(events) : events[j] \in kept
    <3>1. Len(events) \in Nat
      BY <1>1
    <3>. QED  BY <1>1, <3>1, ToSetOf
  <2>3. events[i].scope = scope /\ LastOfScope(events, i)
    BY <2>1, <2>2 DEF LastOfScope
  <2>4. Turned(engine.latest, engine.broken, cs, last)
    <3>. HIDE DEF last, S, kept, cs
    <3>1. engine.trend[events[i].scope] = Opposite(events[i].direction)
      BY <2>0, <2>1, <2>3
    <3>2. Turned(engine.latest, engine.broken, cs, events[i])
      BY <1>2, <2>3, <3>1 DEF TrendEarned
    <3>. QED  BY <2>1, <3>2
  <2>. QED  BY <2>4
<1>5. /\ \A e, f \in kept : e.swing = f.swing => e.at = f.at
      /\ \A e, f \in kept : e.scope = f.scope /\ e.at = f.at => e.direction = f.direction
      /\ \A i \in 1..Len(events) : events[i].kind = "MSS" =>
          /\ events[i].displaced
          /\ IF i = 1 THEN Len(events) >= MaxObjects
             ELSE events[i - 1].kind = "CHOCH" /\ events[i - 1].swing = events[i].swing
  BY <1>2, Zenon DEF Alike, Chained
<1>. QED  BY <1>3, <1>4, <1>5, Zenon DEF StructureIsEarned

\* Whatever the candles and the cap are, the structure the engine reports is
\* earned by closed candles (engine.py _breaks, _swing).
THEOREM StructureEarned == Spec => []StructureIsEarned
<1>1. Spec => []ClockInv
  BY ClockRuns
<1>. QED  BY <1>1, EarnedInit, EarnedStep, EarnedHolds, PTL DEF Spec

=============================================================================
