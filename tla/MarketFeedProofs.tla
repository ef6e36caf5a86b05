--------------------------- MODULE MarketFeedProofs ---------------------------
(***************************************************************************)
(* Proofs about MarketFeed, for any timeframes, any number of charts, any  *)
(* size of the queues and any bound on time: the candle engine folds every *)
(* tick once and in order in whatever second it was seeded, closed bars    *)
(* are final, the gap check leaves no hole in the broker's minutes, and    *)
(* the bus forgets no queue in silence.                                    *)
(*                                                                         *)
(* The engine is described by the seconds it knows (EngineAt).  The seed   *)
(* is a fold over bars: FoldSteps unfolds it, and SeedKnows follows it by  *)
(* induction on numbers.                                                   *)
(***************************************************************************)
EXTENDS MarketFeed, DataInduction, FiniteSetTheorems, SequenceTheorems, TLAPS

-----------------------------------------------------------------------------
(* Buckets *)

\* What the assumption says of one timeframe.
LEMMA Lengths ==
    ASSUME NEW tf \in Timeframes
    PROVE  /\ Length[tf] \in Nat /\ Length[tf] > 0
           /\ Base \in Timeframes /\ Widest \in Timeframes
           /\ Length[tf] % Length[Base] = 0 /\ Length[Widest] % Length[tf] = 0
BY TimeframesAssumption

\* A second lies in its bucket.
LEMMA BucketFacts ==
    ASSUME NEW t \in Nat, NEW tf \in Timeframes
    PROVE  /\ Bucket(t, tf) \in Nat /\ Bucket(t, tf) % Length[tf] = 0
           /\ Bucket(t, tf) <= t /\ t < Bucket(t, tf) + Length[tf]
<1>. DEFINE l == Length[tf]
<1>1. l \in Nat /\ l > 0
  BY Lengths
<1>. HIDE DEF l
<1>2. PICK q, r \in Nat : r < l /\ t = l * q + r /\ t % l = r
  BY <1>1, Division
<1>3. t - (t % l) = l * q
  BY <1>1, <1>2
<1>4. (l * q) % l = 0 /\ l * q \in Nat
  BY <1>1, Multiple
<1>5. Bucket(t, tf) = t - (t % l)
  BY DEF Bucket, l
<1>6. Bucket(t, tf) = l * q
  BY <1>3, <1>5
<1>. QED  BY <1>1, <1>2, <1>4, <1>6 DEF l

\* It lies in no other.
LEMMA BucketUnique ==
    ASSUME NEW t \in Nat, NEW tf \in Timeframes, NEW b \in Nat, b % Length[tf] = 0,
           b <= t, t < b + Length[tf]
    PROVE  Bucket(t, tf) = b
<1>1. Length[tf] \in Nat /\ Length[tf] > 0
  BY Lengths
<1>2. /\ Bucket(t, tf) \in Nat /\ Bucket(t, tf) % Length[tf] = 0
      /\ Bucket(t, tf) <= t /\ t < Bucket(t, tf) + Length[tf]
  BY BucketFacts
<1>3. b < Bucket(t, tf) => b + Length[tf] <= Bucket(t, tf)
  BY <1>1, <1>2, Apart
<1>4. Bucket(t, tf) < b => Bucket(t, tf) + Length[tf] <= b
  BY <1>1, <1>2, Apart
<1>. QED  BY <1>1, <1>2, <1>3, <1>4

\* A later second lies in no earlier bucket.
LEMMA BucketMonotone ==
    ASSUME NEW s \in Nat, NEW t \in Nat, s <= t, NEW tf \in Timeframes
    PROVE  Bucket(s, tf) <= Bucket(t, tf)
<1>1. Length[tf] \in Nat /\ Length[tf] > 0
  BY Lengths
<1>2. ASSUME Bucket(t, tf) < Bucket(s, tf)
      PROVE  FALSE
  <2>1. Bucket(t, tf) + Length[tf] <= Bucket(s, tf)
    BY <1>1, <1>2, BucketFacts, Apart
  <2>. QED  BY <1>1, <2>1, BucketFacts
<1>. QED  BY <1>2, BucketFacts

\* The neighbours of a start are starts.
LEMMA Neighbours ==
    ASSUME NEW l \in Nat, l > 0, NEW b \in Nat, b % l = 0
    PROVE  /\ (b + l) % l = 0
           /\ b >= l => (b - l) % l = 0
<1>1. PICK q \in Nat : b = l * q
  BY Multiple
<1>2. b + l = l * (q + 1) /\ b + l \in Nat
  BY <1>1
<1>3. ASSUME b >= l
      PROVE  (b - l) % l = 0
  <2>1. q # 0
    BY <1>1, <1>3
  <2>2. b - l = l * (q - 1) /\ b - l \in Nat /\ q - 1 \in Nat
    BY <1>1, <1>3, <2>1
  <2>. QED  BY <2>2, Multiple
<1>4. (b + l) % l = 0
  BY <1>2, Multiple
<1>. QED  BY <1>3, <1>4

\* What a wider timeframe starts at, a narrower one does.
LEMMA Divides ==
    ASSUME NEW l \in Nat, l > 0, NEW k \in Nat, k > 0, k % l = 0, NEW b \in Nat, b % k = 0
    PROVE  b % l = 0
<1>1. PICK p \in Nat : k = l * p
  BY Multiple
<1>2. PICK q \in Nat : b = k * q
  BY Multiple
<1>3. b = l * (p * q) /\ p * q \in Nat
  BY <1>1, <1>2
<1>. QED  BY <1>3, Multiple

\* Buckets of a narrower timeframe lie within those of a wider one.
LEMMA Within ==
    ASSUME NEW t \in Nat, NEW f \in Timeframes, NEW g \in Timeframes, Length[g] % Length[f] = 0
    PROVE  /\ Bucket(t, g) % Length[f] = 0
           /\ Bucket(t, g) <= Bucket(t, f)
           /\ Bucket(Bucket(t, f), g) = Bucket(t, g)
<1>1. Length[f] \in Nat /\ Length[f] > 0 /\ Length[g] \in Nat /\ Length[g] > 0
  BY Lengths
<1>2. Bucket(t, g) % Length[f] = 0
  BY <1>1, BucketFacts, Divides
<1>3. Bucket(t, g) <= Bucket(t, f)
  <2>1. CASE Bucket(t, f) < Bucket(t, g)
    <3>1. Bucket(t, f) + Length[f] <= Bucket(t, g)
      BY <1>1, <1>2, <2>1, BucketFacts, Apart
    <3>. QED  BY <1>1, <3>1, BucketFacts
  <2>. QED  BY <2>1, BucketFacts
<1>4. Bucket(Bucket(t, f), g) = Bucket(t, g)
  <2>1. Bucket(t, f) < Bucket(t, g) + Length[g]
    BY <1>1, BucketFacts
  <2>. QED  BY <1>3, <2>1, BucketFacts, BucketUnique
<1>. QED  BY <1>2, <1>3, <1>4

-----------------------------------------------------------------------------
(* Ticks *)

\* A sequence of ticks that holds each of some seconds once and in order.
Ticks(ticks, seconds) == ticks \in Seq(Nat) /\ Folds(ticks, seconds)

\* No tick holds no second.
LEMMA NoTicks == Ticks(<<>>, {})
BY DEF Ticks, Folds, ToSet

\* No second is held by no tick.
LEMMA NoTicksAtAll ==
    ASSUME NEW ticks, Ticks(ticks, {})
    PROVE  ticks = <<>>
<1>1. ticks \in Seq(Nat) /\ \A i \in DOMAIN ticks : FALSE
  BY DEF Ticks, Folds, ToSet
<1>2. Len(ticks) \in Nat /\ DOMAIN ticks = 1..Len(ticks)
  BY <1>1, LenProperties
<1>3. 1 \notin 1..Len(ticks)
  BY <1>1, <1>2
<1>4. Len(ticks) = 0
  BY <1>2, <1>3
<1>. QED  BY <1>1, <1>4, EmptySeq

\* Ticks of later seconds follow those of earlier ones.
LEMMA MoreTicks ==
    ASSUME NEW s, NEW t, NEW A \in SUBSET Nat, NEW B \in SUBSET Nat, Ticks(s, A), Ticks(t, B),
           \A a \in A, b \in B : a < b
    PROVE  Ticks(s \o t, A \cup B)
<1>. DEFINE u == s \o t
<1>1. s \in Seq(Nat) /\ t \in Seq(Nat) /\ u \in Seq(Nat)
  BY ConcatProperties DEF Ticks
<1>2. /\ Len(s) \in Nat /\ Len(t) \in Nat /\ Len(u) = Len(s) + Len(t)
      /\ DOMAIN s = 1..Len(s) /\ DOMAIN t = 1..Len(t) /\ DOMAIN u = 1..Len(u)
      /\ \A i \in 1..Len(s) : u[i] = s[i]
      /\ \A i \in 1..Len(t) : u[Len(s) + i] = t[i]
  BY <1>1, ConcatProperties, LenProperties
<1>3. \A i \in 1..Len(u) : i \in 1..Len(s) \/ \E j \in 1..Len(t) : i = Len(s) + j
  <2>. SUFFICES ASSUME NEW i \in 1..Len(u), i \notin 1..Len(s)
                PROVE  \E j \in 1..Len(t) : i = Len(s) + j
    OBVIOUS
  <2>1. i - Len(s) \in 1..Len(t) /\ i = Len(s) + (i - Len(s))
    BY <1>2
  <2>. QED  BY <2>1
<1>4. /\ A = {s[i] : i \in 1..Len(s)} /\ B = {t[i] : i \in 1..Len(t)}
      /\ \A i, j \in 1..Len(s) : i < j => s[i] < s[j]
      /\ \A i, j \in 1..Len(t) : i < j => t[i] < t[j]
  BY <1>2 DEF Ticks, Folds, ToSet
<1>. HIDE DEF u
<1>5. {u[i] : i \in 1..Len(u)} = A \cup B
  <2>1. ASSUME NEW x \in A
        PROVE  \E i \in 1..Len(u) : x = u[i]
    <3>1. PICK i \in 1..Len(s) : x = s[i]
      BY <1>4
    <3>2. i \in 1..Len(u)
      BY <1>2
    <3>. QED  BY <1>2, <3>1, <3>2
  <2>2. ASSUME NEW x \in B
        PROVE  \E i \in 1..Len(u) : x = u[i]
    <3>1. PICK i \in 1..Len(t) : x = t[i]
      BY <1>4
    <3>2. Len(s) + i \in 1..Len(u)
      BY <1>2
    <3>. QED  BY <1>2, <3>1, <3>2
  <2>3. ASSUME NEW i \in 1..Len(u)
        PROVE  u[i] \in A \cup B
    BY <1>2, <1>3, <1>4
  <2>. QED  BY <2>1, <2>2, <2>3
<1>6. ASSUME NEW i \in 1..Len(u), NEW j \in 1..Len(u), i < j
      PROVE  u[i] < u[j]
  <2>1. CASE i \in 1..Len(s) /\ j \in 1..Len(s)
    BY <1>2, <1>4, <1>6, <2>1
  <2>2. CASE i \in 1..Len(s) /\ \E q \in 1..Len(t) : j = Len(s) + q
    <3>1. u[i] \in A /\ u[j] \in B
      BY <1>2, <1>4, <2>2
    <3>. QED  BY <3>1
  <2>3. CASE \E p, q \in 1..Len(t) : i = Len(s) + p /\ j = Len(s) + q
    <3>1. PICK p, q \in 1..Len(t) : i = Len(s) + p /\ j = Len(s) + q
      BY <2>3
    <3>2. p < q
      BY <1>2, <1>6, <3>1
    <3>. QED  BY <1>2, <1>4, <3>1, <3>2
  <2>4. ~((\E p \in 1..Len(t) : i = Len(s) + p) /\ j \in 1..Len(s))
    BY <1>2, <1>6
  <2>. QED  BY <1>3, <2>1, <2>2, <2>3, <2>4
<1>7. DOMAIN u = 1..Len(u)
  BY <1>2
<1>8. u \in Seq(Nat)
  BY <1>1 DEF u
<1>9. Ticks(u, A \cup B)
  BY <1>5, <1>6, <1>7, <1>8 DEF Ticks, Folds, ToSet
<1>. QED  BY <1>9 DEF u

\* A tick holds its second.
LEMMA OneTick ==
    ASSUME NEW t \in Nat
    PROVE  Ticks(<<t>>, {t})
<1>1. <<t>> \in Seq(Nat) /\ Len(<<t>>) = 1 /\ DOMAIN <<t>> = 1..1 /\ <<t>>[1] = t
  OBVIOUS
<1>2. 1..1 = {1}
  OBVIOUS
<1>. QED  BY <1>1, <1>2 DEF Ticks, Folds, ToSet

\* A later tick joins the end.
LEMMA NextTick ==
    ASSUME NEW s, NEW A \in SUBSET Nat, Ticks(s, A), NEW t \in Nat, \A a \in A : a < t
    PROVE  Ticks(Append(s, t), A \cup {t})
<1>1. Append(s, t) = s \o <<t>>
  BY AppendIsConcat DEF Ticks
<1>2. Ticks(s \o <<t>>, A \cup {t})
  BY OneTick, MoreTicks
<1>. QED  BY <1>1, <1>2

\* The seconds of a stretch of time.
LEMMA SecondsAre ==
    ASSUME NEW first \in Nat, NEW stop \in Nat
    PROVE  Ticks(Seconds(first, stop), first..(stop - 1))
<1>. DEFINE n == IF first < stop THEN stop - first ELSE 0
            s == Seconds(first, stop)
<1>1. n \in Nat
  OBVIOUS
<1>2. s = [i \in 1..n |-> first + i - 1]
  BY DEF Seconds
<1>3. n = 0 => first..(stop - 1) = {}
  OBVIOUS
<1>4. n # 0 => n = stop - first
  OBVIOUS
<1>. HIDE DEF n, s
<1>5. \A i \in 1..n : first + i - 1 \in Nat
  BY <1>1
<1>6. s \in Seq(Nat) /\ Len(s) = n /\ DOMAIN s = 1..n /\ \A i \in 1..n : s[i] = first + i - 1
  BY <1>1, <1>2, <1>5
<1>7. ToSet(s) = first..(stop - 1)
  <2>1. ASSUME NEW x \in first..(stop - 1)
        PROVE  \E i \in 1..n : x = first + i - 1
    <3>1. n = stop - first
      BY <1>3, <1>4, x \in first..(stop - 1)
    <3>2. x - first + 1 \in 1..n /\ x = first + (x - first + 1) - 1
      BY <1>1, <3>1
    <3>. QED  BY <3>2
  <2>2. ASSUME NEW i \in 1..n
        PROVE  first + i - 1 \in first..(stop - 1)
    <3>1. n = stop - first
      <4>1. n # 0
        BY <1>1
      <4>. QED  BY <1>4, <4>1
    <3>2. i \in Int /\ 1 <= i /\ i <= stop - first
      BY <3>1
    <3>3. first + i - 1 \in Int /\ first <= first + i - 1 /\ first + i - 1 <= stop - 1
      BY <3>2
    <3>. QED  BY <3>3
  <2>3. ToSet(s) = {s[i] : i \in 1..n}
    BY <1>6 DEF ToSet
  <2>4. \A x \in first..(stop - 1) : x \in ToSet(s)
    BY <1>6, <2>1, <2>3
  <2>5. \A x \in ToSet(s) : x \in first..(stop - 1)
    BY <1>6, <2>2, <2>3
  <2>. QED  BY <2>4, <2>5
<1>8. \A i, j \in 1..Len(s) : i < j => s[i] < s[j]
  BY <1>1, <1>6
<1>. QED  BY <1>6, <1>7, <1>8 DEF Ticks, Folds, s

-----------------------------------------------------------------------------
(* What the engine is made of *)

\* The bar of a bucket up to a second holds the seconds up to it.
LEMMA BarUpToIs ==
    ASSUME NEW start \in Nat, NEW tf \in Timeframes, NEW stop \in Nat, NEW now \in Nat
    PROVE  LET r == BarUpTo(start, tf, stop, now)
               end == start + Length[tf]
           IN  /\ r \in Bar /\ r.start = start /\ r.closed = (end <= now)
               /\ Ticks(r.ticks, start..((IF end < stop THEN end ELSE stop) - 1))
<1>. DEFINE end == start + Length[tf]
            last == IF end < stop THEN end ELSE stop
            s == Seconds(start, last)
<1>1. end \in Nat /\ last \in Nat
  BY Lengths
<1>2. BarUpTo(start, tf, stop, now) = [start |-> start, ticks |-> s, closed |-> end <= now]
  BY DEF BarUpTo
<1>. HIDE DEF last, end, s
<1>3. Ticks(s, start..(last - 1)) /\ s \in Seq(Nat)
  BY <1>1, SecondsAre DEF s, Ticks
<1>4. (end <= now) \in BOOLEAN
  OBVIOUS
<1>. QED  BY <1>2, <1>3, <1>4 DEF Bar, end, last

\* A history has exactly the bar of each bucket that has begun.
LEMMA BarsBeforeAre ==
    ASSUME NEW stop \in Nat, NEW tf \in Timeframes, NEW now \in Nat
    PROVE  /\ BarsBefore(stop, tf, now) \subseteq Bar
           /\ \A r \in BarsBefore(stop, tf, now) :
                 /\ r.start < stop /\ r.start % Length[tf] = 0
                 /\ r = BarUpTo(r.start, tf, stop, now)
           /\ \A s \in Nat : s < stop /\ s % Length[tf] = 0 =>
                 BarUpTo(s, tf, stop, now) \in BarsBefore(stop, tf, now)
<1>. DEFINE Starts == {s \in 0..stop : s % Length[tf] = 0 /\ s < stop}
<1>1. BarsBefore(stop, tf, now) = {BarUpTo(s, tf, stop, now) : s \in Starts}
  BY DEF BarsBefore
<1>2. \A s \in Starts : BarUpTo(s, tf, stop, now) \in Bar /\ BarUpTo(s, tf, stop, now).start = s
  BY BarUpToIs
<1>. QED  BY <1>1, <1>2

\* A prefix is a sequence of ticks.
LEMMA PrefixTypes ==
    ASSUME NEW e \in Engine, NEW base \in Bar, NEW tf \in Timeframes
    PROVE  Prefix(e, base, tf) \in Seq(Nat)
<1>1. <<>> \in Seq(Nat) /\ e.prefix[tf] \in Seq(Nat)
  BY DEF Engine
<1>2. e.base # NoBar => e.prefix[tf] \o e.base.ticks \in Seq(Nat)
  BY <1>1, ConcatProperties DEF Engine, Bar
<1>. QED  BY <1>1, <1>2 DEF Prefix

\* Folding a bar into an engine gives an engine.
LEMMA ReplaceTypes ==
    ASSUME NEW e \in Engine, NEW base \in Bar
    PROVE  ReplaceBase(e, base) \in Engine
<1>. DEFINE prefix == [tf \in Timeframes |-> Prefix(e, base, tf)]
            current == [tf \in Timeframes |->
                          [start |-> Bucket(base.start, tf), ticks |-> prefix[tf] \o base.ticks,
                           closed |-> FALSE]]
<1>1. prefix \in [Timeframes -> Seq(Nat)]
  BY PrefixTypes
<1>2. current \in [Timeframes -> Bar]
  <2>. SUFFICES ASSUME NEW tf \in Timeframes
                PROVE  Bucket(base.start, tf) \in Nat /\ prefix[tf] \o base.ticks \in Seq(Nat)
    BY DEF Bar
  <2>1. base.start \in Nat /\ base.ticks \in Seq(Nat) /\ prefix[tf] \in Seq(Nat)
    BY <1>1 DEF Bar
  <2>. HIDE DEF prefix
  <2>. QED  BY <2>1, BucketFacts, ConcatProperties
<1>3. ReplaceBase(e, base) = [base |-> base, prefix |-> prefix, current |-> current]
  BY DEF ReplaceBase
<1>. HIDE DEF prefix, current
<1>. QED  BY <1>1, <1>2, <1>3 DEF Engine

\* A tick gives a bar.
LEMMA ExtendedTypes ==
    ASSUME NEW e \in Engine, NEW t \in Nat
    PROVE  Extended(e, t) \in Bar
<1>. DEFINE start == Bucket(t, Base)
            old == IF e.base # NoBar /\ e.base.start = start THEN e.base.ticks ELSE <<>>
<1>1. start \in Nat
  BY TimeframesAssumption, BucketFacts
<1>2. old \in Seq(Nat)
  BY DEF Engine, Bar
<1>3. Extended(e, t) = [start |-> start, ticks |-> Append(old, t), closed |-> FALSE]
  BY DEF Extended
<1>. HIDE DEF start, old
<1>4. Append(old, t) \in Seq(Nat)
  BY <1>2, AppendProperties
<1>. QED  BY <1>1, <1>3, <1>4 DEF Bar

\* A tick gives an engine, and the bars it returns are bars.
LEMMA IngestTypes ==
    ASSUME NEW e \in Engine, NEW t \in Nat
    PROVE  Ingested(e, t) \in Engine /\ Returned(e, t) \in Bars
<1>1. Ingested(e, t) \in Engine
  BY ExtendedTypes, ReplaceTypes DEF Ingested
<1>2. \A tf \in Timeframes : Finished(e, Extended(e, t))[tf] \subseteq Bar
  <2>. SUFFICES ASSUME NEW tf \in Timeframes, Rolls(e, Extended(e, t), tf)
                PROVE  [e.current[tf] EXCEPT !.closed = TRUE] \in Bar
    BY DEF Finished
  <2>1. e.current[tf] \in Bar
    BY DEF Rolls, Engine
  <2>. QED  BY <2>1 DEF Bar
<1>3. \A tf \in Timeframes : Ingested(e, t).current[tf] \in Bar
  <2>. DEFINE base == Extended(e, t)
              now == ReplaceBase(e, base)
  <2>. SUFFICES ASSUME NEW tf \in Timeframes
                PROVE  now.current[tf] \in Bar
    BY DEF Ingested
  <2>1. now.current[tf].closed = FALSE /\ now.current[tf] # NoBar
    <3>1. now.current[tf] = [start |-> Bucket(base.start, tf),
                             ticks |-> Prefix(e, base, tf) \o base.ticks, closed |-> FALSE]
      BY DEF ReplaceBase
    <3>2. base \in Bar /\ Prefix(e, base, tf) \in Seq(Nat)
      BY ExtendedTypes, PrefixTypes
    <3>3. Bucket(base.start, tf) \in Nat /\ Prefix(e, base, tf) \o base.ticks \in Seq(Nat)
      BY <3>2, BucketFacts, ConcatProperties DEF Bar
    <3>. HIDE DEF now
    <3>4. now.current[tf] \in Bar
      BY <3>1, <3>3 DEF Bar
    <3>5. now.current[tf].closed = FALSE
      BY <3>1
    <3>. QED  BY <3>4, <3>5, NoBarAssumption
  <2>2. now \in Engine
    BY ExtendedTypes, ReplaceTypes
  <2>. HIDE DEF now
  <2>. QED  BY <2>1, <2>2 DEF Engine
<1>. QED  BY <1>1, <1>2, <1>3 DEF Returned, Bars

-----------------------------------------------------------------------------
(* The seed *)

\* A fold over bars is a chain of engines.
LEMMA FoldSteps ==
    ASSUME NEW n \in Nat, NEW bases \in [1..n -> Bar]
    PROVE  \E h : /\ h[0] = EmptyEngine
                  /\ \A k \in 1..n : h[k] = ReplaceBase(h[k - 1], bases[k])
                  /\ FoldLeft(ReplaceBase, EmptyEngine, bases) = h[n]
<1>. DEFINE Step(g, s) == IF s = {} THEN EmptyEngine
                          ELSE ReplaceBase(g[s \ {Max(s)}], bases[Max(s)])
            Small(k) == SUBSET (1..k)
            Upto(g, k) == g = [s \in Small(k) |-> Step(g, s)]
            S == {k \in Nat : \E g : Upto(g, k)}
<1>1. \A k \in Nat : \A s \in Small(k + 1) : s # {} => s \ {Max(s)} \in Small(k)
  <2>. SUFFICES ASSUME NEW k \in Nat, NEW s \in Small(k + 1), s # {}
                PROVE  s \ {Max(s)} \in Small(k)
    OBVIOUS
  <2>. DEFINE m == k + 1
  <2>1. s \in SUBSET (0..m) /\ m \in Nat
    OBVIOUS
  <2>2. Max(s) \in s /\ \A y \in s : y <= Max(s)
    <3>. HIDE DEF m
    <3>. QED  BY <2>1, MaxOfBounded
  <2>. HIDE DEF Max
  <2>3. ASSUME NEW y \in s \ {Max(s)}
        PROVE  y \in 1..k
    <3>1. y \in 1..k + 1 /\ Max(s) \in 1..k + 1 /\ y <= Max(s) /\ y # Max(s)
      BY <2>2
    <3>. QED  BY <3>1
  <2>. QED  BY <2>3
<1>2. \A k \in Nat : Small(k) \subseteq Small(k + 1)
  OBVIOUS
<1>3. 0 \in S
  <2>. DEFINE g == [s \in Small(0) |-> EmptyEngine]
  <2>1. \A s \in Small(0) : s = {}
    OBVIOUS
  <2>2. \A s \in Small(0) : Step(g, s) = g[s]
    BY <2>1
  <2>3. Upto(g, 0)
    <3>. HIDE DEF Step
    <3>. QED  BY <2>2
  <2>. HIDE DEF Upto, g
  <2>. QED  BY <2>3
<1>4. ASSUME NEW k \in Nat, k \in S
      PROVE  k + 1 \in S
  <2>1. PICK g : Upto(g, k)
    BY <1>4
  <2>. DEFINE h == [s \in Small(k + 1) |-> IF s \in Small(k) THEN g[s] ELSE Step(g, s)]
  <2>2. \A s \in Small(k) : s \in Small(k + 1) /\ h[s] = g[s]
    BY <1>2
  <2>3. \A s \in Small(k + 1) : Step(h, s) = Step(g, s)
    <3>. HIDE DEF h, Small
    <3>. QED  BY <1>1, <2>2
  <2>. HIDE DEF Step, Small
  <2>4. \A s \in Small(k) : g[s] = Step(g, s)
    BY <2>1
  <2>5. \A s \in Small(k + 1) : h[s] = Step(h, s)
    BY <2>3, <2>4
  <2>6. Upto(h, k + 1)
    BY <2>5
  <2>. HIDE DEF Upto, h
  <2>. QED  BY <2>6
<1>5. n \in S
  <2>. HIDE DEF S
  <2>. QED  BY <1>3, <1>4, SetInduction
<1>. DEFINE All(g) == g = [s \in SUBSET (1..n) |-> Step(g, s)]
<1>6. \E g : All(g)
  <2>1. PICK g : Upto(g, n)
    BY <1>5
  <2>2. All(g)
    <3>. HIDE DEF Step
    <3>. QED  BY <2>1
  <2>. HIDE DEF All
  <2>. QED  BY <2>2
<1>. DEFINE f == CHOOSE g : All(g)
<1>7. All(f)
  <2>. HIDE DEF All
  <2>. QED  BY <1>6
<1>8. FoldLeft(ReplaceBase, EmptyEngine, bases) = f[1..n]
  BY DEF FoldLeft, MapThenFoldSet
<1>. HIDE DEF f
<1>9. \A s \in SUBSET (1..n) : f[s] = Step(f, s)
  BY <1>7
<1>. DEFINE h == [k \in 0..n |-> f[1..k]]
<1>10. h[0] = EmptyEngine
  <2>1. h[0] = f[{}]
    OBVIOUS
  <2>2. f[{}] = EmptyEngine
    BY <1>9
  <2>. QED  BY <2>1, <2>2
<1>11. ASSUME NEW k \in 1..n
       PROVE  h[k] = ReplaceBase(h[k - 1], bases[k])
  <2>1. 1..k \in SUBSET (1..n) /\ 1..k # {} /\ 1..k \in SUBSET (0..n)
    OBVIOUS
  <2>2. Max(1..k) = k
    <3>1. Max(1..k) \in 1..k /\ \A y \in 1..k : y <= Max(1..k)
      BY <2>1, MaxOfBounded
    <3>. HIDE DEF Max
    <3>2. k \in 1..k
      OBVIOUS
    <3>. QED  BY <3>1, <3>2
  <2>3. (1..k) \ {k} = 1..(k - 1)
    OBVIOUS
  <2>. HIDE DEF Max
  <2>4. f[1..k] = ReplaceBase(f[1..(k - 1)], bases[k])
    BY <1>9, <2>1, <2>2, <2>3
  <2>5. h[k] = f[1..k] /\ h[k - 1] = f[1..(k - 1)]
    OBVIOUS
  <2>. QED  BY <2>4, <2>5
<1>12. FoldLeft(ReplaceBase, EmptyEngine, bases) = h[n]
  BY <1>8
<1>. HIDE DEF h
<1>. QED  BY <1>10, <1>11, <1>12

-----------------------------------------------------------------------------
(* What the engine knows *)

\* The engine has folded the seconds of K, the last of which is m: its M1 bar holds those
\* of the minute of m, its current bars those of their buckets, and a prefix what its
\* bucket holds before that minute.
EngineAt(e, K, m) ==
    /\ m \in K /\ \A s \in K : s <= m
    /\ e.base # NoBar /\ e.base.start = Bucket(m, Base)
    /\ Ticks(e.base.ticks, {s \in K : s >= Bucket(m, Base)})
    /\ \A tf \in Timeframes :
          /\ e.current[tf] # NoBar
          /\ e.current[tf].start = Bucket(m, tf)
          /\ e.current[tf].closed = FALSE
          /\ Ticks(e.current[tf].ticks, {s \in K : s >= Bucket(m, tf)})
          /\ Ticks(e.prefix[tf], {s \in K : s >= Bucket(m, tf) /\ s < Bucket(m, Base)})

\* Seconds from b on are those before c and those from c on.
LEMMA Split ==
    ASSUME NEW K \in SUBSET Nat, NEW b \in Nat, NEW c \in Nat, b <= c
    PROVE  /\ {s \in K : s >= b /\ s < c} \cup {s \in K : s >= c} = {s \in K : s >= b}
           /\ \A x \in {s \in K : s >= b /\ s < c}, y \in {s \in K : s >= c} : x < y
<1>1. \A s \in K : s >= b <=> ((s >= b /\ s < c) \/ s >= c)
  OBVIOUS
<1>2. \A x \in {s \in K : s >= b /\ s < c}, y \in {s \in K : s >= c} : x < y
  OBVIOUS
<1>. QED  BY <1>1, <1>2

\* What ReplaceBase computes for one timeframe.
LEMMA ReplaceBaseIs ==
    ASSUME NEW e, NEW base
    PROVE  /\ ReplaceBase(e, base).base = base
           /\ \A tf \in Timeframes :
                 /\ ReplaceBase(e, base).prefix[tf] = Prefix(e, base, tf)
                 /\ ReplaceBase(e, base).current[tf] =
                      [start |-> Bucket(base.start, tf),
                       ticks |-> Prefix(e, base, tf) \o base.ticks, closed |-> FALSE]
BY DEF ReplaceBase

\* An engine whose prefixes are right for a new M1 bar knows what the bar adds.
LEMMA ReplaceKnows ==
    ASSUME NEW e \in Engine, NEW base \in Bar, NEW K \in SUBSET Nat, NEW m \in K,
           \A s \in K : s <= m, base.start = Bucket(m, Base),
           Ticks(base.ticks, {s \in K : s >= Bucket(m, Base)}),
           \A tf \in Timeframes :
              Ticks(Prefix(e, base, tf), {s \in K : s >= Bucket(m, tf) /\ s < Bucket(m, Base)})
    PROVE  EngineAt(ReplaceBase(e, base), K, m)
<1>. DEFINE new == ReplaceBase(e, base)
<1>1. base # NoBar /\ new.base = base /\ \A s \in K : s \in Nat
  BY NoBarAssumption, ReplaceBaseIs
<1>2. ASSUME NEW tf \in Timeframes
      PROVE  /\ new.current[tf] # NoBar
             /\ new.current[tf].start = Bucket(m, tf)
             /\ new.current[tf].closed = FALSE
             /\ Ticks(new.current[tf].ticks, {s \in K : s >= Bucket(m, tf)})
             /\ Ticks(new.prefix[tf], {s \in K : s >= Bucket(m, tf) /\ s < Bucket(m, Base)})
  <2>. DEFINE A == {s \in K : s >= Bucket(m, tf) /\ s < Bucket(m, Base)}
              B == {s \in K : s >= Bucket(m, Base)}
              ticks == Prefix(e, base, tf) \o base.ticks
  <2>1. new.prefix[tf] = Prefix(e, base, tf)
        /\ new.current[tf] = [start |-> Bucket(base.start, tf), ticks |-> ticks, closed |-> FALSE]
    BY ReplaceBaseIs
  <2>2. /\ Bucket(m, tf) \in Nat /\ Bucket(m, Base) \in Nat
        /\ Bucket(m, tf) <= Bucket(m, Base)
        /\ Bucket(base.start, tf) = Bucket(m, tf)
    <3>1. Base \in Timeframes /\ Length[tf] % Length[Base] = 0
      BY Lengths
    <3>. QED  BY <3>1, Within, BucketFacts
  <2>3. A \cup B = {s \in K : s >= Bucket(m, tf)} /\ \A a \in A, b \in B : a < b
    BY <2>2, Split
  <2>4. Ticks(ticks, A \cup B)
    <3>1. A \in SUBSET Nat /\ B \in SUBSET Nat
      OBVIOUS
    <3>2. Ticks(Prefix(e, base, tf), A) /\ Ticks(base.ticks, B)
      OBVIOUS
    <3>. HIDE DEF A, B
    <3>. QED  BY <2>3, <3>1, <3>2, MoreTicks
  <2>. HIDE DEF A, B, new
  <2>5. ticks \in Seq(Nat)
    BY <2>4 DEF Ticks
  <2>. HIDE DEF ticks
  <2>6. new.current[tf] \in Bar
    BY <2>1, <2>2, <2>5 DEF Bar
  <2>7. Ticks(Prefix(e, base, tf), A)
    BY DEF A
  <2>8. new.current[tf] # NoBar
    BY <2>6, NoBarAssumption
  <2>9. /\ new.current[tf].start = Bucket(m, tf) /\ new.current[tf].closed = FALSE
        /\ Ticks(new.current[tf].ticks, {s \in K : s >= Bucket(m, tf)})
    BY <2>1, <2>2, <2>3, <2>4
  <2>. QED  BY <2>1, <2>7, <2>8, <2>9 DEF A
<1>. HIDE DEF new
<1>. QED  BY <1>1, <1>2 DEF EngineAt, new

\* Folding an M1 bar into an engine that knows what precedes the bar.
LEMMA NextBar ==
    ASSUME NEW e \in Engine, NEW J \in SUBSET Nat, NEW n \in Nat, EngineAt(e, J, n),
           NEW base \in Bar, NEW K \in SUBSET Nat, NEW m \in K, \A s \in K : s <= m, n <= m,
           base.start = Bucket(m, Base), Ticks(base.ticks, {s \in K : s >= Bucket(m, Base)}),
           {s \in K : s < Bucket(m, Base)} = {s \in J : s < Bucket(m, Base)}
    PROVE  EngineAt(ReplaceBase(e, base), K, m)
<1>1. Base \in Timeframes /\ (\A s \in K : s \in Nat) /\ (\A s \in J : s \in Nat)
  BY TimeframesAssumption
<1>2. ASSUME NEW tf \in Timeframes
      PROVE  Ticks(Prefix(e, base, tf), {s \in K : s >= Bucket(m, tf) /\ s < Bucket(m, Base)})
  <2>. DEFINE A == {s \in K : s >= Bucket(m, tf) /\ s < Bucket(m, Base)}
              before == {s \in J : s >= Bucket(n, tf) /\ s < Bucket(n, Base)}
              minute == {s \in J : s >= Bucket(n, Base)}
  <2>1. /\ Bucket(m, tf) \in Nat /\ Bucket(m, Base) \in Nat
        /\ Bucket(n, tf) \in Nat /\ Bucket(n, Base) \in Nat
        /\ Bucket(n, tf) <= Bucket(n, Base) /\ Bucket(n, Base) <= Bucket(m, Base)
        /\ Bucket(n, tf) <= Bucket(m, tf)
        /\ Bucket(base.start, tf) = Bucket(m, tf)
    <3>1. Length[tf] % Length[Base] = 0
      BY Lengths
    <3>. QED  BY <1>1, <3>1, Within, BucketFacts, BucketMonotone
  <2>2. A = {s \in J : s >= Bucket(m, tf) /\ s < Bucket(m, Base)}
    OBVIOUS
  <2>3. Rolls(e, base, tf) <=> Bucket(n, tf) # Bucket(m, tf)
    BY <2>1 DEF Rolls, EngineAt
  <2>4. CASE Rolls(e, base, tf)
    <3>1. Bucket(n, tf) < Bucket(m, tf)
      BY <2>1, <2>3, <2>4
    <3>2. n < Bucket(m, tf)
      <4>1. Bucket(n, tf) + Length[tf] <= Bucket(m, tf)
        BY <3>1, Lengths, BucketFacts, Apart
      <4>2. n < Bucket(n, tf) + Length[tf] /\ Length[tf] \in Nat
        BY BucketFacts, Lengths
      <4>. QED  BY <2>1, <4>1, <4>2
    <3>3. A = {}
      <4>1. \A s \in J : s \in Nat /\ s <= n
        BY DEF EngineAt
      <4>2. \A s \in J : ~(s >= Bucket(m, tf))
        BY <2>1, <3>2, <4>1
      <4>. QED  BY <2>2, <4>2
    <3>4. Prefix(e, base, tf) = <<>>
      BY <2>4 DEF Prefix
    <3>. QED  BY <3>3, <3>4, NoTicks
  <2>5. CASE ~Rolls(e, base, tf)
    <3>1. Bucket(n, tf) = Bucket(m, tf)
      BY <2>3, <2>5
    <3>2. e.base.start # base.start <=> Bucket(n, Base) # Bucket(m, Base)
      BY DEF EngineAt
    <3>3. CASE e.base.start # base.start
      <4>1. tf # Base
        BY <3>1, <3>2, <3>3
      <4>2. Prefix(e, base, tf) = e.prefix[tf] \o e.base.ticks
        BY <2>5, <3>3, <4>1 DEF Prefix, EngineAt
      <4>3. A = before \cup minute
        <5>1. n < Bucket(m, Base)
          <6>1. Bucket(n, Base) < Bucket(m, Base)
            BY <2>1, <3>2, <3>3
          <6>3. Bucket(n, Base) + Length[Base] <= Bucket(m, Base)
            BY <1>1, <6>1, Lengths, BucketFacts, Apart
          <6>2. n < Bucket(n, Base) + Length[Base] /\ Length[Base] \in Nat
            BY <1>1, BucketFacts, Lengths
          <6>. QED  BY <2>1, <6>2, <6>3
        <5>2. \A s \in J : s <= n
          BY DEF EngineAt
        <5>3. \A s \in J : s < Bucket(m, Base)
          BY <1>1, <2>1, <5>1, <5>2
        <5>4. A = {s \in J : s >= Bucket(n, tf)}
          <6>1. \A s \in J : s >= Bucket(m, tf) /\ s < Bucket(m, Base) <=> s >= Bucket(n, tf)
            BY <3>1, <5>3
          <6>. QED  BY <2>2, <6>1
        <5>5. before \cup minute = {s \in J : s >= Bucket(n, tf)}
          BY <2>1, Split
        <5>. HIDE DEF before, minute, A
        <5>. QED  BY <5>4, <5>5
      <4>4. Ticks(e.prefix[tf], before) /\ Ticks(e.base.ticks, minute)
        BY DEF EngineAt
      <4>5. before \in SUBSET Nat /\ minute \in SUBSET Nat
        OBVIOUS
      <4>6. \A a \in before, b \in minute : a < b
        BY <2>1, Split
      <4>. HIDE DEF before, minute, A
      <4>7. Ticks(e.prefix[tf] \o e.base.ticks, before \cup minute)
        BY <4>4, <4>5, <4>6, MoreTicks
      <4>8. Ticks(Prefix(e, base, tf), A)
        BY <4>2, <4>3, <4>7
      <4>. QED  BY <4>8 DEF A
    <3>4. CASE e.base.start = base.start
      <4>1. Prefix(e, base, tf) = e.prefix[tf]
        BY <2>5, <3>4 DEF Prefix
      <4>2. A = before
        BY <2>2, <3>1, <3>2, <3>4
      <4>3. Ticks(e.prefix[tf], before)
        BY DEF EngineAt
      <4>. HIDE DEF before, A
      <4>4. Ticks(Prefix(e, base, tf), A)
        BY <4>1, <4>2, <4>3
      <4>. QED  BY <4>4 DEF A
    <3>. QED  BY <3>3, <3>4
  <2>. QED  BY <2>4, <2>5
<1>. QED  BY <1>2, ReplaceKnows

\* The first bar of a seed.
LEMMA FirstBar ==
    ASSUME NEW base \in Bar, NEW K \in SUBSET Nat, NEW m \in K, \A s \in K : s <= m,
           base.start = Bucket(m, Base), Ticks(base.ticks, K), \A s \in K : base.start <= s
    PROVE  EngineAt(ReplaceBase(EmptyEngine, base), K, m)
<1>1. EmptyEngine \in Engine
  BY EmptySeq DEF EmptyEngine, Engine
<1>2. /\ Bucket(m, Base) \in Nat
      /\ {s \in K : s >= Bucket(m, Base)} = K
      /\ \A b : {s \in K : s >= b /\ s < Bucket(m, Base)} = {}
  <2>1. Bucket(m, Base) \in Nat
    BY TimeframesAssumption, BucketFacts
  <2>2. \A s \in K : s >= Bucket(m, Base) /\ ~(s < Bucket(m, Base))
    BY <2>1
  <2>. QED  BY <2>1, <2>2
<1>3. \A tf \in Timeframes : Prefix(EmptyEngine, base, tf) = <<>>
  BY DEF Prefix, Rolls, EmptyEngine
<1>4. \A tf \in Timeframes :
         Ticks(Prefix(EmptyEngine, base, tf), {s \in K : s >= Bucket(m, tf) /\ s < Bucket(m, Base)})
  BY <1>2, <1>3, NoTicks
<1>. QED  BY <1>1, <1>2, <1>4, ReplaceKnows

\* A tick after what the engine knows.
LEMMA IngestKnows ==
    ASSUME NEW e \in Engine, NEW K \in SUBSET Nat, NEW m \in Nat, EngineAt(e, K, m),
           NEW t \in Nat, m < t
    PROVE  EngineAt(Ingested(e, t), K \cup {t}, t)
<1>. DEFINE base == Extended(e, t)
            start == Bucket(t, Base)
            old == IF e.base # NoBar /\ e.base.start = start THEN e.base.ticks ELSE <<>>
            known == {s \in K : s >= start}
            now == K \cup {t}
<1>1. /\ Base \in Timeframes /\ start \in Nat /\ start <= t
      /\ Bucket(m, Base) \in Nat /\ m \in K /\ m < Bucket(m, Base) + Length[Base]
      /\ Bucket(m, Base) <= start
  <2>1. Base \in Timeframes
    BY TimeframesAssumption
  <2>2. Bucket(m, Base) <= start
    BY <2>1, BucketMonotone
  <2>3. m \in K
    BY DEF EngineAt
  <2>4. start \in Nat /\ start <= t
    BY <2>1, BucketFacts
  <2>5. Bucket(m, Base) \in Nat /\ m < Bucket(m, Base) + Length[Base]
    BY <2>1, BucketFacts
  <2>. QED  BY <2>1, <2>2, <2>3, <2>4, <2>5
<1>2. \A s \in K : s \in Nat /\ s <= m
  BY DEF EngineAt
<1>3. Ticks(old, known)
  <2>1. CASE e.base.start = start
    <3>1. Bucket(m, Base) = start /\ old = e.base.ticks
      BY <2>1 DEF EngineAt
    <3>. QED  BY <3>1 DEF EngineAt
  <2>2. CASE e.base.start # start
    <3>1. Bucket(m, Base) < start
      BY <1>1, <2>2 DEF EngineAt
    <3>2. Bucket(m, Base) + Length[Base] <= start
      BY <1>1, <3>1, Lengths, BucketFacts, Apart
    <3>3. Length[Base] \in Nat
      BY <1>1, Lengths
    <3>4. known = {}
      <4>1. \A s \in K : ~(s >= start)
        BY <1>1, <1>2, <3>2, <3>3
      <4>. QED  BY <4>1
    <3>5. old = <<>>
      BY <2>2
    <3>. QED  BY <3>4, <3>5, NoTicks
  <2>. QED  BY <2>1, <2>2
<1>4. base = [start |-> start, ticks |-> Append(old, t), closed |-> FALSE]
  BY DEF Extended
<1>5. base \in Bar
  BY ExtendedTypes
<1>6. Ticks(base.ticks, {s \in now : s >= start})
  <2>1. known \in SUBSET Nat /\ \A s \in known : s < t
    <3>1. \A s \in K : s < t
      BY <1>2
    <3>. QED  BY <3>1
  <2>2. {s \in now : s >= start} = known \cup {t}
    BY <1>1
  <2>. HIDE DEF old, known
  <2>3. Ticks(Append(old, t), known \cup {t})
    BY <1>3, <2>1, NextTick
  <2>4. base.ticks = Append(old, t)
    BY <1>4
  <2>. QED  BY <2>2, <2>3, <2>4
<1>7. now \in SUBSET Nat /\ t \in now /\ \A s \in now : s <= t
  BY <1>2
<1>8. {s \in now : s < start} = {s \in K : s < start}
  BY <1>1
<1>9. base.start = start
  BY <1>4
<1>. HIDE DEF base, now
<1>10. EngineAt(ReplaceBase(e, base), now, t)
  BY <1>5, <1>6, <1>7, <1>8, <1>9, NextBar
<1>. QED  BY <1>10 DEF Ingested, base, now

\* Two sequences that fold the same seconds are the same.
LEMMA TicksAreUnique ==
    ASSUME NEW s, NEW t, NEW A, Ticks(s, A), Ticks(t, A)
    PROVE  s = t
<1>1. /\ s \in Seq(Nat) /\ t \in Seq(Nat) /\ Len(s) \in Nat /\ Len(t) \in Nat
      /\ DOMAIN s = 1..Len(s) /\ DOMAIN t = 1..Len(t)
  BY LenProperties DEF Ticks
<1>2. /\ \A i \in 1..Len(s) : s[i] \in Nat /\ \E j \in 1..Len(t) : t[j] = s[i]
      /\ \A i \in 1..Len(t) : t[i] \in Nat /\ \E j \in 1..Len(s) : s[j] = t[i]
      /\ \A i, j \in 1..Len(s) : i < j => s[i] < s[j]
      /\ \A i, j \in 1..Len(t) : i < j => t[i] < t[j]
  <2>1. {s[i] : i \in 1..Len(s)} = {t[i] : i \in 1..Len(t)}
    BY <1>1 DEF Ticks, Folds, ToSet
  <2>2. \A i \in 1..Len(s) : s[i] \in {t[j] : j \in 1..Len(t)}
    BY <2>1
  <2>3. \A i \in 1..Len(t) : t[i] \in {s[j] : j \in 1..Len(s)}
    BY <2>1
  <2>4. /\ \A i \in 1..Len(s) : s[i] \in Nat
        /\ \A i \in 1..Len(t) : t[i] \in Nat
    BY <1>1
  <2>. QED  BY <2>2, <2>3, <2>4 DEF Ticks, Folds
<1>. DEFINE Same(k) == \A i \in 1..k : (i <= Len(s) <=> i <= Len(t)) /\ (i <= Len(s) => s[i] = t[i])
            S == {k \in Nat : Same(k)}
<1>3. 0 \in S
  OBVIOUS
<1>4. ASSUME NEW k \in Nat, k \in S
      PROVE  k + 1 \in S
  <2>. DEFINE n == k + 1
  <2>1. Same(k) /\ n \in Nat /\ n > 0 /\ k = n - 1
    BY <1>4
  <2>2. \A i \in 1..n : i \in 1..k \/ i = n
    BY <2>1
  <2>. HIDE DEF n
  <2>3. ASSUME n <= Len(s)
        PROVE  n <= Len(t) /\ t[n] <= s[n]
    <3>1. n \in 1..Len(s)
      BY <2>1, <2>3
    <3>2. PICK j \in 1..Len(t) : t[j] = s[n]
      BY <1>2, <3>1
    <3>3. ~(j < n)
      <4>. SUFFICES ASSUME j < n PROVE FALSE
        OBVIOUS
      <4>1. j \in 1..k /\ j \in 1..Len(s)
        BY <1>1, <2>1, <3>1
      <4>2. s[j] = t[j] /\ s[j] < s[n]
        BY <1>1, <1>2, <2>1, <3>1, <4>1
      <4>3. s[n] \in Nat
        BY <1>2, <3>1
      <4>. QED  BY <3>2, <4>2, <4>3
    <3>4. n \in 1..Len(t)
      BY <1>1, <2>1, <3>3
    <3>5. j = n \/ t[n] < t[j]
      BY <1>2, <2>1, <3>3, <3>4
    <3>6. t[n] \in Nat /\ s[n] \in Nat /\ n <= Len(t)
      BY <1>1, <1>2, <3>1, <3>4
    <3>. QED  BY <3>2, <3>5, <3>6
  <2>4. ASSUME n <= Len(t)
        PROVE  n <= Len(s) /\ s[n] <= t[n]
    <3>1. n \in 1..Len(t)
      BY <2>1, <2>4
    <3>2. PICK j \in 1..Len(s) : s[j] = t[n]
      BY <1>2, <3>1
    <3>3. ~(j < n)
      <4>. SUFFICES ASSUME j < n PROVE FALSE
        OBVIOUS
      <4>1. j \in 1..k /\ j \in 1..Len(t)
        BY <1>1, <2>1, <3>1
      <4>2. s[j] = t[j] /\ t[j] < t[n]
        BY <1>1, <1>2, <2>1, <3>1, <4>1
      <4>3. t[n] \in Nat
        BY <1>2, <3>1
      <4>. QED  BY <3>2, <4>2, <4>3
    <3>4. n \in 1..Len(s)
      BY <1>1, <2>1, <3>3
    <3>5. j = n \/ s[n] < s[j]
      BY <1>2, <2>1, <3>3, <3>4
    <3>6. t[n] \in Nat /\ s[n] \in Nat /\ n <= Len(s)
      BY <1>1, <1>2, <3>1, <3>4
    <3>. QED  BY <3>2, <3>5, <3>6
  <2>5. (n <= Len(s) <=> n <= Len(t)) /\ (n <= Len(s) => s[n] = t[n])
    <3>1. n <= Len(s) /\ n <= Len(t) => s[n] \in Nat /\ t[n] \in Nat
      <4>1. n <= Len(s) /\ n <= Len(t) => n \in 1..Len(s) /\ n \in 1..Len(t)
        BY <1>1, <2>1
      <4>. QED  BY <1>2, <4>1
    <3>. QED  BY <2>3, <2>4, <3>1
  <2>6. Same(n)
    BY <2>1, <2>2, <2>5
  <2>. QED  BY <2>1, <2>6 DEF n
<1>5. \A k \in Nat : Same(k)
  <2>1. Nat \subseteq S
    <3>. HIDE DEF S
    <3>. QED  BY <1>3, <1>4, SetInduction
  <2>. QED  BY <2>1
<1>6. Len(s) = Len(t)
  <2>1. Same(Len(s)) /\ Same(Len(t))
    BY <1>1, <1>5
  <2>2. Len(s) <= Len(t)
    <3>1. CASE Len(s) \in 1..Len(s)
      BY <1>1, <2>1, <3>1
    <3>. QED  BY <1>1, <3>1
  <2>3. Len(t) <= Len(s)
    <3>1. ASSUME Len(t) # 0
          PROVE  Len(t) <= Len(s)
      <4>1. Len(t) \in 1..Len(t) /\ Len(t) <= Len(t)
        BY <1>1, <3>1
      <4>. QED  BY <2>1, <4>1
    <3>. QED  BY <1>1, <3>1
  <2>4. \A a, b \in Nat : a <= b /\ b <= a => a = b
    OBVIOUS
  <2>. HIDE DEF Same
  <2>. QED  BY <1>1, <2>2, <2>3, <2>4, Zenon
<1>7. \A i \in 1..Len(s) : s[i] = t[i]
  <2>1. Same(Len(s))
    BY <1>1, <1>5
  <2>. QED  BY <1>1, <2>1
<1>. QED  BY <1>1, <1>6, <1>7, SeqEqual

\* The engine seeded at now knows the seconds before now from the first bar of the seed on,
\* which is no later than the week of now: what every bucket of now holds.
LEMMA SeedKnows ==
    ASSUME NEW now \in Nat, now > 0
    PROVE  \E lo \in Nat : /\ lo <= Bucket(now, Widest)
                           /\ Seeded(now) \in Engine
                           /\ EngineAt(Seeded(now), lo..(now - 1), now - 1)
<1>. DEFINE l == Length[Base]
            week == Bucket(now, Widest)
            all == (now + l - 1) \div l
            asked == (now - week) \div l + 1
            count == IF all < asked THEN all ELSE asked
            first == all - count
            lo == first * l
            b(k) == (first + k - 1) * l
            end(k) == IF b(k) + l < now THEN b(k) + l ELSE now
<1>1. /\ l \in Nat /\ l > 0 /\ Base \in Timeframes /\ Widest \in Timeframes
      /\ week \in Nat /\ week <= now /\ week % l = 0
  <2>1. Base \in Timeframes /\ Widest \in Timeframes /\ Length[Widest] % Length[Base] = 0
    BY TimeframesAssumption
  <2>2. l \in Nat /\ l > 0
    BY <2>1, Lengths
  <2>. QED  BY <2>1, <2>2, Within, BucketFacts
<1>. HIDE DEF week
<1>2. all \in Nat /\ 1 <= all /\ now <= l * all /\ l * all < now + l
  <2>. DEFINE x == now + l - 1
  <2>1. x \in Nat
    BY <1>1
  <2>. HIDE DEF l
  <2>2. PICK q, r \in Nat : r < l /\ x = l * q + r /\ x \div l = q
    <3>. HIDE DEF x
    <3>. QED  BY <1>1, <2>1, Division
  <2>3. all = q
    BY <2>2 DEF l
  <2>4. now + l - 1 = l * q + r /\ l * q \in Nat
    BY <1>1, <2>2
  <2>5. q # 0
    BY <1>1, <2>2, <2>4
  <2>. HIDE DEF x, all
  <2>. QED  BY <1>1, <2>2, <2>3, <2>4, <2>5
<1>3. asked \in Nat /\ 1 <= asked /\ now - week < l * asked
  <2>. DEFINE x == now - week
  <2>1. x \in Nat
    BY <1>1
  <2>. HIDE DEF l
  <2>2. PICK q, r \in Nat : r < l /\ x = l * q + r /\ x \div l = q
    <3>. HIDE DEF x
    <3>. QED  BY <1>1, <2>1, Division
  <2>3. asked = q + 1
    BY <2>2 DEF l
  <2>4. l * (q + 1) = l * q + l
    BY <1>1, <2>2
  <2>. HIDE DEF asked
  <2>. QED  BY <1>1, <2>2, <2>3, <2>4
<1>. HIDE DEF all, asked, l
<1>4. /\ count \in Nat /\ 1 <= count /\ count <= all /\ first \in Nat /\ all = first + count
      /\ first = 0 \/ (count = asked /\ all = first + asked)
  BY <1>2, <1>3
<1>. HIDE DEF first, count
<1>5. lo \in Nat /\ lo % l = 0
  <2>1. lo = l * first /\ lo \in Nat
    BY <1>1, <1>4
  <2>. QED  BY <1>1, <1>4, <2>1, Multiple
<1>6. lo <= week
  <2>1. CASE first = 0
    BY <1>1, <2>1
  <2>2. CASE all = first + asked
    <3>1. lo + l * asked = l * all
      BY <1>1, <1>3, <1>4, <2>2
    <3>2. lo < week + l
      BY <1>1, <1>2, <1>3, <1>5, <3>1
    <3>3. week < lo => week + l <= lo
      BY <1>1, <1>5, Apart
    <3>. HIDE DEF lo
    <3>. QED  BY <1>1, <1>5, <3>2, <3>3
  <2>. QED  BY <1>4, <2>1, <2>2
<1>7. ASSUME NEW k \in 1..count
      PROVE  /\ b(k) \in Nat /\ b(k) % l = 0 /\ b(k) < now /\ lo <= b(k)
             /\ end(k) \in Nat /\ b(k) < end(k) /\ end(k) <= b(k) + l /\ end(k) <= now
             /\ Bucket(end(k) - 1, Base) = b(k)
             /\ k > 1 => b(k) = b(k - 1) + l
             /\ k = count => end(k) = now
  <2>. DEFINE i == first + k - 1
  <2>1. k \in Nat /\ 1 <= k /\ k <= count /\ i \in Nat /\ first <= i /\ i + 1 <= all
    BY <1>4
  <2>2. b(k) = l * i /\ b(k) \in Nat
    BY <1>1, <2>1
  <2>3. b(k) % l = 0
    <3>. HIDE DEF i, b
    <3>. QED  BY <1>1, <2>1, <2>2, Multiple
  <2>4. l * i + l <= l * all
    <3>1. l * (i + 1) <= l * all
      <4>. HIDE DEF i
      <4>. QED  BY <1>1, <1>2, <2>1
    <3>2. l * (i + 1) = l * i + l
      <4>. HIDE DEF i
      <4>. QED  BY <1>1, <2>1
    <3>. QED  BY <3>1, <3>2
  <2>5. b(k) < now
    <3>. HIDE DEF i, b
    <3>1. l * i \in Nat /\ l * all \in Nat
      BY <1>1, <1>2, <2>1
    <3>. QED  BY <1>1, <1>2, <2>2, <2>4, <3>1
  <2>6. lo <= b(k)
    <3>1. l * first <= l * i
      <4>. HIDE DEF i
      <4>. QED  BY <1>1, <1>4, <2>1
    <3>2. lo = l * first
      BY <1>1, <1>4
    <3>. HIDE DEF i, b, lo
    <3>. QED  BY <2>2, <3>1, <3>2
  <2>7. k > 1 => b(k) = b(k - 1) + l
    <3>. SUFFICES ASSUME k > 1 PROVE b(k) = b(k - 1) + l
      OBVIOUS
    <3>. DEFINE j == first + (k - 1) - 1
    <3>1. j \in Int /\ first + k - 1 = j + 1
      BY <1>4, <2>1
    <3>2. (j + 1) * l = j * l + l
      <4>. HIDE DEF j
      <4>. QED  BY <1>1, <3>1
    <3>. QED  BY <3>1, <3>2
  <2>8. k = count => b(k) + l >= now
    <3>. SUFFICES ASSUME k = count PROVE b(k) + l >= now
      OBVIOUS
    <3>1. i + 1 = all
      BY <1>4
    <3>2. l * all = l * i + l
      <4>. HIDE DEF i
      <4>. QED  BY <1>1, <1>2, <2>1, <3>1
    <3>. HIDE DEF i, b
    <3>. QED  BY <1>1, <1>2, <2>2, <3>2
  <2>. HIDE DEF i, b, lo
  <2>9. /\ end(k) \in Nat /\ b(k) < end(k) /\ end(k) <= b(k) + l /\ end(k) <= now
        /\ k = count => end(k) = now
    BY <1>1, <2>2, <2>5, <2>8
  <2>10. Bucket(end(k) - 1, Base) = b(k)
    <3>. DEFINE t == end(k) - 1
    <3>. HIDE DEF end
    <3>1. t \in Nat /\ b(k) <= t /\ t < b(k) + l
      BY <1>1, <2>2, <2>9
    <3>. HIDE DEF t
    <3>2. Bucket(t, Base) = b(k)
      BY <1>1, <2>2, <2>3, <3>1, BucketUnique DEF l
    <3>. QED  BY <3>2 DEF t
  <2>. QED  BY <2>2, <2>3, <2>5, <2>6, <2>7, <2>9, <2>10
<1>. DEFINE bar(k) == BarUpTo(b(k), Base, now, now)
            bases == [i \in 1..count |-> bar(i)]
<1>8. Bases(now) = bases
  BY DEF Bases, bar, first, count, all, asked, l, week
<1>. HIDE DEF b, end, lo
<1>9. ASSUME NEW k \in 1..count
      PROVE  /\ bar(k) \in Bar /\ bar(k).start = b(k)
             /\ Ticks(bar(k).ticks, b(k)..(end(k) - 1))
  <2>1. end(k) = IF b(k) + Length[Base] < now THEN b(k) + Length[Base] ELSE now
    BY DEF end, l
  <2>2. b(k) \in Nat
    BY <1>7
  <2>. DEFINE i == b(k)
              r == BarUpTo(i, Base, now, now)
              stop == IF i + Length[Base] < now THEN i + Length[Base] ELSE now
  <2>. HIDE DEF i
  <2>3. i \in Nat
    BY <2>2 DEF i
  <2>4. r \in Bar /\ r.start = i /\ Ticks(r.ticks, i..(stop - 1))
    BY <1>1, <2>3, BarUpToIs
  <2>5. end(k) = stop /\ bar(k) = r
    BY <2>1 DEF i
  <2>. HIDE DEF r, stop, bar
  <2>6. Ticks(bar(k).ticks, i..(end(k) - 1))
    BY <2>4, <2>5
  <2>. QED  BY <2>4, <2>5, <2>6 DEF i
<1>10. bases \in [1..count -> Bar]
  BY <1>9
<1>11. PICK h : /\ h[0] = EmptyEngine
                /\ \A k \in 1..count : h[k] = ReplaceBase(h[k - 1], bases[k])
                /\ FoldLeft(ReplaceBase, EmptyEngine, bases) = h[count]
  <2>. HIDE DEF bases
  <2>. QED  BY <1>4, <1>10, FoldSteps
<1>12. \A k \in 1..count : bases[k] = bar(k)
  OBVIOUS
<1>. HIDE DEF bases, bar
<1>. DEFINE K(k) == lo..(end(k) - 1)
            Right(k) == h[k] \in Engine /\ EngineAt(h[k], K(k), end(k) - 1)
            S == {k \in Nat : k + 1 \in 1..count => Right(k + 1)}
<1>13. ASSUME NEW k \in 1..count
       PROVE  /\ K(k) \in SUBSET Nat /\ end(k) - 1 \in K(k) /\ \A s \in K(k) : s <= end(k) - 1
              /\ Ticks(bar(k).ticks, {s \in K(k) : s >= b(k)})
  <2>1. /\ lo \in Nat /\ b(k) \in Nat /\ end(k) \in Nat /\ lo <= b(k) /\ b(k) < end(k)
    BY <1>5, <1>7
  <2>2. K(k) \in SUBSET Nat /\ end(k) - 1 \in K(k) /\ \A s \in K(k) : s <= end(k) - 1
    BY <2>1
  <2>3. \A s : s \in {x \in K(k) : x >= b(k)} <=> s \in b(k)..(end(k) - 1)
    BY <2>1
  <2>4. {s \in K(k) : s >= b(k)} = b(k)..(end(k) - 1)
    BY <2>3
  <2>. QED  BY <1>9, <2>2, <2>4
<1>14. 0 \in S
  <2>. SUFFICES Right(1)
    OBVIOUS
  <2>. DEFINE i == 1
  <2>1. i \in 1..count /\ h[i] = ReplaceBase(EmptyEngine, bar(i)) /\ b(i) = lo
    <3>1. 1 \in 1..count
      BY <1>4
    <3>2. h[1] = ReplaceBase(h[0], bases[1])
      BY <1>11, <3>1
    <3>3. b(1) = lo
      BY <1>1, <1>4 DEF b, lo
    <3>. QED  BY <1>11, <1>12, <3>1, <3>2, <3>3
  <2>2. \A s \in K(i) : lo <= s
    BY <1>5, <1>7, <2>1
  <2>3. K(i) = {s \in K(i) : s >= b(i)}
    <3>1. \A s \in K(i) : s >= b(i)
      BY <1>5, <1>7, <2>1, <2>2
    <3>. QED  BY <3>1
  <2>. HIDE DEF K, i
  <2>4. /\ bar(i) \in Bar /\ bar(i).start = Bucket(end(i) - 1, Base)
        /\ Ticks(bar(i).ticks, K(i)) /\ \A s \in K(i) : bar(i).start <= s
        /\ K(i) \in SUBSET Nat /\ end(i) - 1 \in K(i) /\ \A s \in K(i) : s <= end(i) - 1
    BY <1>7, <1>9, <1>13, <2>1, <2>2, <2>3
  <2>5. EngineAt(h[i], K(i), end(i) - 1)
    BY <2>1, <2>4, FirstBar
  <2>6. EmptyEngine \in Engine
    BY EmptySeq DEF EmptyEngine, Engine
  <2>7. h[i] \in Engine
    BY <2>1, <2>4, <2>6, ReplaceTypes
  <2>. QED  BY <2>5, <2>7 DEF i
<1>15. ASSUME NEW j \in Nat, j \in S
       PROVE  j + 1 \in S
  <2>. DEFINE k == j + 1
  <2>. SUFFICES ASSUME k + 1 \in 1..count PROVE Right(k + 1)
    OBVIOUS
  <2>. DEFINE n == k + 1
  <2>1. k \in 1..count /\ n \in 1..count /\ k = n - 1 /\ n > 1
    BY <1>4
  <2>2. Right(k)
    BY <1>15, <2>1
  <2>. HIDE DEF k
  <2>3. h[n] = ReplaceBase(h[k], bar(n))
    BY <1>11, <1>12, <2>1
  <2>4. /\ K(k) \in SUBSET Nat /\ end(k) - 1 \in Nat
        /\ bar(n) \in Bar /\ bar(n).start = Bucket(end(n) - 1, Base)
        /\ Ticks(bar(n).ticks, {s \in K(n) : s >= Bucket(end(n) - 1, Base)})
        /\ K(n) \in SUBSET Nat /\ end(n) - 1 \in K(n) /\ \A s \in K(n) : s <= end(n) - 1
    <3>1. Bucket(end(n) - 1, Base) = b(n) /\ end(k) \in Nat /\ b(k) \in Nat /\ b(k) < end(k)
      BY <1>7, <2>1
    <3>2. end(k) - 1 \in Nat
      BY <3>1
    <3>. HIDE DEF K, n
    <3>. QED  BY <1>9, <1>13, <2>1, <3>1, <3>2
  <2>5. end(k) = b(n)
    <3>1. b(n) = b(k) + l /\ b(n) < now
      BY <1>7, <2>1
    <3>. HIDE DEF n
    <3>. QED  BY <3>1 DEF end
  <2>6. end(k) - 1 <= end(n) - 1
    <3>1. b(n) \in Nat /\ end(n) \in Nat /\ b(n) < end(n)
      BY <1>7, <2>1
    <3>. QED  BY <2>5, <3>1
  <2>7. {s \in K(n) : s < Bucket(end(n) - 1, Base)} = {s \in K(k) : s < Bucket(end(n) - 1, Base)}
    <3>1. /\ Bucket(end(n) - 1, Base) = b(n) /\ b(n) \in Nat /\ end(n) \in Nat /\ b(n) < end(n)
          /\ lo \in Nat
      BY <1>5, <1>7, <2>1
    <3>2. \A s \in Int : (s \in K(n) /\ s < b(n)) <=> (s \in K(k) /\ s < b(n))
      BY <2>5, <3>1
    <3>. HIDE DEF n
    <3>3. \A s \in K(n) \cup K(k) : s \in Int
      OBVIOUS
    <3>. HIDE DEF K
    <3>. QED  BY <3>1, <3>2, <3>3
  <2>. HIDE DEF K, n
  <2>8. EngineAt(h[n], K(n), end(n) - 1)
    BY <2>2, <2>3, <2>4, <2>6, <2>7, NextBar
  <2>9. h[n] \in Engine
    BY <2>2, <2>3, <2>4, ReplaceTypes
  <2>. QED  BY <2>8, <2>9 DEF n
<1>16. Right(count)
  <2>1. Nat \subseteq S
    <3>. HIDE DEF S
    <3>. QED  BY <1>14, <1>15, SetInduction
  <2>. DEFINE j == count - 1
  <2>2. j \in Nat /\ j + 1 = count /\ count \in 1..count
    BY <1>4
  <2>3. j \in S
    BY <2>1, <2>2
  <2>. HIDE DEF Right, j
  <2>. QED  BY <2>2, <2>3
<1>17. end(count) = now
  BY <1>4, <1>7
<1>18. Seeded(now) = h[count]
  BY <1>8, <1>11 DEF Seeded
<1>. QED  BY <1>1, <1>5, <1>6, <1>16, <1>17, <1>18 DEF week

\* A tick more than the engine needs to know is known, too: what precedes the week of its
\* last tick is in none of its bars.
LEMMA KnowsEarlier ==
    ASSUME NEW e, NEW J \in SUBSET Nat, NEW K \in SUBSET Nat, NEW m \in Nat,
           EngineAt(e, J, m), m \in K, \A s \in K : s <= m,
           NEW lo \in Nat, lo <= Bucket(m, Widest),
           \A s \in Nat : s >= lo => (s \in J <=> s \in K)
    PROVE  EngineAt(e, K, m)
<1>1. ASSUME NEW tf \in Timeframes
      PROVE  Bucket(m, tf) \in Nat /\ lo <= Bucket(m, tf)
  <2>1. Widest \in Timeframes /\ Length[Widest] % Length[tf] = 0
    BY Lengths
  <2>2. /\ Bucket(m, Widest) \in Nat /\ Bucket(m, tf) \in Nat
        /\ Bucket(m, Widest) <= Bucket(m, tf)
    BY <2>1, Within, BucketFacts
  <2>. QED  BY <2>2
<1>2. ASSUME NEW b \in Nat, lo <= b
      PROVE  {s \in J : s >= b} = {s \in K : s >= b}
  <2>1. \A s \in Nat : s >= b => s >= lo
    BY <1>2
  <2>2. \A s : s \in J /\ s >= b <=> s \in K /\ s >= b
    BY <2>1
  <2>. QED  BY <2>2
<1>3. Base \in Timeframes /\ Bucket(m, Base) \in Nat /\ lo <= Bucket(m, Base)
  BY <1>1, TimeframesAssumption
<1>4. {s \in J : s >= Bucket(m, Base)} = {s \in K : s >= Bucket(m, Base)}
  BY <1>2, <1>3
<1>5. ASSUME NEW tf \in Timeframes
      PROVE  /\ {s \in J : s >= Bucket(m, tf)} = {s \in K : s >= Bucket(m, tf)}
             /\ {s \in J : s >= Bucket(m, tf) /\ s < Bucket(m, Base)}
                  = {s \in K : s >= Bucket(m, tf) /\ s < Bucket(m, Base)}
  <2>1. {s \in J : s >= Bucket(m, tf)} = {s \in K : s >= Bucket(m, tf)}
    BY <1>1, <1>2
  <2>2. \A s : s \in {x \in J : x >= Bucket(m, tf)} <=> s \in {x \in K : x >= Bucket(m, tf)}
    BY <2>1
  <2>3. \A s : s \in J /\ s >= Bucket(m, tf) <=> s \in K /\ s >= Bucket(m, tf)
    BY <2>2
  <2>. QED  BY <2>1, <2>3
<1>6. \A tf \in Timeframes :
         /\ e.current[tf] # NoBar
         /\ e.current[tf].start = Bucket(m, tf)
         /\ e.current[tf].closed = FALSE
         /\ Ticks(e.current[tf].ticks, {s \in K : s >= Bucket(m, tf)})
         /\ Ticks(e.prefix[tf], {s \in K : s >= Bucket(m, tf) /\ s < Bucket(m, Base)})
  <2>1. \A tf \in Timeframes :
         /\ e.current[tf] # NoBar
         /\ e.current[tf].start = Bucket(m, tf)
         /\ e.current[tf].closed = FALSE
         /\ Ticks(e.current[tf].ticks, {s \in J : s >= Bucket(m, tf)})
         /\ Ticks(e.prefix[tf], {s \in J : s >= Bucket(m, tf) /\ s < Bucket(m, Base)})
    BY DEF EngineAt
  <2>. QED  BY <1>5, <2>1
<1>7. /\ e.base # NoBar /\ e.base.start = Bucket(m, Base)
      /\ Ticks(e.base.ticks, {s \in K : s >= Bucket(m, Base)})
  <2>1. /\ e.base # NoBar /\ e.base.start = Bucket(m, Base)
        /\ Ticks(e.base.ticks, {s \in J : s >= Bucket(m, Base)})
    BY DEF EngineAt
  <2>. QED  BY <1>4, <2>1
<1>. QED  BY <1>6, <1>7 DEF EngineAt

\* The seed at any second knows some of the seconds before, and all of them unless the second
\* is the first of a week.
LEMMA SeedKnowsAll ==
    ASSUME NEW now \in Nat, now > 0
    PROVE  /\ Seeded(now) \in Engine
           /\ \E K \in SUBSET (0..(now - 1)) :
                 /\ EngineAt(Seeded(now), K, now - 1)
                 /\ now % Length[Widest] # 0 => K = 0..(now - 1)
<1>1. PICK lo \in Nat : /\ lo <= Bucket(now, Widest) /\ Seeded(now) \in Engine
                        /\ EngineAt(Seeded(now), lo..(now - 1), now - 1)
  BY SeedKnows
<1>. DEFINE m == now - 1
            e == Seeded(now)
<1>2. m \in Nat /\ m < now
  OBVIOUS
<1>3. /\ Widest \in Timeframes /\ Bucket(now, Widest) \in Nat
      /\ Bucket(now, Widest) % Length[Widest] = 0
      /\ Bucket(now, Widest) <= now /\ now < Bucket(now, Widest) + Length[Widest]
  BY BucketFacts, TimeframesAssumption
<1>4. Length[Widest] \in Nat
  BY <1>3, Lengths
<1>5. CASE now % Length[Widest] = 0
  <2>1. lo..(now - 1) \in SUBSET (0..(now - 1))
    OBVIOUS
  <2>. QED  BY <1>1, <1>5, <2>1
<1>6. CASE now % Length[Widest] # 0
  <2>1. Bucket(now, Widest) # now
    BY <1>3, <1>6
  <2>2. Bucket(now, Widest) <= m /\ m < Bucket(now, Widest) + Length[Widest]
    BY <1>3, <1>4, <2>1
  <2>. HIDE DEF m
  <2>3. Bucket(m, Widest) = Bucket(now, Widest)
    BY <1>2, <1>3, <2>2, BucketUnique
  <2>. DEFINE J == lo..m
              K == 0..m
  <2>4. EngineAt(e, J, m)
    BY <1>1 DEF m
  <2>5. /\ J \in SUBSET Nat /\ K \in SUBSET Nat /\ m \in K /\ \A s \in K : s <= m
        /\ \A s \in Nat : s >= lo => (s \in J <=> s \in K)
    BY <1>2
  <2>. HIDE DEF e, J, K
  <2>6. EngineAt(e, K, m)
    BY <1>1, <1>2, <2>3, <2>4, <2>5, KnowsEarlier
  <2>. QED  BY <1>1, <2>6 DEF e, K, m
<1>. QED  BY <1>5, <1>6

\* The seconds of a bucket among others.
In(start, tf, seconds) == {s \in seconds : start <= s /\ s < start + Length[tf]}

\* What the engine returns for the tick of second t: the bar of its bucket in every timeframe,
\* and those that the tick finishes, each with the seconds its bucket holds.
ReturnedBars(bars, t, whole, K) ==
    \A tf \in Timeframes :
        /\ \E n \in bars[tf] : n.start = Bucket(t, tf)
        /\ \A n \in bars[tf] :
              /\ n.start % Length[tf] = 0
              /\ IF n.closed THEN n.start + Length[tf] <= t ELSE n.start = Bucket(t, tf)
              /\ whole => Ticks(n.ticks, In(n.start, tf, K)) /\ In(n.start, tf, K) # {}

\* The bars returned for a tick are right when the engine knows the seconds before it.
LEMMA ReturnedKnows ==
    ASSUME NEW e \in Engine, NEW K \in SUBSET Nat, NEW m \in Nat, EngineAt(e, K, m),
           NEW t \in Nat, m < t
    PROVE  ReturnedBars(Returned(e, t), t, TRUE, K \cup {t})
<1>. DEFINE new == Ingested(e, t)
            now == K \cup {t}
<1>1. EngineAt(new, now, t)
  BY IngestKnows
<1>2. m \in K /\ \A s \in K : s \in Nat /\ s <= m
  BY DEF EngineAt
<1>3. now \in SUBSET Nat /\ \A s \in now : s \in Nat /\ s <= t
  BY <1>2
<1>. HIDE DEF new, now
<1>4. ASSUME NEW tf \in Timeframes
      PROVE  /\ \E n \in Returned(e, t)[tf] : n.start = Bucket(t, tf)
             /\ \A n \in Returned(e, t)[tf] :
                   /\ n.start % Length[tf] = 0
                   /\ IF n.closed THEN n.start + Length[tf] <= t ELSE n.start = Bucket(t, tf)
                   /\ Ticks(n.ticks, In(n.start, tf, now)) /\ In(n.start, tf, now) # {}
  <2>1. /\ Bucket(t, tf) \in Nat /\ Bucket(t, tf) % Length[tf] = 0
        /\ Bucket(t, tf) <= t /\ t < Bucket(t, tf) + Length[tf] /\ Length[tf] \in Nat
        /\ Bucket(m, tf) \in Nat /\ Bucket(m, tf) % Length[tf] = 0
        /\ Bucket(m, tf) <= m /\ m < Bucket(m, tf) + Length[tf]
        /\ Bucket(m, tf) <= Bucket(t, tf)
        /\ Length[tf] > 0
    <3>1. Bucket(m, tf) <= Bucket(t, tf)
      <4>1. m <= t
        OBVIOUS
      <4>. QED  BY <4>1, BucketMonotone
    <3>. QED  BY <3>1, BucketFacts, Lengths
  <2>. DEFINE c == new.current[tf]
  <2>2. /\ c.start = Bucket(t, tf) /\ c.closed = FALSE
        /\ Ticks(c.ticks, {s \in now : s >= Bucket(t, tf)})
    BY <1>1 DEF EngineAt
  <2>3. {s \in now : s >= Bucket(t, tf)} = In(Bucket(t, tf), tf, now)
    <3>1. \A s \in now : s >= Bucket(t, tf) <=>
                            (Bucket(t, tf) <= s /\ s < Bucket(t, tf) + Length[tf])
      BY <1>3, <2>1
    <3>. QED  BY <3>1 DEF In
  <2>4. t \in In(Bucket(t, tf), tf, now)
    BY <2>1 DEF In, now
  <2>5. Returned(e, t)[tf] = Finished(e, Extended(e, t))[tf] \cup {c}
    BY DEF Returned, new
  <2>. HIDE DEF c
  <2>6. ASSUME NEW n \in Finished(e, Extended(e, t))[tf]
        PROVE  /\ n.start % Length[tf] = 0 /\ n.closed = TRUE /\ n.start + Length[tf] <= t
               /\ Ticks(n.ticks, In(n.start, tf, now)) /\ In(n.start, tf, now) # {}
    <3>. DEFINE o == e.current[tf]
    <3>1. Rolls(e, Extended(e, t), tf) /\ n = [o EXCEPT !.closed = TRUE]
      BY <2>6 DEF Finished
    <3>2. /\ o # NoBar /\ o.start = Bucket(m, tf) /\ o.start # Bucket(Extended(e, t).start, tf)
          /\ Ticks(o.ticks, {s \in K : s >= Bucket(m, tf)})
      BY <3>1 DEF EngineAt, Rolls
    <3>3. o \in Bar
      BY <3>2 DEF Engine
    <3>4. n.start = Bucket(m, tf) /\ n.ticks = o.ticks /\ n.closed = TRUE
      BY <3>1, <3>2, <3>3 DEF Bar
    <3>5. Bucket(Extended(e, t).start, tf) = Bucket(t, tf)
      <4>1. Base \in Timeframes /\ Length[tf] % Length[Base] = 0
        BY Lengths
      <4>2. Extended(e, t).start = Bucket(t, Base)
        BY DEF Extended
      <4>. QED  BY <4>1, <4>2, Within
    <3>6. Bucket(m, tf) + Length[tf] <= Bucket(t, tf)
      <4>1. Bucket(m, tf) < Bucket(t, tf)
        BY <2>1, <3>2, <3>5
      <4>. QED  BY <2>1, <4>1, Apart
    <3>7. {s \in K : s >= Bucket(m, tf)} = In(Bucket(m, tf), tf, now)
      <4>1. ~(t < Bucket(m, tf) + Length[tf])
        BY <2>1, <3>6
      <4>2. \A s : s \in K /\ s >= Bucket(m, tf) <=>
                     s \in now /\ Bucket(m, tf) <= s /\ s < Bucket(m, tf) + Length[tf]
        <5>1. \A s \in K : s < Bucket(m, tf) + Length[tf]
          BY <1>2, <2>1
        <5>2. \A s \in K : s >= Bucket(m, tf) <=> Bucket(m, tf) <= s
          BY <1>2, <2>1
        <5>3. \A s : s \in now /\ s < Bucket(m, tf) + Length[tf] <=> s \in K
          BY <4>1, <5>1 DEF now
        <5>. QED  BY <5>1, <5>2, <5>3
      <4>. QED  BY <4>2 DEF In
    <3>8. m \in {s \in K : s >= Bucket(m, tf)}
      BY <1>2, <2>1
    <3>9. n.start + Length[tf] <= t
      BY <2>1, <3>4, <3>6
    <3>. QED  BY <2>1, <3>2, <3>4, <3>7, <3>8, <3>9
  <2>7. /\ c.start % Length[tf] = 0 /\ c.closed = FALSE /\ c.start = Bucket(t, tf)
        /\ Ticks(c.ticks, In(c.start, tf, now)) /\ In(c.start, tf, now) # {}
    BY <2>1, <2>2, <2>3, <2>4
  <2>. QED  BY <2>5, <2>6, <2>7
<1>. QED  BY <1>4 DEF ReturnedBars, now

-----------------------------------------------------------------------------
(* The inductive invariant *)

\* What the variables are, as functions.
Shapes ==
    /\ clock > 0
    /\ worker.phase \in {"storing", "publishing"} => worker.offered \in Nat
    /\ IsFiniteSet(registered)
    /\ queue \in [Consumers -> Seq(Update \cup {Reconnect})]
    /\ socket \in [Consumers -> Socket \cup {Closed}]
    /\ wire \in [Consumers -> Seq(Frame)]
    /\ chart \in [Consumers -> [last : Nat \cup {-1}, bars : SUBSET Bar]]

\* The seconds the stored bars hold, and those the engine was given.
Seen == 0..(worker.seededAt - 1) \cup worker.heard
Given == IF worker.phase = "storing" THEN Seen \cup {Reach} ELSE Seen

\* The seconds of the worker are in order; those that are its own or the replay's are not of
\* the future.
Times ==
    /\ worker.seededAt <= clock /\ worker.now <= clock
    /\ ~authoritative /\ worker.offered # Nothing => worker.offered <= clock
    /\ worker.phase # "down" =>
          /\ worker.seededAt > 0
          /\ ~authoritative => worker.seededAt <= worker.now
          /\ ~authoritative /\ worker.offered # Nothing => worker.seededAt <= worker.offered
          /\ \A s \in worker.heard : Reach \in Nat /\ s <= Reach
    /\ worker.phase = "storing" /\ ~authoritative => \A s \in worker.heard : s < worker.offered

\* The broker's quote was read no earlier than the tolerance allows, and a tick that is being
\* stored follows it within the gap and is not stale.
Quotes ==
    authoritative =>
        /\ worker.phase \in {"running", "storing"} =>
              /\ worker.heard # {} => worker.quote # Nothing
              /\ worker.quote # Nothing => \E c \in worker.heard : worker.quote - c <= Ahead
        /\ worker.phase = "storing" =>
              /\ worker.quote # Nothing => worker.offered - worker.quote <= Gap
              /\ worker.now - worker.offered <= Stale
              /\ worker.offered - worker.now <= Ahead
        /\ worker.phase = "publishing" =>
              \E c \in worker.heard : worker.offered - c <= Ahead

\* The second up to which closed bars end.
Settled ==
    IF worker.phase = "down" THEN clock
    ELSE IF ~authoritative /\ worker.offered = Nothing THEN worker.seededAt ELSE Reach

\* A closed bar is of a time that is over; the broker's is complete.
ClosedRows ==
    \A tf \in Timeframes : \A r \in rows[tf] : r.closed =>
        /\ r.start % Length[tf] = 0
        /\ r.start + Length[tf] <= Settled
        /\ authoritative => r.ticks = Seconds(r.start, r.start + Length[tf])

\* What is about to be stored was the end of the broker's history.
BrokerBars ==
    authoritative /\ worker.phase = "storing" =>
        LET stop == worker.now + 1
        IN  \A tf \in Timeframes :
               /\ \A n \in worker.bars[tf] :
                     n.start % Length[tf] = 0 /\ n = BarUpTo(n.start, tf, stop, worker.now)
               /\ \A start \in 0..worker.now :
                     start % Length[tf] = 0 /\ start + 2 * Length[tf] > worker.now =>
                        BarUpTo(start, tf, stop, worker.now) \in worker.bars[tf]

\* What is about to be stored is what the engine returned for the tick.
ReplayBars ==
    ~authoritative /\ worker.phase = "storing" =>
        ReturnedBars(worker.bars, worker.offered, ~SeededAtTheBoundary, Given)

\* The engine of the replay knows the seconds it was given, all of them unless it was seeded
\* in the first second of a week.
EngineKnows ==
    ~authoritative /\ worker.phase # "down" =>
        \E K \in SUBSET Given : \E m \in K :
            /\ EngineAt(engine, K, m)
            /\ ~SeededAtTheBoundary => K = Given
            /\ IF worker.offered = Nothing THEN m < worker.seededAt ELSE m <= worker.offered

\* The stored bars of the replay hold the seconds that were seen.
RowsFold ==
    ~authoritative /\ ~SeededAtTheBoundary =>
        \A tf \in Timeframes : \A s \in Seen :
            /\ \E r \in rows[tf] : r.start = Bucket(s, tf)
            /\ \A r \in rows[tf] : r.start = Bucket(s, tf) =>
                  Ticks(r.ticks, In(Bucket(s, tf), tf, Seen))

FeedInv ==
    /\ Times /\ Quotes /\ ClosedRows /\ BrokerBars /\ ReplayBars /\ EngineKnows /\ RowsFold
    /\ NoHoleWhileQuoted

TypeInv == TypeOK /\ Shapes

-----------------------------------------------------------------------------
(* Types *)

\* What the assumption says of each bound.
LEMMA Bounds ==
    /\ Capacity \in Nat /\ QueueSize \in Nat /\ QueueSize > 0 /\ WireSize \in Nat
    /\ FirstSecond \in Nat /\ FirstSecond > 0 /\ MaxOutages \in Nat
    /\ Shown \in [Consumers -> Timeframes]
BY BoundsAssumption

\* The values that stand for None are no others.
LEMMA NoneIsAny ==
    /\ Reconnect # Nothing /\ Reconnect \notin Update /\ Nothing \notin Update
    /\ Nothing \notin Nat
BY NothingAssumption

\* What the process starts with has its type.
LEMMA NoBarsAreBars == NoBars \in Bars /\ EmptyEngine \in Engine
BY EmptySeq DEF NoBars, Bars, EmptyEngine, Engine

\* Storing bars gives bars.
LEMMA UpsertTypes ==
    ASSUME NEW stored \in Bars, NEW new \in Bars
    PROVE  Upsert(stored, new) \in Bars
BY DEF Upsert, Bars

\* A history is of bars.
LEMMA HistoryTypes ==
    ASSUME NEW now \in Nat
    PROVE  /\ \A tf \in Timeframes : History(tf, now) \subseteq Bar
           /\ \A tf \in Timeframes : BrokerHistory(tf, now) \subseteq Bar
<1>1. now + 1 \in Nat
  OBVIOUS
<1>. QED  BY <1>1, BarsBeforeAre DEF History, BrokerHistory

\* publish keeps a queue within its limit and attaches nobody.
LEMMA PublishTypes ==
    ASSUME TypeInv, NEW item \in Update \cup {Reconnect}, Publish(item)
    PROVE  /\ registered' \subseteq registered
           /\ IsFiniteSet(registered') /\ Cardinality(registered') <= Capacity
           /\ queue' \in [Consumers -> Seq(Update \cup {Reconnect})]
           /\ \A k \in Consumers : Len(queue[k])' <= QueueSize
<1>1. registered' \subseteq registered
  BY DEF Publish, Attached
<1>2. IsFiniteSet(registered') /\ Cardinality(registered') <= Capacity
  <2>1. /\ IsFiniteSet(registered) /\ Cardinality(registered) <= Capacity
    BY DEF TypeInv, TypeOK, Shapes
  <2>2. /\ IsFiniteSet(registered') /\ Cardinality(registered') <= Cardinality(registered)
    BY <1>1, <2>1, FS_Subset
  <2>. QED  BY <2>1, <2>2, Bounds, FS_CardinalityType
<1>3. ASSUME NEW k \in Consumers
      PROVE  queue'[k] \in Seq(Update \cup {Reconnect}) /\ Len(queue'[k]) <= QueueSize
  <2>1. queue[k] \in Seq(Update \cup {Reconnect}) /\ Len(queue[k]) <= QueueSize
    BY DEF TypeInv, TypeOK
  <2>2. queue'[k] = IF k \notin registered THEN queue[k]
                    ELSE IF Len(queue[k]) = QueueSize THEN <<Reconnect>>
                         ELSE Append(queue[k], item)
    BY DEF Publish, Queued
  <2>3. <<Reconnect>> \in Seq(Update \cup {Reconnect}) /\ Len(<<Reconnect>>) = 1
    OBVIOUS
  <2>4. /\ Append(queue[k], item) \in Seq(Update \cup {Reconnect})
        /\ Len(Append(queue[k], item)) = Len(queue[k]) + 1
        /\ Len(queue[k]) \in Nat
    BY <2>1, AppendProperties, LenProperties
  <2>5. CASE k \notin registered
    BY <2>1, <2>2, <2>5
  <2>6. CASE k \in registered /\ Len(queue[k]) = QueueSize
    BY <2>2, <2>3, <2>6, Bounds
  <2>7. CASE k \in registered /\ Len(queue[k]) # QueueSize
    <3>1. queue'[k] = Append(queue[k], item)
      BY <2>2, <2>7
    <3>2. Len(queue[k]) + 1 <= QueueSize
      BY <2>1, <2>4, <2>7, Bounds
    <3>. QED  BY <2>4, <3>1, <3>2
  <2>. QED  BY <2>5, <2>6, <2>7
<1>4. queue' = [k \in Consumers |-> queue'[k]]
  BY DEF Publish, Queued
<1>. QED  BY <1>1, <1>2, <1>3, <1>4

\* The worker's side of the type invariant.
FeedTypes ==
    /\ authoritative \in BOOLEAN /\ clock \in Nat /\ clock > 0 /\ outages \in 0..MaxOutages
    /\ worker \in Worker /\ engine \in Engine /\ rows \in Bars /\ sequence \in Nat
    /\ worker.phase \in {"storing", "publishing"} => worker.offered \in Nat

\* The consumers' side.
BusTypes ==
    /\ registered \subseteq Consumers
    /\ IsFiniteSet(registered) /\ Cardinality(registered) <= Capacity
    /\ queue \in [Consumers -> Seq(Update \cup {Reconnect})]
    /\ \A k \in Consumers : Len(queue[k]) <= QueueSize
    /\ socket \in [Consumers -> Socket \cup {Closed}]
    /\ wire \in [Consumers -> Seq(Frame)]
    /\ \A k \in Consumers : Len(wire[k]) <= WireSize
    /\ chart \in [Consumers -> [last : Nat \cup {-1}, bars : SUBSET Bar]]

\* The two sides are the type invariant.
LEMMA TypesSplit == TypeInv <=> FeedTypes /\ BusTypes
<1>1. TypeInv => FeedTypes /\ BusTypes
  BY DEF TypeInv, TypeOK, Shapes, FeedTypes, BusTypes
<1>2. FeedTypes /\ BusTypes => TypeInv
  BY DEF TypeInv, TypeOK, Shapes, FeedTypes, BusTypes
<1>. QED  BY <1>1, <1>2

\* The steps of the feed, and those of the consumers.
LEMMA Steps ==
    ASSUME TypeInv, Next
    PROVE  \/ Initialize \/ StoreTick \/ PublishTick \/ FailWorker \/ Crash \/ Tick
           \/ \E stamp \in Nat : IngestTick(stamp)
           \/ \E stamp \in Nat : RejectTick(stamp)
           \/ \E stamp \in Nat : Resnapshot(stamp)
           \/ \E k \in Consumers :
                 Connect(k) \/ Serve(k) \/ SendStatus(k) \/ Disconnect(k) \/ Receive(k)
<1>1. clock \in Nat /\ Ahead \in Nat
  BY GapAssumption DEF TypeInv, TypeOK
<1>2. 0..(clock + Ahead) \subseteq Nat
  BY <1>1
<1>. QED  BY <1>2 DEF Next, Feed

\* A step keeps the types of the worker's side.
LEMMA FeedTypesHold ==
    ASSUME TypeInv, Next
    PROVE  FeedTypes'
<1>. USE DEF FeedTypes
<1>0. FeedTypes /\ BusTypes
  BY TypesSplit
<1>1. NoBars \in Bars /\ EmptyEngine \in Engine /\ Nothing \notin Nat
  BY NoBarsAreBars, NoneIsAny
<1>2. CASE Initialize
  <2>1. rows' \in Bars
    <3>. DEFINE new == [tf \in Timeframes |-> IF authoritative THEN BrokerHistory(tf, clock)
                                              ELSE History(tf, clock)]
    <3>1. new \in Bars
      BY <1>0, HistoryTypes DEF Bars
    <3>2. rows' = Upsert(rows, new)
      BY <1>2 DEF Initialize
    <3>. HIDE DEF new
    <3>. QED  BY <1>0, <3>1, <3>2, UpsertTypes
  <2>2. engine' \in Engine
    BY <1>0, <1>2, SeedKnowsAll DEF Initialize
  <2>3. worker' \in Worker
    BY <1>0, <1>1, <1>2 DEF Initialize, Worker
  <2>. QED  BY <1>0, <1>2, <2>1, <2>2, <2>3 DEF Initialize
<1>3. ASSUME NEW stamp \in Nat, IngestTick(stamp)
      PROVE  FeedTypes'
  <2>1. LastTwo \in Bars
    BY <1>0, HistoryTypes DEF LastTwo, Bars
  <2>2. Ingested(engine, stamp) \in Engine /\ Returned(engine, stamp) \in Bars
    BY <1>0, IngestTypes
  <2>3. worker' \in Worker
    BY <1>0, <1>3, <2>1, <2>2 DEF IngestTick, Worker
  <2>. QED  BY <1>0, <1>3, <2>2, <2>3 DEF IngestTick
<1>4. ASSUME NEW stamp \in Nat, RejectTick(stamp)
      PROVE  FeedTypes'
  <2>1. worker' \in Worker /\ engine' \in Engine
    BY <1>0, <1>1, <1>4 DEF RejectTick, Worker
  <2>2. worker'.phase \in {"storing", "publishing"} => worker'.offered \in Nat
    BY <1>0, <1>4 DEF RejectTick, Worker
  <2>. QED  BY <1>0, <1>4, <2>1, <2>2, Bounds DEF RejectTick
<1>5. ASSUME NEW stamp \in Nat, Resnapshot(stamp)
      PROVE  FeedTypes'
  <2>1. worker' \in Worker /\ engine' \in Engine
    BY <1>0, <1>1, <1>5 DEF Resnapshot, Worker
  <2>2. worker'.phase \in {"storing", "publishing"} => worker'.offered \in Nat
    BY <1>0, <1>5 DEF Resnapshot, Worker
  <2>. QED  BY <1>0, <1>5, <2>1, <2>2, Bounds DEF Resnapshot
<1>6. CASE StoreTick
  <2>1. worker.bars \in Bars
    BY <1>0 DEF Worker
  <2>2. rows' \in Bars
    BY <1>0, <1>6, <2>1, UpsertTypes DEF StoreTick
  <2>3. worker' \in Worker
    <3>1. Reach \in Nat
      BY <1>0, <1>6 DEF StoreTick, Reach, Worker
    <3>. QED  BY <1>0, <1>6, <3>1 DEF StoreTick, Worker
  <2>. QED  BY <1>0, <1>6, <2>2, <2>3 DEF StoreTick
<1>7. CASE PublishTick
  <2>1. worker' \in Worker /\ engine' \in Engine
    BY <1>0, <1>1, <1>7 DEF PublishTick, Worker
  <2>2. worker'.phase \in {"storing", "publishing"} => worker'.offered \in Nat
    BY <1>0, <1>7 DEF PublishTick, Worker
  <2>. QED  BY <1>0, <1>7, <2>1, <2>2, Bounds DEF PublishTick
<1>8. CASE FailWorker
  <2>1. worker' \in Worker /\ engine' \in Engine
    BY <1>0, <1>1, <1>8 DEF FailWorker, Worker
  <2>2. worker'.phase \in {"storing", "publishing"} => worker'.offered \in Nat
    BY <1>0, <1>8 DEF FailWorker, Worker
  <2>. QED  BY <1>0, <1>8, <2>1, <2>2, Bounds DEF FailWorker
<1>9. CASE Crash
  <2>1. worker' \in Worker /\ engine' \in Engine
    BY <1>0, <1>1, <1>9 DEF Crash, Worker
  <2>2. worker'.phase \in {"storing", "publishing"} => worker'.offered \in Nat
    BY <1>0, <1>9 DEF Crash, Worker
  <2>. QED  BY <1>0, <1>9, <2>1, <2>2, Bounds DEF Crash
<1>10. CASE Tick
  BY <1>0, <1>10 DEF Tick
<1>11. ASSUME UNCHANGED feedVars
       PROVE  FeedTypes'
  BY <1>0, <1>11 DEF feedVars
<1>12. ASSUME NEW k \in Consumers,
              Connect(k) \/ Serve(k) \/ SendStatus(k) \/ Disconnect(k) \/ Receive(k)
       PROVE  UNCHANGED feedVars
  BY <1>12 DEF Connect, Serve, SendStatus, Disconnect, Receive, Authenticate, TakeItem,
        ReadSnapshot, SendSnapshot, SendUpdate, CloseTold, Leave
<1>. QED
  BY <1>2, <1>3, <1>4, <1>5, <1>6, <1>7, <1>8, <1>9, <1>10, <1>11, <1>12, Steps

\* What the steps of a handler and its browser change for their own consumer only.
LEMMA SerialTypes ==
    ASSUME BusTypes, NEW k \in Consumers,
           NEW q \in Seq(Update \cup {Reconnect}), Len(q) <= QueueSize,
           NEW s \in Socket \cup {Closed}, NEW w \in Seq(Frame), Len(w) <= WireSize,
           NEW c \in [last : Nat \cup {-1}, bars : SUBSET Bar],
           NEW r \in SUBSET Consumers, IsFiniteSet(r), Cardinality(r) <= Capacity,
           registered' = r, queue' = [queue EXCEPT ![k] = q],
           socket' = [socket EXCEPT ![k] = s], wire' = [wire EXCEPT ![k] = w],
           chart' = [chart EXCEPT ![k] = c]
    PROVE  BusTypes'
<1>1. queue' \in [Consumers -> Seq(Update \cup {Reconnect})]
  BY DEF BusTypes
<1>2. \A j \in Consumers : Len(queue'[j]) <= QueueSize
  BY DEF BusTypes
<1>3. socket' \in [Consumers -> Socket \cup {Closed}]
  BY DEF BusTypes
<1>4. wire' \in [Consumers -> Seq(Frame)]
  BY DEF BusTypes
<1>5. \A j \in Consumers : Len(wire'[j]) <= WireSize
  BY DEF BusTypes
<1>6. chart' \in [Consumers -> [last : Nat \cup {-1}, bars : SUBSET Bar]]
  BY DEF BusTypes
<1>. QED  BY <1>1, <1>2, <1>3, <1>4, <1>5, <1>6 DEF BusTypes

\* An update of one component that changes nothing.
LEMMA SameAt ==
    ASSUME NEW D, NEW S, NEW f \in [D -> S], NEW k \in D
    PROVE  [f EXCEPT ![k] = f[k]] = f
OBVIOUS

\* A frame that is sent keeps the wire within its limit.
LEMMA StampTypes ==
    ASSUME TypeInv, NEW k \in Consumers, NEW type \in {"snapshot", "update", "status"},
           NEW bars \in SUBSET Bar, Len(wire[k]) < WireSize
    PROVE  LET w == Append(wire[k], [type |-> type, sequence |-> sequence, bars |-> bars])
           IN  w \in Seq(Frame) /\ Len(w) <= WireSize
<1>. DEFINE f == [type |-> type, sequence |-> sequence, bars |-> bars]
<1>1. f \in Frame /\ wire[k] \in Seq(Frame)
  BY DEF TypeInv, TypeOK, Shapes, Frame
<1>. HIDE DEF f
<1>2. /\ Append(wire[k], f) \in Seq(Frame)
      /\ Len(Append(wire[k], f)) = Len(wire[k]) + 1 /\ Len(wire[k]) \in Nat
  BY <1>1, AppendProperties, LenProperties
<1>3. Len(wire[k]) + 1 <= WireSize
  BY <1>2, Bounds
<1>. QED  BY <1>2, <1>3 DEF f

\* A step keeps the types of the consumers' side.
LEMMA BusTypesHold ==
    ASSUME TypeInv, Next
    PROVE  BusTypes'
<1>0. FeedTypes /\ BusTypes
  BY TypesSplit
<1>1. <<>> \in Seq(Update \cup {Reconnect}) /\ <<>> \in Seq(Frame) /\ Len(<<>>) = 0
  BY EmptySeq
<1>2. ASSUME NEW item \in Update \cup {Reconnect}, Publish(item), UNCHANGED <<socket, wire, chart>>
      PROVE  BusTypes'
  BY <1>0, <1>2, PublishTypes DEF BusTypes
<1>3. CASE UNCHANGED <<registered, queue, socket, wire, chart>>
  BY <1>0, <1>3 DEF BusTypes
<1>4. CASE (\E stamp \in Nat : Resnapshot(stamp)) \/ FailWorker
  BY <1>2, <1>4 DEF Resnapshot, FailWorker
<1>5. CASE PublishTick
  <2>. DEFINE item == [number |-> sequence + 1, bars |-> worker.bars]
  <2>1. item \in Update
    BY <1>0 DEF Update, FeedTypes, Worker
  <2>2. Publish(item) /\ UNCHANGED <<socket, wire, chart>>
    BY <1>5 DEF PublishTick
  <2>. HIDE DEF item
  <2>. QED  BY <1>2, <2>1, <2>2
<1>6. CASE Crash
  <2>1. IsFiniteSet({}) /\ Cardinality({}) = 0
    BY FS_EmptySet
  <2>. QED  BY <1>0, <1>1, <1>6, <2>1, Bounds DEF Crash, BusTypes
<1>7. CASE \/ Initialize \/ StoreTick \/ Tick
          \/ \E stamp \in Nat : IngestTick(stamp) \/ RejectTick(stamp)
  BY <1>3, <1>7 DEF Initialize, IngestTick, RejectTick, StoreTick, Tick
<1>8. ASSUME NEW k \in Consumers,
             Connect(k) \/ Serve(k) \/ SendStatus(k) \/ Disconnect(k) \/ Receive(k)
      PROVE  BusTypes'
  <2>1. /\ queue[k] \in Seq(Update \cup {Reconnect}) /\ Len(queue[k]) <= QueueSize
        /\ socket[k] \in Socket \cup {Closed}
        /\ wire[k] \in Seq(Frame) /\ Len(wire[k]) <= WireSize
        /\ chart[k] \in [last : Nat \cup {-1}, bars : SUBSET Bar]
        /\ registered \in SUBSET Consumers /\ IsFiniteSet(registered)
        /\ Cardinality(registered) <= Capacity
        /\ [queue EXCEPT ![k] = queue[k]] = queue
        /\ [socket EXCEPT ![k] = socket[k]] = socket
        /\ [wire EXCEPT ![k] = wire[k]] = wire
        /\ [chart EXCEPT ![k] = chart[k]] = chart
    BY <1>0, SameAt DEF BusTypes
  <2>2. ASSUME Open(k)
        PROVE  socket[k] \in Socket
    BY <2>1, <2>2 DEF Open
  <2>3. CASE Connect(k)
    <3>. DEFINE s == [pc |-> "auth", asked |-> TRUE, subscribed |-> FALSE, taken |-> Nothing,
                      snapshot |-> {}, served |-> sequence]
                c == [chart[k] EXCEPT !.last = -1]
                r == registered \cup {k}
    <3>1. s \in Socket
      BY <1>0 DEF Socket, FeedTypes
    <3>2. c \in [last : Nat \cup {-1}, bars : SUBSET Bar]
      BY <2>1
    <3>3. r \in SUBSET Consumers /\ IsFiniteSet(r) /\ Cardinality(r) <= Capacity
      <4>1. IsFiniteSet(r) /\ Cardinality(r) <= Cardinality(registered) + 1
        <5>1. IsFiniteSet(registered)
          BY <2>1
        <5>2. /\ IsFiniteSet(r) /\ Cardinality(registered) \in Nat
              /\ \/ Cardinality(r) = Cardinality(registered)
                 \/ Cardinality(r) = Cardinality(registered) + 1
          BY <5>1, FS_AddElement, FS_CardinalityType
        <5>. QED  BY <5>2
      <4>2. Cardinality(registered) < Capacity /\ Cardinality(registered) \in Nat
        BY <2>1, <2>3, FS_CardinalityType DEF Connect
      <4>3. Cardinality(r) \in Nat
        BY <4>1, FS_CardinalityType
      <4>. QED  BY <2>1, <4>1, <4>2, <4>3, Bounds
    <3>4. /\ registered' = r /\ queue' = [queue EXCEPT ![k] = <<>>]
          /\ socket' = [socket EXCEPT ![k] = s] /\ wire' = [wire EXCEPT ![k] = wire[k]]
          /\ chart' = [chart EXCEPT ![k] = c]
      BY <1>0, <2>1, <2>3 DEF Connect, BusTypes
    <3>5. 0 <= QueueSize
      BY Bounds
    <3>. HIDE DEF s, c, r
    <3>. QED  BY <1>0, <1>1, <2>1, <3>1, <3>2, <3>3, <3>4, <3>5, SerialTypes
  <2>4. ASSUME NEW q \in Seq(Update \cup {Reconnect}), Len(q) <= QueueSize, NEW s \in Socket,
               queue' = [queue EXCEPT ![k] = q], socket' = [socket EXCEPT ![k] = s],
               UNCHANGED <<registered, wire, chart>>
        PROVE  BusTypes'
    BY <1>0, <2>1, <2>4, SerialTypes
  <2>5. ASSUME NEW s \in Socket, socket' = [socket EXCEPT ![k] = s],
               UNCHANGED <<registered, queue, wire, chart>>
        PROVE  BusTypes'
    BY <2>1, <2>4, <2>5
  <2>6. CASE Authenticate(k)
    <3>1. [socket[k] EXCEPT !.pc = "wait"] \in Socket
      BY <2>2, <2>6 DEF Authenticate, Socket
    <3>. QED  BY <2>5, <2>6, <3>1 DEF Authenticate
  <2>7. CASE TakeItem(k)
    <3>. DEFINE s == [socket[k] EXCEPT !.taken = Head(queue[k])]
    <3>1. /\ Tail(queue[k]) \in Seq(Update \cup {Reconnect})
          /\ Head(queue[k]) \in Update \cup {Reconnect}
          /\ Len(Tail(queue[k])) = Len(queue[k]) - 1 /\ Len(queue[k]) \in Nat
      BY <2>1, <2>7, HeadTailProperties, LenProperties DEF TakeItem
    <3>2. s \in Socket
      BY <2>2, <2>7, <3>1 DEF TakeItem, Socket
    <3>3. Len(Tail(queue[k])) <= QueueSize
      BY <2>1, <3>1, Bounds
    <3>4. /\ queue' = [queue EXCEPT ![k] = Tail(queue[k])]
          /\ socket' = [socket EXCEPT ![k] = s]
          /\ UNCHANGED <<registered, wire, chart>>
      BY <2>7 DEF TakeItem
    <3>. HIDE DEF s
    <3>. QED  BY <2>4, <3>1, <3>2, <3>3, <3>4
  <2>8. CASE ReadSnapshot(k)
    <3>. DEFINE s == [socket[k] EXCEPT !.pc = "read", !.asked = FALSE, !.snapshot = rows[Shown[k]]]
    <3>1. rows[Shown[k]] \in SUBSET Bar
      BY <1>0, Bounds DEF FeedTypes, Bars
    <3>2. s \in Socket
      BY <2>2, <2>8, <3>1 DEF ReadSnapshot, Socket
    <3>3. socket' = [socket EXCEPT ![k] = s] /\ UNCHANGED <<registered, queue, wire, chart>>
      BY <2>8 DEF ReadSnapshot
    <3>. HIDE DEF s
    <3>. QED  BY <2>5, <3>2, <3>3
  <2>9. ASSUME NEW s \in Socket, NEW type \in {"snapshot", "update", "status"},
               NEW bars \in SUBSET Bar, Stamped(k, type, bars),
               socket' = [socket EXCEPT ![k] = s], UNCHANGED <<registered, queue, chart>>
        PROVE  BusTypes'
    <3>. DEFINE w == Append(wire[k], [type |-> type, sequence |-> sequence, bars |-> bars])
    <3>1. w \in Seq(Frame) /\ Len(w) <= WireSize
      BY <2>9, StampTypes DEF Stamped
    <3>2. wire' = [wire EXCEPT ![k] = w]
      BY <2>9 DEF Stamped
    <3>. HIDE DEF w
    <3>. QED  BY <1>0, <2>1, <2>9, <3>1, <3>2, SerialTypes
  <2>10. CASE SendSnapshot(k)
    <3>. DEFINE s == [socket[k] EXCEPT !.pc = "wait", !.subscribed = TRUE, !.snapshot = {}]
    <3>1. s \in Socket /\ socket[k].snapshot \in SUBSET Bar
      BY <2>2, <2>10 DEF SendSnapshot, Socket
    <3>2. socket' = [socket EXCEPT ![k] = s] /\ UNCHANGED <<registered, queue, chart>>
      BY <2>10 DEF SendSnapshot
    <3>. HIDE DEF s
    <3>. QED  BY <2>9, <2>10, <3>1, <3>2 DEF SendSnapshot
  <2>11. CASE SendUpdate(k)
    <3>. DEFINE item == socket[k].taken
                s == [socket[k] EXCEPT !.taken = Nothing, !.served = item.number]
    <3>1. item \in Update
      BY <2>2, <2>11 DEF SendUpdate, Socket
    <3>2. item.number \in Nat /\ item.bars[Shown[k]] \in SUBSET Bar
      BY <3>1, Bounds DEF Update, Bars
    <3>3. s \in Socket
      BY <2>2, <2>11, <3>2 DEF SendUpdate, Socket
    <3>4. socket' = [socket EXCEPT ![k] = s] /\ UNCHANGED <<registered, queue, chart>>
      BY <2>11 DEF SendUpdate
    <3>5. UNCHANGED wire \/ Stamped(k, "update", item.bars[Shown[k]])
      BY <2>11 DEF SendUpdate
    <3>. HIDE DEF s, item
    <3>. QED  BY <2>5, <2>9, <3>2, <3>3, <3>4, <3>5
  <2>12. CASE CloseTold(k) \/ Disconnect(k)
    <3>. DEFINE r == registered \ {k}
    <3>1. r \in SUBSET Consumers /\ IsFiniteSet(r) /\ Cardinality(r) <= Capacity
      <4>1. r \subseteq registered
        OBVIOUS
      <4>2. IsFiniteSet(r) /\ Cardinality(r) <= Cardinality(registered)
        BY <2>1, <4>1, FS_Subset
      <4>. QED  BY <2>1, <4>2, Bounds, FS_CardinalityType
    <3>2. /\ registered' = r /\ queue' = [queue EXCEPT ![k] = <<>>]
          /\ socket' = [socket EXCEPT ![k] = Closed] /\ wire' = [wire EXCEPT ![k] = <<>>]
          /\ UNCHANGED chart
      BY <2>12 DEF CloseTold, Disconnect, Leave
    <3>3. 0 <= QueueSize /\ 0 <= WireSize
      BY Bounds
    <3>4. Closed \in Socket \cup {Closed}
      OBVIOUS
    <3>. HIDE DEF r
    <3>. QED  BY <1>0, <1>1, <2>1, <3>1, <3>2, <3>3, <3>4, SerialTypes
  <2>13. CASE SendStatus(k)
    <3>1. Stamped(k, "status", {}) /\ UNCHANGED <<registered, queue, socket, chart>>
      BY <2>13 DEF SendStatus
    <3>2. socket[k] \in Socket
      BY <2>2, <2>13 DEF SendStatus
    <3>3. socket' = [socket EXCEPT ![k] = socket[k]] /\ {} \in SUBSET Bar
      BY <2>1, <3>1
    <3>. QED  BY <2>9, <3>1, <3>2, <3>3
  <2>14. CASE Receive(k)
    <3>. DEFINE frame == Head(wire[k])
                c == [last |-> IF frame.sequence > chart[k].last THEN frame.sequence
                               ELSE chart[k].last,
                      bars |-> Drawn(chart[k].bars, frame)]
    <3>1. /\ frame \in Frame /\ Tail(wire[k]) \in Seq(Frame)
          /\ Len(Tail(wire[k])) = Len(wire[k]) - 1 /\ Len(wire[k]) \in Nat
      BY <2>1, <2>14, HeadTailProperties, LenProperties DEF Receive
    <3>2. Len(Tail(wire[k])) <= WireSize
      BY <2>1, <3>1, Bounds
    <3>3. c \in [last : Nat \cup {-1}, bars : SUBSET Bar]
      <4>1. Drawn(chart[k].bars, frame) \in SUBSET Bar
        BY <2>1, <3>1 DEF Drawn, Frame
      <4>. DEFINE last == IF frame.sequence > chart[k].last THEN frame.sequence ELSE chart[k].last
                  drawn == Drawn(chart[k].bars, frame)
      <4>2. last \in Nat \cup {-1}
        BY <2>1, <3>1 DEF Frame
      <4>3. c = [last |-> last, bars |-> drawn]
        OBVIOUS
      <4>4. drawn \in SUBSET Bar
        BY <4>1
      <4>. HIDE DEF last, drawn, c
      <4>. QED  BY <4>2, <4>3, <4>4
    <3>4. /\ wire' = [wire EXCEPT ![k] = Tail(wire[k])]
          /\ UNCHANGED chart \/ chart' = [chart EXCEPT ![k] = c]
          /\ UNCHANGED <<registered, queue, socket>>
      BY <2>14 DEF Receive
    <3>. HIDE DEF c, frame
    <3>5. ASSUME NEW d \in [last : Nat \cup {-1}, bars : SUBSET Bar],
                 chart' = [chart EXCEPT ![k] = d]
          PROVE  BusTypes'
      <4>1. /\ registered' = registered /\ queue' = [queue EXCEPT ![k] = queue[k]]
            /\ socket' = [socket EXCEPT ![k] = socket[k]]
        BY <2>1, <3>4
      <4>. QED  BY <1>0, <2>1, <3>1, <3>2, <3>4, <3>5, <4>1, SerialTypes
    <3>6. chart' = [chart EXCEPT ![k] = chart[k]] \/ chart' = [chart EXCEPT ![k] = c]
      BY <2>1, <3>4
    <3>. QED  BY <2>1, <3>3, <3>5, <3>6
  <2>. QED
    BY <1>8, <2>3, <2>6, <2>7, <2>8, <2>10, <2>11, <2>12, <2>13, <2>14 DEF Serve
<1>. QED
  BY <1>4, <1>5, <1>6, <1>7, <1>8, Steps

\* The start has its types.
LEMMA TypesInit == Init => TypeInv
<1>. SUFFICES ASSUME Init PROVE TypeInv
  OBVIOUS
<1>1. FeedTypes
  <2>1. worker \in Worker
    BY NoBarsAreBars DEF Init, Worker
  <2>. QED  BY <2>1, NoBarsAreBars, Bounds DEF Init, FeedTypes
<1>2. BusTypes
  <2>1. /\ <<>> \in Seq(Update \cup {Reconnect}) /\ <<>> \in Seq(Frame) /\ Len(<<>>) = 0
        /\ IsFiniteSet({}) /\ Cardinality({}) = 0
    BY EmptySeq, FS_EmptySet
  <2>. QED  BY <2>1, Bounds DEF Init, BusTypes
<1>. QED  BY <1>1, <1>2, TypesSplit

\* A step keeps the types.
LEMMA TypesStep == TypeInv /\ [Next]_vars => TypeInv'
<1>1. ASSUME TypeInv, Next
      PROVE  TypeInv'
  BY <1>1, FeedTypesHold, BusTypesHold, TypesSplit, PTL
<1>2. ASSUME TypeInv, UNCHANGED vars
      PROVE  TypeInv'
  <2>1. FeedTypes' /\ BusTypes'
    BY <1>2, TypesSplit DEF vars, FeedTypes, BusTypes
  <2>. QED  BY <2>1, TypesSplit, PTL
<1>. QED  BY <1>1, <1>2

-----------------------------------------------------------------------------
(* The bus *)

Item == Update \cup {Reconnect}
ItemsOf(taken, q) == (IF taken = Nothing THEN <<>> ELSE <<taken>>) \o q
Told(s) == Reconnect \in ToSet(s)
Whole(s, served, seq) ==
    Len(s) = seq - served /\ \A i \in 1..Len(s) : s[i].number = served + i

\* The item taken precedes the queue.
LEMMA ItemsAre ==
    ASSUME NEW taken \in Item \cup {Nothing}, NEW q \in Seq(Item)
    PROVE  /\ ItemsOf(taken, q) \in Seq(Item)
           /\ taken = Nothing => ItemsOf(taken, q) = q
           /\ taken # Nothing =>
                 /\ Len(ItemsOf(taken, q)) = Len(q) + 1 /\ Len(q) \in Nat
                 /\ ItemsOf(taken, q)[1] = taken
                 /\ \A i \in 1..Len(q) : ItemsOf(taken, q)[i + 1] = q[i]
<1>1. CASE taken = Nothing
  <2>1. ItemsOf(taken, q) = <<>> \o q
    BY <1>1 DEF ItemsOf
  <2>. QED  BY <1>1, <2>1, ConcatEmptySeq
<1>2. CASE taken # Nothing
  <2>. DEFINE s == <<taken>>
  <2>1. s \in Seq(Item) /\ Len(s) = 1 /\ s[1] = taken
    BY <1>2
  <2>2. ItemsOf(taken, q) = s \o q
    BY <1>2 DEF ItemsOf
  <2>. HIDE DEF s
  <2>3. /\ s \o q \in Seq(Item) /\ Len(s \o q) = Len(s) + Len(q) /\ Len(q) \in Nat
        /\ \A i \in 1..Len(s) + Len(q) : (s \o q)[i] = IF i <= Len(s) THEN s[i] ELSE q[i - Len(s)]
    BY <2>1, ConcatProperties, LenProperties
  <2>4. (s \o q)[1] = taken
    BY <2>1, <2>3
  <2>5. ASSUME NEW i \in 1..Len(q)
        PROVE  (s \o q)[i + 1] = q[i]
    <3>1. i + 1 \in 1..Len(s) + Len(q) /\ ~(i + 1 <= Len(s)) /\ (i + 1) - Len(s) = i
      BY <2>1, <2>3
    <3>. QED  BY <2>3, <3>1
  <2>. QED  BY <1>2, <2>1, <2>2, <2>3, <2>4, <2>5
<1>. QED  BY <1>1, <1>2

\* A consumer is told when the None is one of its items.
LEMMA ToldIs ==
    ASSUME NEW s \in Seq(Item)
    PROVE  Told(s) <=> \E i \in 1..Len(s) : s[i] = Reconnect
<1>1. DOMAIN s = 1..Len(s)
  BY LenProperties
<1>. QED  BY <1>1 DEF Told, ToSet

\* An item joins the end.
LEMMA MoreItems ==
    ASSUME NEW taken \in Item \cup {Nothing}, NEW q \in Seq(Item), NEW item \in Item
    PROVE  LET s == ItemsOf(taken, q)
               t == ItemsOf(taken, Append(q, item))
           IN  /\ Told(s) \/ item = Reconnect => Told(t)
               /\ \A served, seq \in Nat : Whole(s, served, seq) /\ item.number = seq + 1 =>
                     Whole(t, served, seq + 1)
<1>. DEFINE s == ItemsOf(taken, q)
            t == ItemsOf(taken, Append(q, item))
<1>1. s \in Seq(Item) /\ Append(q, item) \in Seq(Item) /\ t \in Seq(Item)
  BY ItemsAre, AppendProperties
<1>2. t = Append(s, item)
  <2>. DEFINE f == IF taken = Nothing THEN <<>> ELSE <<taken>>
              g == <<item>>
  <2>1. f \in Seq(Item) /\ g \in Seq(Item) /\ Append(q, item) = q \o g
    BY AppendIsConcat
  <2>2. s = f \o q /\ t = f \o (q \o g)
    BY <2>1 DEF ItemsOf
  <2>. HIDE DEF f, g, s, t
  <2>3. f \o (q \o g) = (f \o q) \o g
    BY <2>1, ConcatAssociative
  <2>4. Append(s, item) = s \o g
    BY <1>1, AppendIsConcat DEF g
  <2>. QED  BY <2>2, <2>3, <2>4
<1>. HIDE DEF s, t
<1>3. /\ Len(t) = Len(s) + 1 /\ Len(s) \in Nat /\ t[Len(s) + 1] = item
      /\ \A i \in 1..Len(s) : t[i] = s[i]
  BY <1>1, <1>2, AppendProperties, LenProperties
<1>4. \A i \in 1..Len(t) : i \in 1..Len(s) \/ i = Len(s) + 1
  BY <1>3
<1>5. ASSUME Told(s) \/ item = Reconnect
      PROVE  Told(t)
  <2>1. CASE item = Reconnect
    <3>1. Len(s) + 1 \in 1..Len(t)
      BY <1>3
    <3>. QED  BY <1>1, <1>3, <2>1, <3>1, ToldIs
  <2>2. CASE Told(s)
    <3>1. PICK i \in 1..Len(s) : s[i] = Reconnect
      BY <1>1, <2>2, ToldIs
    <3>2. i \in 1..Len(t)
      BY <1>3
    <3>. QED  BY <1>1, <1>3, <3>1, <3>2, ToldIs
  <2>. QED  BY <1>5, <2>1, <2>2
<1>6. ASSUME NEW served \in Nat, NEW seq \in Nat, Whole(s, served, seq), item.number = seq + 1
      PROVE  Whole(t, served, seq + 1)
  <2>1. Len(s) = seq - served /\ \A i \in 1..Len(s) : s[i].number = served + i
    BY <1>6 DEF Whole
  <2>2. Len(t) = (seq + 1) - served
    BY <1>3, <2>1
  <2>3. t[Len(s) + 1].number = served + (Len(s) + 1)
    BY <1>3, <1>6, <2>1
  <2>. QED  BY <1>3, <1>4, <2>1, <2>2, <2>3 DEF Whole
<1>. QED  BY <1>5, <1>6 DEF s, t

\* The first item of the queue is taken.
LEMMA TakeItems ==
    ASSUME NEW q \in Seq(Item), q # <<>>
    PROVE  ItemsOf(Head(q), Tail(q)) = ItemsOf(Nothing, q)
<1>. DEFINE t == ItemsOf(Head(q), Tail(q))
<1>1. /\ Head(q) \in Item /\ Tail(q) \in Seq(Item) /\ Head(q) # Nothing
      /\ Len(Tail(q)) = Len(q) - 1 /\ Len(q) \in Nat /\ Head(q) = q[1]
      /\ \A i \in 1..Len(Tail(q)) : Tail(q)[i] = q[i + 1]
  BY HeadTailProperties, LenProperties, NoneIsAny DEF Item
<1>2. /\ t \in Seq(Item) /\ Len(t) = Len(q) /\ t[1] = q[1]
      /\ \A i \in 1..Len(q) - 1 : t[i + 1] = q[i + 1]
  <2>. DEFINE h == Head(q)
              r == Tail(q)
  <2>1. h \in Item \cup {Nothing} /\ h # Nothing /\ r \in Seq(Item)
    BY <1>1
  <2>2. /\ t = ItemsOf(h, r)
        /\ Len(r) = Len(q) - 1 /\ Len(q) \in Nat /\ h = q[1]
        /\ \A i \in 1..Len(r) : r[i] = q[i + 1]
    BY <1>1
  <2>. HIDE DEF h, r, t
  <2>3. /\ ItemsOf(h, r) \in Seq(Item) /\ Len(ItemsOf(h, r)) = Len(r) + 1 /\ ItemsOf(h, r)[1] = h
        /\ \A i \in 1..Len(r) : ItemsOf(h, r)[i + 1] = r[i]
    BY <2>1, ItemsAre
  <2>. QED  BY <2>2, <2>3
<1>. HIDE DEF t
<1>3. ASSUME NEW i \in 1..Len(q)
      PROVE  t[i] = q[i]
  <2>1. CASE i = 1
    BY <1>2, <2>1
  <2>2. CASE i # 1
    <3>1. i - 1 \in 1..Len(q) - 1 /\ (i - 1) + 1 = i
      BY <1>1, <2>2
    <3>. QED  BY <1>2, <3>1
  <2>. QED  BY <2>1, <2>2
<1>4. t = q
  BY <1>2, <1>3, SeqEqual
<1>5. ItemsOf(Nothing, q) = q
  BY ItemsAre
<1>. QED  BY <1>4, <1>5 DEF t

\* The item taken is sent.
LEMMA DropItem ==
    ASSUME NEW taken \in Update, NEW q \in Seq(Item)
    PROVE  LET s == ItemsOf(taken, q)
               t == ItemsOf(Nothing, q)
           IN  /\ Told(s) => Told(t)
               /\ \A served, seq \in Nat : Whole(s, served, seq) => Whole(t, taken.number, seq)
<1>. DEFINE s == ItemsOf(taken, q)
<1>1. taken \in Item /\ taken # Nothing /\ taken # Reconnect
  BY NoneIsAny DEF Item
<1>2. /\ s \in Seq(Item) /\ Len(s) = Len(q) + 1 /\ Len(q) \in Nat /\ s[1] = taken
      /\ \A i \in 1..Len(q) : s[i + 1] = q[i]
  BY <1>1, ItemsAre
<1>3. ItemsOf(Nothing, q) = q
  BY ItemsAre
<1>. HIDE DEF s
<1>4. ASSUME Told(s)
      PROVE  Told(q)
  <2>1. PICK i \in 1..Len(s) : s[i] = Reconnect
    BY <1>2, <1>4, ToldIs
  <2>2. i - 1 \in 1..Len(q) /\ (i - 1) + 1 = i
    BY <1>1, <1>2, <2>1
  <2>3. q[i - 1] = Reconnect
    BY <1>2, <2>1, <2>2
  <2>. QED  BY <2>2, <2>3, ToldIs
<1>5. ASSUME NEW served \in Nat, NEW seq \in Nat, Whole(s, served, seq)
      PROVE  Whole(q, taken.number, seq)
  <2>1. Len(s) = seq - served /\ \A i \in 1..Len(s) : s[i].number = served + i
    BY <1>5 DEF Whole
  <2>2. 1 \in 1..Len(s)
    BY <1>2
  <2>3. taken.number = served + 1
    BY <1>2, <2>1, <2>2
  <2>4. Len(q) = seq - taken.number
    BY <1>2, <2>1, <2>3
  <2>5. ASSUME NEW i \in 1..Len(q)
        PROVE  q[i].number = taken.number + i
    <3>1. i + 1 \in 1..Len(s)
      BY <1>2
    <3>2. q[i].number = served + (i + 1)
      BY <1>2, <2>1, <3>1
    <3>. QED  BY <2>3, <3>2
  <2>. QED  BY <2>4, <2>5 DEF Whole
<1>. QED  BY <1>3, <1>4, <1>5 DEF s

\* What the bus owes a consumer.
Owed(k) ==
    IF Open(k)
    THEN \/ Told(Items(k))
         \/ k \in registered /\ Whole(Items(k), socket[k].served, sequence)
    ELSE queue[k] = <<>> /\ k \notin registered

BusInv == \A k \in Consumers : Owed(k)

\* What is owed is what the property asks.
LEMMA BusImplies == BusInv => ToldOrComplete
BY DEF BusInv, Owed, ToldOrComplete, Told, Whole

\* Before anybody connects nothing is owed.
LEMMA BusInit == Init => BusInv
BY DEF Init, BusInv, Owed, Open

\* No step owes a consumer less.
LEMMA BusStep ==
    ASSUME TypeInv, BusInv, Next
    PROVE  BusInv'
<1>0. /\ sequence \in Nat
      /\ \A k \in Consumers : queue[k] \in Seq(Item) /\ socket[k] \in Socket \cup {Closed}
      /\ \A k \in Consumers : Open(k) => socket[k] \in Socket
      /\ \A k \in Consumers :
            Open(k) => socket[k].taken \in Item \cup {Nothing} /\ socket[k].served \in Nat
  BY DEF TypeInv, TypeOK, Open, Item, Socket
<1>1. \A k \in Consumers : /\ Items(k) = ItemsOf(socket[k].taken, queue[k])
                           /\ Items(k)' = ItemsOf(socket'[k].taken, queue'[k])
  BY DEF Items, ItemsOf
<1>2. ASSUME NEW k \in Consumers
      PROVE  /\ socket'[k] = Closed /\ queue'[k] = <<>> /\ k \notin registered' => Owed(k)'
             /\ socket'[k] # Closed /\ Told(Items(k)') => Owed(k)'
             /\ /\ socket'[k] # Closed /\ k \in registered'
                /\ Whole(Items(k)', socket'[k].served, sequence')
                => Owed(k)'
  BY DEF Owed, Open, Told, Whole
<1>3. ASSUME NEW item \in Item, Publish(item), UNCHANGED socket,
             \/ item = Reconnect /\ sequence' = sequence
             \/ item.number = sequence + 1 /\ sequence' = sequence + 1
      PROVE  BusInv'
  <2>. SUFFICES ASSUME NEW k \in Consumers
                PROVE  Owed(k)'
    BY DEF BusInv
  <2>1. Owed(k)
    BY DEF BusInv
  <2>2. /\ queue'[k] = IF k \notin registered THEN queue[k]
                       ELSE IF Len(queue[k]) = QueueSize THEN <<Reconnect>>
                            ELSE Append(queue[k], item)
        /\ k \in registered' <=> k \in registered /\ Len(queue[k]) < QueueSize
    BY <1>3 DEF Publish, Queued, Attached
  <2>3. CASE ~Open(k)
    BY <1>2, <1>3, <2>1, <2>2, <2>3 DEF Owed, Open
  <2>4. CASE Open(k) /\ k \notin registered
    <3>1. Told(Items(k)) /\ Items(k)' = Items(k)
      BY <1>1, <1>3, <2>1, <2>2, <2>4 DEF Owed
    <3>. QED  BY <1>2, <1>3, <2>4, <3>1 DEF Owed, Open
  <2>5. CASE Open(k) /\ k \in registered /\ Len(queue[k]) = QueueSize
    <3>. DEFINE q == <<Reconnect>>
    <3>1. q \in Seq(Item) /\ Len(q) = 1 /\ q[1] = Reconnect /\ queue'[k] = q
      BY <2>2, <2>5 DEF Item
    <3>. HIDE DEF q
    <3>2. Told(ItemsOf(socket[k].taken, q))
      <4>. DEFINE s == ItemsOf(socket[k].taken, q)
      <4>1. /\ s \in Seq(Item) /\ Len(s) \in Nat
            /\ \E i \in 1..Len(s) : s[i] = Reconnect
        <5>1. s \in Seq(Item) /\ Len(s) \in Nat
          BY <1>0, <2>5, <3>1, ItemsAre, LenProperties
        <5>2. CASE socket[k].taken = Nothing
          <6>1. s = q /\ 1 \in 1..Len(q)
            <7>1. s = q
              BY <1>0, <2>5, <3>1, <5>2, ItemsAre
            <7>2. 1 \in 1..Len(q)
              BY <3>1
            <7>. QED  BY <7>1, <7>2
          <6>. HIDE DEF s
          <6>. QED  BY <3>1, <5>1, <6>1
        <5>3. CASE socket[k].taken # Nothing
          <6>1. Len(s) = 2 /\ s[1 + 1] = q[1]
            <7>1. 1 \in 1..Len(q) /\ Len(q) + 1 = 2
              BY <3>1
            <7>2. /\ Len(s) = Len(q) + 1
                  /\ \A i \in 1..Len(q) : s[i + 1] = q[i]
              BY <1>0, <2>5, <3>1, <5>3, ItemsAre
            <7>. HIDE DEF s
            <7>. QED  BY <7>1, <7>2
          <6>2. 1 + 1 \in 1..Len(s)
            BY <6>1
          <6>. HIDE DEF s
          <6>. QED  BY <3>1, <5>1, <6>1, <6>2
        <5>. QED  BY <5>1, <5>2, <5>3
      <4>. HIDE DEF s
      <4>2. Told(s)
        BY <4>1, ToldIs
      <4>. QED  BY <4>2 DEF s
    <3>3. Told(Items(k)')
      BY <1>1, <1>3, <3>1, <3>2
    <3>. QED  BY <1>2, <1>3, <2>5, <3>3 DEF Owed, Open, Told
  <2>6. CASE Open(k) /\ k \in registered /\ Len(queue[k]) # QueueSize
    <3>1. queue'[k] = Append(queue[k], item)
      BY <2>2, <2>6
    <3>2. k \in registered'
      <4>1. Len(queue[k]) \in Nat /\ Len(queue[k]) <= QueueSize
        BY <1>0, LenProperties DEF TypeInv, TypeOK
      <4>. QED  BY <2>2, <2>6, <4>1, Bounds
    <3>3. /\ Told(Items(k)) \/ item = Reconnect => Told(Items(k)')
          /\ Whole(Items(k), socket[k].served, sequence) /\ item.number = sequence + 1 =>
                Whole(Items(k)', socket[k].served, sequence + 1)
      <4>1. /\ socket[k].taken \in Item \cup {Nothing} /\ queue[k] \in Seq(Item)
            /\ socket[k].served \in Nat
        BY <1>0, <2>6
      <4>2. /\ Items(k) = ItemsOf(socket[k].taken, queue[k])
            /\ Items(k)' = ItemsOf(socket[k].taken, Append(queue[k], item))
        BY <1>1, <1>3, <3>1
      <4>. QED  BY <1>0, <4>1, <4>2, MoreItems
    <3>4. \/ Told(Items(k)')
          \/ Whole(Items(k)', socket'[k].served, sequence')
      BY <1>3, <2>1, <2>6, <3>3 DEF Owed
    <3>. QED  BY <1>2, <1>3, <2>6, <3>2, <3>4 DEF Owed, Open, Told, Whole
  <2>. QED  BY <2>3, <2>4, <2>5, <2>6
<1>4. CASE UNCHANGED <<sequence, registered, queue, socket>>
  BY <1>4 DEF BusInv, Owed, Open, Items, Told, Whole
<1>5. CASE (\E stamp \in Nat : Resnapshot(stamp)) \/ FailWorker
  BY <1>3, <1>5 DEF Resnapshot, FailWorker, Item
<1>6. CASE PublishTick
  <2>. DEFINE item == [number |-> sequence + 1, bars |-> worker.bars]
  <2>1. item \in Item /\ item.number = sequence + 1
    BY <1>0 DEF Item, Update, TypeInv, TypeOK, Worker
  <2>2. Publish(item) /\ UNCHANGED socket /\ sequence' = sequence + 1
    BY <1>6 DEF PublishTick
  <2>. HIDE DEF item
  <2>. QED  BY <1>3, <2>1, <2>2
<1>7. CASE Crash
  BY <1>7 DEF Crash, BusInv, Owed, Open
<1>8. CASE \/ Initialize \/ StoreTick \/ Tick
          \/ \E stamp \in Nat : IngestTick(stamp) \/ RejectTick(stamp)
  BY <1>4, <1>8 DEF Initialize, IngestTick, RejectTick, StoreTick, Tick
<1>9. ASSUME NEW k \in Consumers,
             Connect(k) \/ Serve(k) \/ SendStatus(k) \/ Disconnect(k) \/ Receive(k)
      PROVE  BusInv'
  <2>1. sequence' = sequence
    BY <1>9 DEF Connect, Serve, SendStatus, Disconnect, Receive, Authenticate, TakeItem,
        ReadSnapshot, SendSnapshot, SendUpdate, CloseTold, Leave, feedVars
  <2>2. ASSUME NEW j \in Consumers, j # k
        PROVE  Owed(j)'
    <3>1. socket'[j] = socket[j] /\ queue'[j] = queue[j] /\ (j \in registered' <=> j \in registered)
      BY <1>9, <2>2 DEF Connect, Serve, SendStatus, Disconnect, Receive, Authenticate, TakeItem,
        ReadSnapshot, SendSnapshot, SendUpdate, CloseTold, Leave, TypeInv, TypeOK, Shapes
    <3>2. Owed(j)
      BY DEF BusInv
    <3>. QED  BY <2>1, <3>1, <3>2 DEF Owed, Open, Items, Told, Whole
  <2>. SUFFICES Owed(k)'
    BY <2>2 DEF BusInv
  <2>3. Owed(k)
    BY DEF BusInv
  <2>4. socket \in [Consumers -> Socket \cup {Closed}] /\ DOMAIN queue = Consumers
    BY DEF TypeInv, Shapes
  <2>5. ASSUME Open(k), UNCHANGED <<registered, queue>>, socket'[k].taken = socket[k].taken,
               socket'[k].served = socket[k].served, socket'[k] # Closed
        PROVE  Owed(k)'
    <3>1. Items(k)' = Items(k)
      BY <2>5 DEF Items
    <3>. QED  BY <1>2, <2>1, <2>3, <2>5, <3>1 DEF Owed
  <2>6. \A s \in Socket : s # Closed
    BY DEF Socket, Closed
  <2>7. CASE Connect(k)
    <3>. DEFINE s == [pc |-> "auth", asked |-> TRUE, subscribed |-> FALSE, taken |-> Nothing,
                      snapshot |-> {}, served |-> sequence]
    <3>1. queue'[k] = <<>> /\ k \in registered' /\ socket'[k] = s /\ s \in Socket
      BY <1>0, <2>4, <2>7 DEF Connect, Socket
    <3>2. s.served = sequence /\ s.taken = Nothing
      OBVIOUS
    <3>. HIDE DEF s
    <3>3. ItemsOf(Nothing, <<>>) = <<>>
      BY EmptySeq, ItemsAre
    <3>4. Items(k)' = <<>> /\ Len(Items(k)') = 0
      BY <1>1, <3>1, <3>2, <3>3, EmptySeq
    <3>5. Whole(Items(k)', socket'[k].served, sequence')
      BY <1>0, <2>1, <3>1, <3>2, <3>4 DEF Whole
    <3>. QED  BY <1>2, <2>6, <3>1, <3>5
  <2>8. CASE Authenticate(k) \/ ReadSnapshot(k) \/ SendSnapshot(k)
    <3>1. Open(k) /\ UNCHANGED <<registered, queue>> /\ socket[k] \in Socket
      BY <1>0, <2>8 DEF Authenticate, ReadSnapshot, SendSnapshot
    <3>2. /\ socket'[k].taken = socket[k].taken /\ socket'[k].served = socket[k].served
          /\ socket'[k].pc # "closed"
      BY <2>4, <2>8, <3>1 DEF Authenticate, ReadSnapshot, SendSnapshot, Socket
    <3>3. socket'[k] # Closed
      BY <3>2 DEF Closed
    <3>. QED  BY <2>5, <3>1, <3>2, <3>3
  <2>9. CASE TakeItem(k)
    <3>1. /\ Open(k) /\ socket[k] \in Socket /\ socket[k].taken = Nothing /\ queue[k] # <<>>
          /\ queue[k] \in Seq(Item) /\ registered' = registered /\ queue'[k] = Tail(queue[k])
          /\ socket'[k] = [socket[k] EXCEPT !.taken = Head(queue[k])]
      BY <1>0, <2>4, <2>9 DEF TakeItem
    <3>2. /\ socket'[k].taken = Head(queue[k]) /\ socket'[k].served = socket[k].served
          /\ socket'[k].pc = socket[k].pc
      BY <3>1 DEF Socket
    <3>3. socket'[k] # Closed
      BY <3>1, <3>2 DEF Closed, Socket
    <3>4. Items(k)' = Items(k)
      BY <1>1, <3>1, <3>2, TakeItems
    <3>5. \/ Told(Items(k)')
          \/ k \in registered' /\ Whole(Items(k)', socket'[k].served, sequence')
      BY <2>1, <2>3, <3>1, <3>2, <3>4 DEF Owed
    <3>. QED  BY <1>2, <3>3, <3>5
  <2>10. CASE SendUpdate(k)
    <3>. DEFINE item == socket[k].taken
    <3>1. /\ Open(k) /\ socket[k] \in Socket /\ item \in Update /\ queue[k] \in Seq(Item)
          /\ registered' = registered /\ queue'[k] = queue[k] /\ socket[k].served \in Nat
          /\ socket'[k] = [socket[k] EXCEPT !.taken = Nothing, !.served = item.number]
      BY <1>0, <2>4, <2>10 DEF SendUpdate, Item
    <3>2. /\ socket'[k].taken = Nothing /\ socket'[k].served = item.number
          /\ socket'[k].pc = socket[k].pc
      BY <3>1 DEF Socket
    <3>3. socket'[k] # Closed
      BY <3>1, <3>2 DEF Closed, Socket
    <3>4. /\ Items(k) = ItemsOf(item, queue[k]) /\ Items(k)' = ItemsOf(Nothing, queue[k])
      BY <1>1, <3>1, <3>2
    <3>. HIDE DEF item
    <3>5. /\ Told(Items(k)) => Told(Items(k)')
          /\ Whole(Items(k), socket[k].served, sequence) =>
                Whole(Items(k)', item.number, sequence)
      BY <1>0, <3>1, <3>4, DropItem
    <3>6. \/ Told(Items(k)')
          \/ k \in registered' /\ Whole(Items(k)', socket'[k].served, sequence')
      BY <2>1, <2>3, <3>1, <3>2, <3>5 DEF Owed
    <3>. QED  BY <1>2, <3>3, <3>6
  <2>11. CASE CloseTold(k) \/ Disconnect(k)
    <3>1. queue'[k] = <<>> /\ k \notin registered' /\ socket'[k] = Closed
      BY <2>4, <2>11 DEF CloseTold, Disconnect, Leave
    <3>. QED  BY <1>2, <3>1
  <2>12. CASE SendStatus(k) \/ Receive(k)
    <3>1. UNCHANGED <<registered, queue, socket>>
      BY <2>12 DEF SendStatus, Receive
    <3>2. Items(k)' = Items(k)
      BY <3>1 DEF Items
    <3>. QED  BY <1>2, <2>1, <2>3, <3>1, <3>2 DEF Owed, Open
  <2>. QED  BY <1>9, <2>7, <2>8, <2>9, <2>10, <2>11, <2>12 DEF Serve
<1>. QED
  BY <1>5, <1>6, <1>7, <1>8, <1>9, Steps

-----------------------------------------------------------------------------
(* The feed *)

\* The types of the fields of the worker.
LEMMA WorkerIs ==
    ASSUME TypeInv
    PROVE  /\ authoritative \in BOOLEAN /\ clock \in Nat /\ clock > 0
           /\ worker.phase \in {"down", "running", "storing", "publishing"}
           /\ worker.offered \in Nat \cup {Nothing} /\ worker.quote \in Nat \cup {Nothing}
           /\ worker.seededAt \in Nat /\ worker.heard \in SUBSET Nat /\ worker.bars \in Bars
           /\ worker.now \in Nat
           /\ worker.phase \in {"storing", "publishing"} => worker.offered \in Nat /\ Reach \in Nat
           /\ authoritative => Reach \in Nat
           /\ engine \in Engine /\ rows \in Bars
           /\ Seen \in SUBSET Nat
           /\ Nothing \notin Nat
BY NoneIsAny DEF TypeInv, TypeOK, Shapes, Worker, Seen, Reach

\* A bar that is over is whole, and only such a bar is closed.
LEMMA OverIsWhole ==
    ASSUME NEW start \in Nat, NEW tf \in Timeframes, NEW stop \in Nat, NEW now \in Nat, now <= stop
    PROVE  LET r == BarUpTo(start, tf, stop, now)
           IN  /\ r.closed <=> start + Length[tf] <= now
               /\ start + Length[tf] <= now =>
                     r = [start |-> start, ticks |-> Seconds(start, start + Length[tf]),
                          closed |-> TRUE]
<1>. DEFINE end == start + Length[tf]
<1>1. end \in Nat
  BY Lengths
<1>2. BarUpTo(start, tf, stop, now) =
        [start |-> start, ticks |-> Seconds(start, IF end < stop THEN end ELSE stop),
         closed |-> end <= now]
  BY DEF BarUpTo
<1>. DEFINE last == IF end < stop THEN end ELSE stop
            r == BarUpTo(start, tf, stop, now)
<1>. HIDE DEF end
<1>3. end <= now => last = end
  BY <1>1
<1>. HIDE DEF last
<1>4. r = [start |-> start, ticks |-> Seconds(start, last), closed |-> end <= now]
  BY <1>2 DEF last
<1>. HIDE DEF r
<1>5. r.closed = (end <= now)
  BY <1>4
<1>6. ASSUME end <= now
      PROVE  r = [start |-> start, ticks |-> Seconds(start, end), closed |-> TRUE]
  <2>1. (end <= now) = TRUE
    BY <1>6
  <2>. QED  BY <1>3, <1>4, <1>6, <2>1
<1>. QED  BY <1>5, <1>6 DEF end, r

\* What a provider's history is.
LEMMA HistoryIs ==
    ASSUME NEW now \in Nat, NEW tf \in Timeframes
    PROVE  /\ \A r \in History(tf, now) :
                 /\ r \in Bar /\ r.start < now /\ r.start % Length[tf] = 0
                 /\ r = BarUpTo(r.start, tf, now, now)
           /\ \A s \in Nat : s < now /\ s % Length[tf] = 0 =>
                 BarUpTo(s, tf, now, now) \in History(tf, now)
           /\ \A r \in BrokerHistory(tf, now) :
                 /\ r \in Bar /\ r.start <= now /\ r.start % Length[tf] = 0
                 /\ r = BarUpTo(r.start, tf, now + 1, now)
           /\ \A s \in Nat : s <= now /\ s % Length[tf] = 0 =>
                 BarUpTo(s, tf, now + 1, now) \in BrokerHistory(tf, now)
<1>1. now + 1 \in Nat /\ \A s \in Nat : s < now + 1 <=> s <= now
  OBVIOUS
<1>2. /\ BrokerHistory(tf, now) \subseteq Bar
      /\ \A r \in BrokerHistory(tf, now) :
            /\ r.start < now + 1 /\ r.start % Length[tf] = 0
            /\ r = BarUpTo(r.start, tf, now + 1, now)
      /\ \A s \in Nat : s < now + 1 /\ s % Length[tf] = 0 =>
            BarUpTo(s, tf, now + 1, now) \in BrokerHistory(tf, now)
  BY <1>1, BarsBeforeAre DEF BrokerHistory
<1>3. \A r \in BrokerHistory(tf, now) : r.start \in Nat
  BY <1>2 DEF Bar
<1>. QED  BY <1>1, <1>2, <1>3, BarsBeforeAre DEF History

\* Closed bars end in the past.
LEMMA SettledIs ==
    ASSUME TypeInv, FeedInv
    PROVE  Settled \in Nat /\ Settled <= clock
BY WorkerIs DEF FeedInv, Times, Settled, Reach

\* Rows that are left alone stay right as time passes.
LEMMA LaterRows ==
    ASSUME ClosedRows, rows \in Bars, UNCHANGED <<rows, authoritative>>,
           Settled \in Nat, Settled' \in Nat, Settled <= Settled'
    PROVE  ClosedRows'
<1>. HIDE DEF Settled
<1>1. \A tf \in Timeframes : \A r \in rows[tf] : r.start + Length[tf] \in Nat
  BY Lengths DEF Bars, Bar
<1>. QED  BY <1>1 DEF ClosedRows

\* No step of a consumer changes what the feed is about.
LEMMA FeedFrame ==
    ASSUME FeedInv, UNCHANGED feedVars
    PROVE  FeedInv'
<1>1. Times' /\ Quotes'
  BY DEF FeedInv, feedVars, Times, Quotes, Reach
<1>2. ClosedRows' /\ BrokerBars'
  BY DEF FeedInv, feedVars, ClosedRows, BrokerBars, Settled, Reach
<1>3. Seen' = Seen /\ Given' = Given /\ SeededAtTheBoundary' = SeededAtTheBoundary
  BY DEF feedVars, Seen, Given, SeededAtTheBoundary, Reach
<1>4. ReplayBars' /\ EngineKnows' /\ RowsFold' /\ NoHoleWhileQuoted'
  BY <1>3 DEF FeedInv, feedVars, ReplayBars, EngineKnows, RowsFold, NoHoleWhileQuoted
<1>. QED  BY <1>1, <1>2, <1>4 DEF FeedInv

\* The start satisfies the invariant of the feed.
LEMMA FeedInit == Init => FeedInv
<1>. SUFFICES ASSUME Init PROVE FeedInv
  OBVIOUS
<1>1. /\ worker.phase = "down" /\ worker.offered = Nothing /\ worker.quote = Nothing
      /\ worker.seededAt = 0 /\ worker.heard = {} /\ worker.bars = NoBars /\ rows = NoBars
      /\ worker.now = 0 /\ clock \in Nat
  BY Bounds DEF Init
<1>2. Seen = {}
  BY <1>1 DEF Seen
<1>3. Times /\ Quotes
  BY <1>1 DEF Times, Quotes
<1>4. ClosedRows
  BY <1>1 DEF ClosedRows, NoBars
<1>5. BrokerBars /\ ReplayBars /\ EngineKnows /\ NoHoleWhileQuoted
  BY <1>1 DEF BrokerBars, ReplayBars, EngineKnows, NoHoleWhileQuoted
<1>6. RowsFold
  BY <1>2 DEF RowsFold
<1>. QED  BY <1>3, <1>4, <1>5, <1>6 DEF FeedInv

\* initialize stores a history that is right at its second, and seeds the engine with it.
LEMMA FeedInitialize ==
    ASSUME TypeInv, FeedInv, Initialize
    PROVE  FeedInv'
<1>0. clock \in Nat /\ clock > 0 /\ authoritative \in BOOLEAN /\ rows \in Bars /\ Nothing \notin Nat
  BY WorkerIs
<1>1. /\ worker.phase = "down" /\ worker'.phase = "running" /\ worker'.offered = Nothing
      /\ worker'.quote = Nothing /\ worker'.now = clock
      /\ worker'.seededAt = clock /\ worker'.heard = {}
      /\ UNCHANGED <<authoritative, clock>>
  BY DEF Initialize
<1>2. Seen' = 0..(clock - 1) /\ Given' = 0..(clock - 1)
  BY <1>1 DEF Seen, Given
<1>3. Times' /\ Quotes'
  BY <1>0, <1>1 DEF Times, Quotes
<1>4. ASSUME NEW tf \in Timeframes, NEW r
      PROVE  r \in rows'[tf] <=>
               LET new == IF authoritative THEN BrokerHistory(tf, clock) ELSE History(tf, clock)
               IN  r \in new \/ (r \in rows[tf] /\ \A n \in new : n.start # r.start)
  <2>. DEFINE new == [f \in Timeframes |-> IF authoritative THEN BrokerHistory(f, clock)
                                           ELSE History(f, clock)]
  <2>1. rows' = Upsert(rows, new)
    BY DEF Initialize
  <2>2. new[tf] = IF authoritative THEN BrokerHistory(tf, clock) ELSE History(tf, clock)
    OBVIOUS
  <2>. HIDE DEF new
  <2>3. r \in Upsert(rows, new)[tf] <=>
          r \in new[tf] \/ (r \in rows[tf] /\ \A n \in new[tf] : n.start # r.start)
    BY DEF Upsert
  <2>. QED  BY <2>1, <2>2, <2>3
<1>5. ClosedRows'
  <2>. SUFFICES ASSUME NEW tf \in Timeframes, NEW r \in rows'[tf], r.closed
                PROVE  /\ r.start % Length[tf] = 0
                       /\ r.start + Length[tf] <= clock
                       /\ authoritative => r.ticks = Seconds(r.start, r.start + Length[tf])
    BY <1>1 DEF ClosedRows, Settled, Reach
  <2>1. CASE r \in rows[tf]
    BY <1>1, <2>1 DEF FeedInv, ClosedRows, Settled
  <2>2. CASE authoritative /\ r \in BrokerHistory(tf, clock)
    <3>1. /\ r \in Bar /\ r.start % Length[tf] = 0 /\ r = BarUpTo(r.start, tf, clock + 1, clock)
      BY <1>0, <2>2, HistoryIs
    <3>2. r.start \in Nat /\ clock + 1 \in Nat /\ clock <= clock + 1
      BY <1>0, <3>1 DEF Bar
    <3>3. /\ r.start + Length[tf] <= clock
          /\ r = [start |-> r.start, ticks |-> Seconds(r.start, r.start + Length[tf]),
                  closed |-> TRUE]
      BY <1>0, <3>1, <3>2, OverIsWhole
    <3>4. r.ticks = Seconds(r.start, r.start + Length[tf])
      BY <3>3
    <3>. QED  BY <3>1, <3>3, <3>4
  <2>3. CASE ~authoritative /\ r \in History(tf, clock)
    <3>1. /\ r \in Bar /\ r.start % Length[tf] = 0 /\ r = BarUpTo(r.start, tf, clock, clock)
      BY <1>0, <2>3, HistoryIs
    <3>2. r.start \in Nat /\ clock <= clock
      BY <1>0, <3>1 DEF Bar
    <3>3. r.start + Length[tf] <= clock
      BY <1>0, <3>1, <3>2, OverIsWhole
    <3>. QED  BY <2>3, <3>1, <3>3
  <2>. QED  BY <1>0, <1>4, <2>1, <2>2, <2>3
<1>6. BrokerBars' /\ ReplayBars' /\ NoHoleWhileQuoted'
  BY <1>1 DEF BrokerBars, ReplayBars, NoHoleWhileQuoted
<1>7. EngineKnows'
  <2>. SUFFICES ASSUME ~authoritative
                PROVE  \E K \in SUBSET Given' : \E m \in K :
                          /\ EngineAt(engine', K, m)
                          /\ ~SeededAtTheBoundary' => K = Given'
                          /\ m < clock
    BY <1>1 DEF EngineKnows, EngineAt, Ticks, Folds
  <2>1. engine' = Seeded(clock)
    BY DEF Initialize
  <2>2. PICK K \in SUBSET (0..(clock - 1)) :
           /\ EngineAt(Seeded(clock), K, clock - 1)
           /\ clock % Length[Widest] # 0 => K = 0..(clock - 1)
    BY <1>0, SeedKnowsAll
  <2>3. ~SeededAtTheBoundary' => clock % Length[Widest] # 0
    BY <1>1 DEF SeededAtTheBoundary
  <2>4. clock - 1 \in K /\ clock - 1 < clock
    BY <1>0, <2>2 DEF EngineAt
  <2>. QED  BY <1>2, <2>1, <2>2, <2>3, <2>4
<1>8. RowsFold'
  <2>. SUFFICES ASSUME ~authoritative, NEW tf \in Timeframes, NEW s \in 0..(clock - 1)
                PROVE  /\ \E r \in rows'[tf] : r.start = Bucket(s, tf)
                       /\ \A r \in rows'[tf] : r.start = Bucket(s, tf) =>
                             Ticks(r.ticks, In(Bucket(s, tf), tf, 0..(clock - 1)))
    BY <1>1, <1>2 DEF RowsFold, Ticks, Folds, In
  <2>. DEFINE start == Bucket(s, tf)
              b == BarUpTo(start, tf, clock, clock)
  <2>1. /\ s \in Nat /\ s < clock
    BY <1>0
  <2>2. /\ start \in Nat /\ start % Length[tf] = 0 /\ start <= s
        /\ Length[tf] \in Nat
    BY <2>1, BucketFacts, Lengths
  <2>. HIDE DEF start
  <2>3. start < clock
    BY <1>0, <2>1, <2>2
  <2>4. b \in History(tf, clock)
    BY <1>0, <2>2, <2>3, HistoryIs
  <2>. DEFINE end == start + Length[tf]
              stop == IF end < clock THEN end ELSE clock
  <2>5. b.start = start /\ Ticks(b.ticks, start..(stop - 1))
    BY <1>0, <2>2, BarUpToIs
  <2>6. start..(stop - 1) = In(start, tf, 0..(clock - 1))
    <3>1. \A x : x \in start..(stop - 1) <=> x \in 0..(clock - 1) /\ start <= x /\ x < end
      BY <1>0, <2>2
    <3>. QED  BY <3>1 DEF In
  <2>7. ASSUME NEW r \in rows'[tf], r.start = start
        PROVE  r = b
    <3>1. r \in History(tf, clock)
      BY <1>4, <2>4, <2>5, <2>7
    <3>. QED  BY <1>0, <2>7, <3>1, HistoryIs
  <2>8. b \in rows'[tf]
    <3>. HIDE DEF b
    <3>1. b \in rows'[tf] <=>
             LET new == IF authoritative THEN BrokerHistory(tf, clock) ELSE History(tf, clock)
             IN  b \in new \/ (b \in rows[tf] /\ \A n \in new : n.start # b.start)
      BY <1>4
    <3>. QED  BY <2>4, <3>1
  <2>. HIDE DEF b, stop
  <2>. QED  BY <2>5, <2>6, <2>7, <2>8 DEF start
<1>. QED  BY <1>3, <1>5, <1>6, <1>7, <1>8 DEF FeedInv

\* A tick is read or folded, and no quote is further away than the gap allows.
LEMMA FeedIngest ==
    ASSUME TypeInv, FeedInv, NEW stamp \in Nat, IngestTick(stamp)
    PROVE  FeedInv'
<1>0. /\ clock \in Nat /\ clock > 0 /\ authoritative \in BOOLEAN
      /\ rows \in Bars /\ Nothing \notin Nat
      /\ worker.offered \in Nat \cup {Nothing} /\ worker.quote \in Nat \cup {Nothing}
      /\ worker.seededAt \in Nat /\ worker.heard \in SUBSET Nat /\ engine \in Engine
      /\ Seen \in SUBSET Nat
  BY WorkerIs
<1>1. /\ worker.phase = "running" /\ worker'.phase = "storing"
      /\ worker'.offered = stamp /\ worker'.now = clock
      /\ worker'.quote = worker.quote /\ worker'.seededAt = worker.seededAt
      /\ worker'.heard = worker.heard
      /\ worker'.bars = (IF authoritative THEN LastTwo ELSE Returned(engine, stamp))
      /\ engine' = (IF authoritative THEN engine ELSE Ingested(engine, stamp))
      /\ UNCHANGED <<authoritative, clock, rows>>
  BY DEF IngestTick, Offered, TypeInv, TypeOK, Worker
<1>2. /\ worker.offered # Nothing => worker.offered < stamp
      /\ authoritative => clock - stamp <= Stale /\ stamp - clock <= Ahead
      /\ authoritative /\ worker.quote # Nothing => ~(stamp - worker.quote > Gap)
      /\ ~authoritative => worker.now <= stamp /\ stamp <= clock
  <2>1. worker.now \in Nat /\ \A x \in worker.now..clock : worker.now <= x /\ x <= clock
    BY <1>0, WorkerIs
  <2>. QED  BY <2>1 DEF IngestTick, Offered, GapFound
<1>3. /\ Reach' = (IF authoritative THEN clock ELSE stamp) /\ Reach' \in Nat
      /\ Seen' = Seen /\ Given = Seen /\ Given' = Seen \cup {Reach'}
      /\ SeededAtTheBoundary' = SeededAtTheBoundary
  BY <1>0, <1>1 DEF Seen, Given, SeededAtTheBoundary, Reach
<1>4. Times'
  <2>1. Times /\ worker.now \in Nat /\ worker.now <= clock
    BY WorkerIs DEF FeedInv, Times
  <2>2. /\ worker.seededAt > 0 /\ worker.seededAt <= clock
        /\ ~authoritative => worker.seededAt <= stamp
    BY <1>0, <1>1, <1>2, <2>1 DEF Times
  <2>3. ASSUME NEW s \in worker.heard
        PROVE  s <= Reach' /\ (~authoritative => s < stamp)
    <3>1. s \in Nat /\ Reach \in Nat /\ s <= Reach
      BY <1>0, <1>1, <2>1 DEF Times
    <3>. QED  BY <1>0, <1>2, <1>3, <2>1, <3>1 DEF Reach
  <2>. QED  BY <1>0, <1>1, <1>2, <1>3, <2>1, <2>2, <2>3 DEF Times
<1>5. Quotes'
  <2>1. Gap \in Nat
    BY GapAssumption
  <2>2. Quotes
    BY DEF FeedInv
  <2>3. authoritative /\ worker.quote # Nothing => stamp - worker.quote <= Gap
    BY <1>0, <1>2, <2>1
  <2>. QED  BY <1>1, <1>2, <2>2, <2>3 DEF Quotes
<1>6. BrokerBars'
  <2>. SUFFICES ASSUME authoritative, NEW tf \in Timeframes
                PROVE  /\ \A n \in LastTwo[tf] :
                             n.start % Length[tf] = 0 /\ n = BarUpTo(n.start, tf, clock + 1, clock)
                       /\ \A start \in 0..clock :
                             start % Length[tf] = 0 /\ start + 2 * Length[tf] > clock =>
                                BarUpTo(start, tf, clock + 1, clock) \in LastTwo[tf]
    BY <1>1 DEF BrokerBars
  <2>1. LastTwo[tf] = {b \in BrokerHistory(tf, clock) : b.start + 2 * Length[tf] > clock}
    BY DEF LastTwo
  <2>2. ASSUME NEW start \in 0..clock, start % Length[tf] = 0, start + 2 * Length[tf] > clock
        PROVE  BarUpTo(start, tf, clock + 1, clock) \in LastTwo[tf]
    <3>. DEFINE b == BarUpTo(start, tf, clock + 1, clock)
    <3>1. start \in Nat /\ start <= clock /\ clock + 1 \in Nat
      BY <1>0
    <3>2. b \in BrokerHistory(tf, clock) /\ b.start = start
      BY <1>0, <2>2, <3>1, HistoryIs, BarUpToIs
    <3>. HIDE DEF b
    <3>3. b \in LastTwo[tf]
      BY <2>1, <2>2, <3>2
    <3>. QED  BY <3>3 DEF b
  <2>. QED  BY <1>0, <2>1, <2>2, HistoryIs
<1>7. ASSUME ~authoritative
      PROVE  /\ ReturnedBars(Returned(engine, stamp), stamp, ~SeededAtTheBoundary,
                             Seen \cup {stamp})
             /\ \E K \in SUBSET (Seen \cup {stamp}) :
                   /\ EngineAt(Ingested(engine, stamp), K, stamp)
                   /\ ~SeededAtTheBoundary => K = Seen \cup {stamp}
  <2>1. PICK K \in SUBSET Seen : \E m \in K :
            /\ EngineAt(engine, K, m)
            /\ ~SeededAtTheBoundary => K = Seen
            /\ IF worker.offered = Nothing THEN m < worker.seededAt ELSE m <= worker.offered
    BY <1>1, <1>3, <1>7 DEF FeedInv, EngineKnows
  <2>2. PICK m \in K :
            /\ EngineAt(engine, K, m)
            /\ ~SeededAtTheBoundary => K = Seen
            /\ IF worker.offered = Nothing THEN m < worker.seededAt ELSE m <= worker.offered
    BY <2>1
  <2>3. m < stamp /\ m \in Nat /\ K \in SUBSET Nat
    <3>1. m \in Nat /\ K \in SUBSET Nat
      BY <1>0, <2>2
    <3>2. worker.seededAt <= stamp
      <4>1. worker.now \in Nat /\ worker.seededAt <= worker.now /\ worker.now <= stamp
        BY <1>1, <1>2, <1>7, WorkerIs DEF FeedInv, Times
      <4>. QED  BY <1>0, <4>1
    <3>. QED  BY <1>0, <1>2, <2>2, <3>1, <3>2
  <2>4. ReturnedBars(Returned(engine, stamp), stamp, TRUE, K \cup {stamp})
    BY <1>0, <2>2, <2>3, ReturnedKnows
  <2>5. EngineAt(Ingested(engine, stamp), K \cup {stamp}, stamp)
    BY <1>0, <2>2, <2>3, IngestKnows
  <2>6. ReturnedBars(Returned(engine, stamp), stamp, ~SeededAtTheBoundary, Seen \cup {stamp})
    <3>1. CASE SeededAtTheBoundary
      BY <2>4, <3>1 DEF ReturnedBars
    <3>2. CASE ~SeededAtTheBoundary
      <4>1. K = Seen
        BY <2>2, <3>2
      <4>. QED  BY <2>4, <3>2, <4>1 DEF ReturnedBars
    <3>. QED  BY <3>1, <3>2
  <2>7. K \cup {stamp} \in SUBSET (Seen \cup {stamp})
    BY <2>1
  <2>. QED  BY <2>2, <2>5, <2>6, <2>7
<1>8. ReplayBars'
  BY <1>0, <1>1, <1>3, <1>7 DEF ReplayBars, ReturnedBars, Ticks, Folds, In
<1>9. EngineKnows'
  <2>. SUFFICES ASSUME ~authoritative
                PROVE  \E K \in SUBSET Given' : \E m \in K :
                          /\ EngineAt(engine', K, m)
                          /\ ~SeededAtTheBoundary' => K = Given'
                          /\ IF worker'.offered = Nothing THEN m < worker'.seededAt
                             ELSE m <= worker'.offered
    BY <1>1 DEF EngineKnows, EngineAt, Ticks, Folds
  <2>1. PICK K \in SUBSET (Seen \cup {stamp}) :
                   /\ EngineAt(Ingested(engine, stamp), K, stamp)
                   /\ ~SeededAtTheBoundary => K = Seen \cup {stamp}
    BY <1>7
  <2>2. stamp \in K /\ stamp <= stamp /\ stamp # Nothing
    BY <1>0, <2>1 DEF EngineAt
  <2>. QED  BY <1>1, <1>3, <2>1, <2>2
<1>10. RowsFold'
  <2>. SUFFICES ASSUME RowsFold PROVE RowsFold'
    BY DEF FeedInv
  <2>. QED  BY <1>1, <1>3 DEF RowsFold
<1>11. NoHoleWhileQuoted'
  BY <1>1 DEF FeedInv, NoHoleWhileQuoted
<1>12. ClosedRows'
  <2>1. Settled \in Nat /\ Settled' \in Nat /\ Settled <= Settled'
    BY <1>0, <1>1, <1>2, <1>3, WorkerIs DEF FeedInv, Times, Settled, Reach
  <2>. QED  BY <1>0, <1>1, <2>1, LaterRows DEF FeedInv
<1>. QED  BY <1>4, <1>5, <1>6, <1>8, <1>9, <1>10, <1>11, <1>12 DEF FeedInv

\* Of two bars in a bucket the new one is stored.
LEMMA StoredAt ==
    ASSUME StoreTick, NEW tf \in Timeframes
    PROVE  \A r : r \in rows'[tf] <=>
                     \/ r \in worker.bars[tf]
                     \/ (r \in rows[tf] /\ \A n \in worker.bars[tf] : n.start # r.start)
BY DEF StoreTick, Upsert

\* A closed bar is not rewritten.
LEMMA ClosedStays ==
    ASSUME TypeInv, FeedInv, worker.phase = "storing", ~SeededAtTheBoundary,
           NEW tf \in Timeframes, NEW r \in rows[tf], r.closed, NEW n \in worker.bars[tf],
           n.start = r.start
    PROVE  n = r
<1>0. /\ authoritative \in BOOLEAN /\ rows \in Bars /\ worker.bars \in Bars
      /\ worker.offered \in Nat /\ worker.seededAt \in Nat /\ worker.heard \in SUBSET Nat
      /\ Seen \in SUBSET Nat /\ worker.now \in Nat
      /\ Reach = IF authoritative THEN worker.now ELSE worker.offered
  BY WorkerIs DEF Reach
<1>1. r \in Bar /\ n \in Bar
  BY <1>0 DEF Bars
<1>2. /\ r.start % Length[tf] = 0 /\ r.start + Length[tf] <= Reach
      /\ authoritative => r.ticks = Seconds(r.start, r.start + Length[tf])
      /\ r.start \in Nat /\ Length[tf] \in Nat /\ Length[tf] > 0
  <2>1. Settled = Reach
    BY <1>0, WorkerIs DEF Settled
  <2>. QED  BY <1>1, <2>1, Lengths DEF FeedInv, ClosedRows, Bar
<1>3. n.closed = r.closed /\ n.ticks = r.ticks
  <2>1. CASE authoritative
    <3>1. n = BarUpTo(r.start, tf, worker.now + 1, worker.now)
      BY <2>1 DEF FeedInv, BrokerBars
    <3>2. worker.now + 1 \in Nat /\ worker.now <= worker.now + 1
      BY <1>0
    <3>3. n = [start |-> r.start, ticks |-> Seconds(r.start, r.start + Length[tf]),
               closed |-> TRUE]
      <4>. DEFINE stop == worker.now + 1
                  now == worker.now
                  start == r.start
      <4>1. /\ stop \in Nat /\ now \in Nat /\ now <= stop /\ start \in Nat
            /\ start + Length[tf] <= now /\ n = BarUpTo(start, tf, stop, now)
        BY <1>0, <1>2, <2>1, <3>1, <3>2
      <4>. HIDE DEF stop, now, start
      <4>2. BarUpTo(start, tf, stop, now) =
               [start |-> start, ticks |-> Seconds(start, start + Length[tf]), closed |-> TRUE]
        BY <4>1, OverIsWhole
      <4>. QED  BY <4>1, <4>2 DEF start
    <3>. QED  BY <1>1, <1>2, <2>1, <3>3 DEF Bar
  <2>2. CASE ~authoritative
    <3>1. ReturnedBars(worker.bars, worker.offered, TRUE, Given)
      BY <2>2 DEF FeedInv, ReplayBars, ReturnedBars
    <3>2. /\ IF n.closed THEN n.start + Length[tf] <= worker.offered
             ELSE n.start = Bucket(worker.offered, tf)
          /\ Ticks(n.ticks, In(n.start, tf, Given)) /\ In(n.start, tf, Given) # {}
      BY <3>1 DEF ReturnedBars
    <3>3. n.closed
      <4>1. worker.offered < Bucket(worker.offered, tf) + Length[tf]
        BY <1>0, BucketFacts
      <4>2. Bucket(worker.offered, tf) \in Nat
        BY <1>0, BucketFacts
      <4>. QED  BY <1>0, <1>2, <2>2, <3>2, <4>1, <4>2
    <3>4. In(r.start, tf, Given) = In(r.start, tf, Seen)
      <4>1. Given = Seen \cup {worker.offered}
        BY <1>0, <2>2 DEF Given
      <4>2. ~(worker.offered < r.start + Length[tf])
        BY <1>0, <1>2, <2>2
      <4>. QED  BY <4>1, <4>2 DEF In
    <3>5. PICK s \in Seen : r.start <= s /\ s < r.start + Length[tf]
      BY <3>2, <3>4 DEF In
    <3>6. Bucket(s, tf) = r.start
      BY <1>0, <1>2, <3>5, BucketUnique
    <3>7. Ticks(r.ticks, In(r.start, tf, Seen))
      BY <2>2, <3>6 DEF FeedInv, RowsFold
    <3>8. Ticks(n.ticks, In(r.start, tf, Seen))
      BY <3>2, <3>4
    <3>9. n.ticks = r.ticks
      BY <3>7, <3>8, TicksAreUnique
    <3>. QED  BY <1>1, <3>3, <3>9 DEF Bar
  <2>. QED  BY <1>0, <2>1, <2>2
<1>4. /\ n = [start |-> n.start, ticks |-> n.ticks, closed |-> n.closed]
      /\ r = [start |-> r.start, ticks |-> r.ticks, closed |-> r.closed]
  BY <1>1 DEF Bar
<1>. QED  BY <1>3, <1>4

\* The bars of a tick are stored: what is missed since the last is within the last two bars.
LEMMA FeedStore ==
    ASSUME TypeInv, FeedInv, StoreTick
    PROVE  FeedInv'
<1>. DEFINE t == Reach
<1>1. /\ clock \in Nat /\ authoritative \in BOOLEAN /\ rows \in Bars /\ Nothing \notin Nat
      /\ t \in Nat /\ worker.quote \in Nat \cup {Nothing} /\ worker.bars \in Bars
      /\ worker.seededAt \in Nat /\ worker.heard \in SUBSET Nat /\ Seen \in SUBSET Nat
      /\ worker.offered \in Nat /\ worker.now \in Nat
  BY WorkerIs DEF StoreTick
<1>2. /\ worker.phase = "storing" /\ worker'.phase = "publishing"
      /\ worker'.offered = worker.offered /\ worker'.now = worker.now
      /\ worker'.quote = worker.quote /\ worker'.seededAt = worker.seededAt
      /\ worker'.heard = worker.heard \cup {t}
      /\ UNCHANGED <<authoritative, clock, engine>>
  BY DEF StoreTick, TypeInv, TypeOK, Worker
<1>3. Reach' = t /\ t = IF authoritative THEN worker.now ELSE worker.offered
  BY <1>2 DEF Reach
<1>. HIDE DEF t
<1>4. /\ Seen' = Seen \cup {t} /\ Given = Seen \cup {t} /\ Given' = Given
      /\ SeededAtTheBoundary' = SeededAtTheBoundary
  BY <1>2 DEF Seen, Given, SeededAtTheBoundary, t
<1>5. /\ \A s \in worker.heard : s <= t
      /\ ~authoritative => \A s \in worker.heard : s < t
      /\ t <= clock
  BY <1>1, <1>2, <1>3 DEF FeedInv, Times, t
<1>6. Times'
  BY <1>1, <1>2, <1>5, <1>3 DEF FeedInv, Times
<1>7. Quotes'
  BY <1>1, <1>2, <1>3 DEF FeedInv, Quotes
<1>8. Settled = t /\ Settled' = t
  BY <1>1, <1>2, <1>3 DEF Settled, t
<1>9. ASSUME NEW tf \in Timeframes, NEW r \in rows'[tf]
      PROVE  \/ r \in worker.bars[tf]
             \/ (r \in rows[tf] /\ \A n \in worker.bars[tf] : n.start # r.start)
  BY StoredAt
<1>10. ClosedRows'
  <2>. SUFFICES ASSUME NEW tf \in Timeframes, NEW r \in rows'[tf], r.closed
                PROVE  /\ r.start % Length[tf] = 0
                       /\ r.start + Length[tf] <= t
                       /\ authoritative => r.ticks = Seconds(r.start, r.start + Length[tf])
    BY <1>2, <1>8 DEF ClosedRows
  <2>1. CASE r \in rows[tf]
    <3>1. /\ r.start % Length[tf] = 0 /\ r.start + Length[tf] <= t
          /\ authoritative => r.ticks = Seconds(r.start, r.start + Length[tf])
          /\ r.start \in Nat /\ Length[tf] \in Nat
      BY <1>1, <1>2, <1>8, <2>1, Lengths DEF FeedInv, ClosedRows, Bars, Bar
    <3>. QED  BY <3>1
  <2>2. CASE r \in worker.bars[tf]
    <3>0. r \in Bar /\ r.start \in Nat /\ Length[tf] \in Nat
      BY <1>1, <2>2, Lengths DEF Bars, Bar
    <3>1. CASE authoritative
      <4>1. r.start % Length[tf] = 0 /\ r = BarUpTo(r.start, tf, t + 1, t)
        BY <1>2, <1>3, <2>2, <3>1 DEF FeedInv, BrokerBars
      <4>2. t + 1 \in Nat /\ t <= t + 1
        BY <1>1
      <4>3. /\ r.start + Length[tf] <= t
            /\ r = [start |-> r.start, ticks |-> Seconds(r.start, r.start + Length[tf]),
                    closed |-> TRUE]
        BY <1>1, <3>0, <4>1, <4>2, OverIsWhole
      <4>4. r.ticks = Seconds(r.start, r.start + Length[tf])
        BY <4>3
      <4>. QED  BY <1>1, <1>5, <3>0, <4>1, <4>3, <4>4
    <3>2. CASE ~authoritative
      <4>1. r.start % Length[tf] = 0 /\ r.start + Length[tf] <= t
        BY <1>2, <1>3, <2>2, <3>2 DEF FeedInv, ReplayBars, ReturnedBars
      <4>. QED  BY <1>1, <1>5, <3>0, <3>2, <4>1
    <3>. QED  BY <1>1, <3>1, <3>2
  <2>. QED  BY <1>9, <2>1, <2>2
<1>11. BrokerBars' /\ ReplayBars'
  BY <1>2 DEF BrokerBars, ReplayBars
<1>12. EngineKnows'
  <2>. SUFFICES ASSUME EngineKnows PROVE EngineKnows'
    BY DEF FeedInv
  <2>. QED  BY <1>2, <1>4 DEF EngineKnows, EngineAt, Ticks, Folds
<1>13. RowsFold'
  <2>. SUFFICES ASSUME ~authoritative, ~SeededAtTheBoundary, NEW tf \in Timeframes,
                       NEW s \in Seen \cup {t}
                PROVE  /\ \E r \in rows'[tf] : r.start = Bucket(s, tf)
                       /\ \A r \in rows'[tf] : r.start = Bucket(s, tf) =>
                             Ticks(r.ticks, In(Bucket(s, tf), tf, Seen \cup {t}))
    BY <1>2, <1>4 DEF RowsFold, Ticks, Folds, In
  <2>. DEFINE start == Bucket(s, tf)
  <2>0. ReturnedBars(worker.bars, t, TRUE, Seen \cup {t})
    BY <1>2, <1>4, <1>3 DEF FeedInv, ReplayBars, ReturnedBars
  <2>1. CASE \E n \in worker.bars[tf] : n.start = start
    <3>1. PICK n \in worker.bars[tf] : n.start = start
      BY <2>1
    <3>2. n \in rows'[tf]
      BY StoredAt
    <3>3. ASSUME NEW r \in rows'[tf], r.start = start
          PROVE  Ticks(r.ticks, In(start, tf, Seen \cup {t}))
      <4>1. r \in worker.bars[tf]
        BY <1>9, <3>1, <3>3
      <4>. QED  BY <2>0, <3>3, <4>1 DEF ReturnedBars
    <3>. QED  BY <3>1, <3>2, <3>3
  <2>2. CASE ~ \E n \in worker.bars[tf] : n.start = start
    <3>1. start # Bucket(t, tf)
      BY <2>0, <2>2 DEF ReturnedBars
    <3>2. s \in Seen /\ s \in Nat
      BY <1>1, <3>1
    <3>3. In(start, tf, Seen \cup {t}) = In(start, tf, Seen)
      <4>1. start \in Nat /\ start % Length[tf] = 0
        BY <3>2, BucketFacts
      <4>. HIDE DEF start
      <4>2. ~(start <= t /\ t < start + Length[tf])
        BY <1>1, <3>1, <4>1, BucketUnique
      <4>. QED  BY <4>2 DEF In
    <3>4. /\ \E r \in rows[tf] : r.start = start
          /\ \A r \in rows[tf] : r.start = start => Ticks(r.ticks, In(start, tf, Seen))
      BY <3>2 DEF FeedInv, RowsFold
    <3>. HIDE DEF start
    <3>5. \A r : r.start = start => (r \in rows'[tf] <=> r \in rows[tf])
      BY <2>2, StoredAt
    <3>6. \E r \in rows'[tf] : r.start = start
      BY <3>4, <3>5
    <3>7. \A r \in rows'[tf] : r.start = start => Ticks(r.ticks, In(start, tf, Seen \cup {t}))
      BY <3>3, <3>4, <3>5
    <3>. QED  BY <3>6, <3>7 DEF start
  <2>. QED  BY <2>1, <2>2
<1>14. NoHoleWhileQuoted'
  <2>. DEFINE bar(start) == [start |-> start, ticks |-> Seconds(start, start + Length[Base]),
                             closed |-> TRUE]
  <2>. SUFFICES ASSUME authoritative, ReadsFitABar, NEW s \in worker.heard \cup {t},
                       NEW u \in worker.heard \cup {t},
                       NEW start \in Bucket(s, Base)..(Bucket(u, Base) - 1),
                       start % Length[Base] = 0
                PROVE  bar(start) \in rows'[Base]
    BY <1>2 DEF NoHoleWhileQuoted
  <2>0. /\ Base \in Timeframes /\ s \in Nat /\ u \in Nat
        /\ Length[Base] \in Nat /\ Length[Base] > 0
        /\ Gap \in Nat /\ Stale \in Nat /\ Ahead \in Nat /\ Gap + Stale + Ahead <= Length[Base]
    BY <1>1, Lengths, TimeframesAssumption, GapAssumption DEF ReadsFitABar
  <2>1. /\ Bucket(s, Base) \in Nat /\ Bucket(s, Base) <= s
        /\ Bucket(u, Base) \in Nat /\ Bucket(u, Base) <= u /\ Bucket(u, Base) % Length[Base] = 0
    BY <2>0, BucketFacts
  <2>2. /\ start \in Nat /\ start < Bucket(u, Base) /\ Bucket(s, Base) <= start
        /\ start + Length[Base] <= Bucket(u, Base)
    <3>1. start \in Nat /\ start < Bucket(u, Base) /\ Bucket(s, Base) <= start
      BY <2>1
    <3>. QED  BY <2>0, <2>1, <3>1, Apart
  <2>3. u <= t /\ s <= t
    BY <1>1, <1>5, <2>0
  <2>4. start + Length[Base] <= t
    BY <1>1, <2>0, <2>1, <2>2, <2>3
  <2>5. BarUpTo(start, Base, t + 1, t) = bar(start)
    <3>1. t + 1 \in Nat /\ t <= t + 1
      BY <1>1
    <3>. QED  BY <1>1, <2>0, <2>2, <2>4, <3>1, OverIsWhole
  <2>6. CASE bar(start) \in rows[Base]
    <3>. DEFINE b == bar(start)
    <3>1. b.start = start
      OBVIOUS
    <3>2. ASSUME NEW n \in worker.bars[Base], n.start = start
          PROVE  n = b
      BY <1>2, <1>3, <2>0, <2>5, <3>2 DEF FeedInv, BrokerBars
    <3>. HIDE DEF b
    <3>3. b \in rows'[Base]
      BY <2>0, <2>6, <3>1, <3>2, StoredAt DEF b
    <3>. QED  BY <3>3 DEF b
  <2>7. CASE bar(start) \in worker.bars[Base]
    BY <2>0, <2>7, StoredAt
  <2>8. CASE s \in worker.heard /\ u \in worker.heard
    BY <2>6, <2>8 DEF FeedInv, NoHoleWhileQuoted
  <2>9. CASE s = t
    <3>1. Bucket(u, Base) <= Bucket(t, Base)
      BY <1>1, <2>0, <2>3, BucketMonotone
    <3>. QED  BY <1>1, <2>0, <2>1, <2>2, <2>9, <3>1
  <2>10. CASE s \in worker.heard /\ u = t
    <3>1. PICK q \in worker.heard : worker.quote \in Nat /\ worker.quote - q <= Ahead
      BY <1>1, <1>2, <2>10 DEF FeedInv, Quotes
    <3>2. t - q <= Length[Base] /\ q \in Nat
      <4>1. /\ worker.offered - worker.quote <= Gap
            /\ t - worker.offered <= Stale
        BY <1>1, <1>2, <1>3, <3>1 DEF FeedInv, Quotes
      <4>. QED  BY <1>1, <2>0, <3>1, <4>1
    <3>3. Bucket(q, Base) \in Nat /\ q < Bucket(q, Base) + Length[Base]
      BY <2>0, <3>2, BucketFacts
    <3>4. CASE start < Bucket(q, Base)
      <4>1. start \in Bucket(s, Base)..(Bucket(q, Base) - 1)
        BY <2>1, <2>2, <3>3, <3>4
      <4>. QED  BY <2>6, <2>10, <3>1, <4>1 DEF FeedInv, NoHoleWhileQuoted
    <3>5. CASE Bucket(q, Base) <= start
      <4>1. start + 2 * Length[Base] > t
        BY <1>1, <2>0, <2>2, <3>2, <3>3, <3>5
      <4>2. start \in 0..t
        BY <1>1, <2>0, <2>2, <2>4
      <4>3. BarUpTo(start, Base, t + 1, t) \in worker.bars[Base]
        BY <1>2, <1>3, <2>0, <4>1, <4>2 DEF FeedInv, BrokerBars
      <4>. QED  BY <2>5, <2>7, <4>3
    <3>. QED  BY <2>2, <3>3, <3>4, <3>5
  <2>. QED  BY <2>8, <2>9, <2>10
<1>. QED  BY <1>6, <1>7, <1>10, <1>11, <1>12, <1>13, <1>14 DEF FeedInv

\* The tick that is published was the last stored.
LEMMA FeedPublish ==
    ASSUME TypeInv, FeedInv, PublishTick
    PROVE  FeedInv'
<1>1. /\ worker.offered \in Nat /\ worker.heard \in SUBSET Nat /\ Nothing \notin Nat
      /\ worker.now \in Nat /\ clock \in Nat /\ worker.seededAt \in Nat /\ rows \in Bars
  BY WorkerIs DEF PublishTick
<1>2. /\ worker.phase = "publishing" /\ worker'.phase = "running"
      /\ worker'.offered = worker.offered /\ worker'.quote = worker.offered
      /\ worker'.now = clock
      /\ worker'.seededAt = worker.seededAt /\ worker'.heard = worker.heard
      /\ UNCHANGED <<authoritative, clock, engine, rows>>
  BY DEF PublishTick, TypeInv, TypeOK, Worker
<1>3. /\ Seen' = Seen /\ Given' = Given /\ SeededAtTheBoundary' = SeededAtTheBoundary
  BY <1>2 DEF Seen, Given, SeededAtTheBoundary
<1>4. Reach \in Nat /\ Reach' \in Nat /\ Reach <= Reach'
  BY <1>1, <1>2 DEF FeedInv, Times, Reach
<1>5. Times' /\ Quotes'
  <2>1. Times /\ Quotes
    BY DEF FeedInv
  <2>2. \A s \in worker.heard : s <= Reach'
    BY <1>1, <1>2, <1>4, <2>1 DEF Times
  <2>3. Times'
    BY <1>1, <1>2, <1>4, <2>1, <2>2 DEF Times
  <2>4. Quotes'
    BY <1>1, <1>2, <2>1 DEF Quotes
  <2>. QED  BY <2>3, <2>4
<1>6. ClosedRows'
  <2>1. Settled \in Nat /\ Settled' \in Nat /\ Settled <= Settled'
    BY <1>1, <1>2, <1>4 DEF Settled
  <2>. QED  BY <1>1, <1>2, <2>1, LaterRows DEF FeedInv
<1>7. BrokerBars' /\ ReplayBars'
  BY <1>2 DEF BrokerBars, ReplayBars
<1>8. EngineKnows'
  <2>. SUFFICES ASSUME ~authoritative
                PROVE  \E K \in SUBSET Given' : \E m \in K :
                          /\ EngineAt(engine', K, m)
                          /\ ~SeededAtTheBoundary' => K = Given'
                          /\ IF worker'.offered = Nothing THEN m < worker'.seededAt
                             ELSE m <= worker'.offered
    BY <1>2 DEF EngineKnows, EngineAt, Ticks, Folds
  <2>1. \E K \in SUBSET Given : \E m \in K :
            /\ EngineAt(engine, K, m)
            /\ ~SeededAtTheBoundary => K = Given
            /\ IF worker.offered = Nothing THEN m < worker.seededAt ELSE m <= worker.offered
    BY <1>2 DEF FeedInv, EngineKnows
  <2>. QED  BY <1>2, <1>3, <2>1
<1>9. RowsFold' /\ NoHoleWhileQuoted'
  BY <1>2, <1>3 DEF FeedInv, RowsFold, NoHoleWhileQuoted
<1>. QED  BY <1>5, <1>6, <1>7, <1>8, <1>9 DEF FeedInv

\* A tick that is dropped is as if it had not been.
LEMMA FeedReject ==
    ASSUME TypeInv, FeedInv, NEW stamp \in Nat, RejectTick(stamp)
    PROVE  FeedInv'
<1>1. /\ clock \in Nat /\ clock > 0 /\ Nothing \notin Nat /\ worker.offered \in Nat \cup {Nothing}
      /\ worker.seededAt \in Nat /\ worker.heard \in SUBSET Nat /\ Seen \in SUBSET Nat
  BY WorkerIs
<1>2. /\ worker.phase = "running" /\ worker'.phase = "running"
      /\ worker'.offered = stamp /\ worker'.now = clock /\ worker'.quote = worker.quote
      /\ worker'.seededAt = worker.seededAt /\ worker'.heard = worker.heard
      /\ UNCHANGED <<authoritative, clock, engine, rows>>
      /\ worker.offered # Nothing => worker.offered < stamp
      /\ worker.now \in Nat /\ rows \in Bars
  BY WorkerIs DEF RejectTick, Offered, TypeInv, TypeOK, Worker
<1>3. ~authoritative => worker.now <= stamp /\ stamp <= clock
  <2>1. \A x \in worker.now..clock : worker.now <= x /\ x <= clock
    BY <1>1, <1>2
  <2>. QED  BY <2>1 DEF RejectTick, Offered
<1>4. /\ Seen' = Seen /\ Given = Seen /\ Given' = Given
      /\ SeededAtTheBoundary' = SeededAtTheBoundary
      /\ Reach' = IF authoritative THEN clock ELSE stamp
  BY <1>2 DEF Seen, Given, SeededAtTheBoundary, Reach
<1>5. Times'
  <2>1. Times
    BY DEF FeedInv
  <2>2. \A s \in worker.heard : s <= Reach'
    BY <1>1, <1>2, <1>4, <1>3, <2>1 DEF Times, Reach
  <2>. QED  BY <1>1, <1>2, <1>4, <1>3, <2>1, <2>2 DEF Times
<1>6. Quotes'
  BY <1>2 DEF FeedInv, Quotes
<1>7. ClosedRows'
  <2>1. Settled \in Nat /\ Settled' \in Nat /\ Settled <= Settled'
    BY <1>1, <1>2, <1>4, <1>3, WorkerIs DEF FeedInv, Times, Settled, Reach
  <2>. QED  BY <1>1, <1>2, <2>1, LaterRows DEF FeedInv
<1>8. BrokerBars' /\ ReplayBars'
  BY <1>2 DEF BrokerBars, ReplayBars
<1>9. EngineKnows'
  <2>. SUFFICES ASSUME ~authoritative
                PROVE  \E K \in SUBSET Given' : \E m \in K :
                          /\ EngineAt(engine', K, m)
                          /\ ~SeededAtTheBoundary' => K = Given'
                          /\ IF worker'.offered = Nothing THEN m < worker'.seededAt
                             ELSE m <= worker'.offered
    BY <1>2 DEF EngineKnows, EngineAt, Ticks, Folds
  <2>1. PICK K \in SUBSET Given : \E m \in K :
            /\ EngineAt(engine, K, m)
            /\ ~SeededAtTheBoundary => K = Given
            /\ IF worker.offered = Nothing THEN m < worker.seededAt ELSE m <= worker.offered
    BY <1>2 DEF FeedInv, EngineKnows
  <2>2. PICK m \in K :
            /\ EngineAt(engine, K, m)
            /\ ~SeededAtTheBoundary => K = Given
            /\ IF worker.offered = Nothing THEN m < worker.seededAt ELSE m <= worker.offered
    BY <2>1
  <2>3. m <= stamp /\ stamp # Nothing
    BY <1>1, <1>2, <1>4, <1>3, <2>2 DEF FeedInv, Times
  <2>. QED  BY <1>2, <1>4, <2>2, <2>3
<1>10. RowsFold' /\ NoHoleWhileQuoted'
  BY <1>2, <1>4 DEF FeedInv, RowsFold, NoHoleWhileQuoted
<1>. QED  BY <1>5, <1>6, <1>7, <1>8, <1>9, <1>10 DEF FeedInv

\* The worker stops: what was about to be stored is not.
LEMMA FeedStops ==
    ASSUME TypeInv, FeedInv, (\E stamp \in Nat : Resnapshot(stamp)) \/ FailWorker
    PROVE  FeedInv'
<1>0. clock \in Nat /\ rows \in Bars
  BY WorkerIs
<1>1. /\ worker'.phase = "down" /\ worker'.offered = worker.offered
      /\ worker'.now = worker.now
      /\ worker'.seededAt = worker.seededAt /\ worker'.heard = worker.heard
      /\ UNCHANGED <<authoritative, clock, engine, rows>>
  BY DEF Resnapshot, FailWorker, TypeInv, TypeOK, Worker
<1>2. Seen' = Seen /\ SeededAtTheBoundary' = SeededAtTheBoundary
  BY <1>1 DEF Seen, SeededAtTheBoundary
<1>3. Times' /\ Quotes'
  BY <1>1 DEF FeedInv, Times, Quotes
<1>4. ClosedRows'
  <2>1. Settled \in Nat /\ Settled <= clock /\ Settled' = clock
    BY <1>0, <1>1, SettledIs DEF Settled
  <2>. QED  BY <1>0, <1>1, <2>1, LaterRows DEF FeedInv
<1>5. BrokerBars' /\ ReplayBars' /\ EngineKnows'
  BY <1>1 DEF BrokerBars, ReplayBars, EngineKnows
<1>6. RowsFold' /\ NoHoleWhileQuoted'
  BY <1>1, <1>2 DEF FeedInv, RowsFold, NoHoleWhileQuoted
<1>. QED  BY <1>3, <1>4, <1>5, <1>6 DEF FeedInv

\* A crash leaves the rows.
LEMMA FeedCrash ==
    ASSUME TypeInv, FeedInv, Crash
    PROVE  FeedInv'
<1>0. clock \in Nat /\ rows \in Bars
  BY WorkerIs
<1>1. /\ worker'.phase = "down" /\ worker'.offered = Nothing /\ worker'.now = 0
      /\ worker'.seededAt = 0 /\ worker'.heard = {}
      /\ UNCHANGED <<authoritative, clock, rows>>
  BY DEF Crash
<1>2. Seen' = {}
  BY <1>1 DEF Seen
<1>3. Times' /\ Quotes'
  BY <1>0, <1>1 DEF Times, Quotes
<1>4. ClosedRows'
  <2>1. Settled \in Nat /\ Settled <= clock /\ Settled' = clock
    BY <1>0, <1>1, SettledIs DEF Settled
  <2>. QED  BY <1>0, <1>1, <2>1, LaterRows DEF FeedInv
<1>5. BrokerBars' /\ ReplayBars' /\ EngineKnows' /\ NoHoleWhileQuoted'
  BY <1>1 DEF BrokerBars, ReplayBars, EngineKnows, NoHoleWhileQuoted
<1>6. RowsFold'
  BY <1>2 DEF RowsFold
<1>. QED  BY <1>3, <1>4, <1>5, <1>6 DEF FeedInv

\* Time passes.
LEMMA FeedTick ==
    ASSUME TypeInv, FeedInv, Tick
    PROVE  FeedInv'
<1>0. clock \in Nat /\ clock' = clock + 1 /\ UNCHANGED <<authoritative, worker, engine, rows>>
  BY WorkerIs DEF Tick
<1>1. Seen' = Seen /\ Given' = Given /\ SeededAtTheBoundary' = SeededAtTheBoundary
  BY <1>0 DEF Seen, Given, SeededAtTheBoundary, Reach
<1>2. Times' /\ Quotes'
  <2>1. /\ worker.seededAt \in Nat /\ worker.offered \in Nat \cup {Nothing} /\ worker.now \in Nat
        /\ Nothing \notin Nat
    BY WorkerIs
  <2>2. /\ worker.seededAt <= clock' /\ worker.now <= clock'
        /\ ~authoritative /\ worker.offered # Nothing => worker.offered <= clock'
    BY <1>0, <2>1 DEF FeedInv, Times
  <2>. QED  BY <1>0, <2>2 DEF FeedInv, Times, Quotes, Reach
<1>3. ClosedRows'
  <2>1. Settled \in Nat /\ Settled <= clock
    BY SettledIs
  <2>2. Settled' = IF worker.phase = "down" THEN clock' ELSE Settled
    BY <1>0 DEF Settled, Reach
  <2>. QED  BY <1>0, <2>1, <2>2, LaterRows, WorkerIs DEF FeedInv
<1>4. BrokerBars'
  BY <1>0 DEF FeedInv, BrokerBars
<1>5. ReplayBars' /\ EngineKnows' /\ RowsFold' /\ NoHoleWhileQuoted'
  BY <1>0, <1>1 DEF FeedInv, ReplayBars, EngineKnows, RowsFold, NoHoleWhileQuoted
<1>. QED  BY <1>2, <1>3, <1>4, <1>5 DEF FeedInv

\* Every step keeps the invariant of the feed.
LEMMA FeedStep ==
    ASSUME TypeInv, FeedInv, Next
    PROVE  FeedInv'
<1>1. ASSUME NEW k \in Consumers,
             Connect(k) \/ Serve(k) \/ SendStatus(k) \/ Disconnect(k) \/ Receive(k)
      PROVE  UNCHANGED feedVars
  BY <1>1 DEF Connect, Serve, SendStatus, Disconnect, Receive, Authenticate, TakeItem,
        ReadSnapshot, SendSnapshot, SendUpdate, CloseTold, Leave
<1>. QED
  BY <1>1, FeedFrame, FeedInitialize, FeedIngest, FeedReject, FeedStops, FeedStore, FeedPublish,
     FeedCrash, FeedTick, Steps

-----------------------------------------------------------------------------
(* The theorems *)

IInv == TypeInv /\ BusInv /\ FeedInv

\* The invariant holds in every state.
THEOREM InvariantHolds == Spec => []IInv
<1>1. Init => IInv
  BY TypesInit, BusInit, FeedInit DEF IInv
<1>2. IInv /\ [Next]_vars => IInv'
  <2>1. ASSUME IInv, Next
        PROVE  IInv'
    <3>1. TypeInv'
      BY <2>1, TypesStep DEF IInv
    <3>2. BusInv'
      BY <2>1, BusStep DEF IInv
    <3>3. FeedInv'
      BY <2>1, FeedStep DEF IInv
    <3>. QED  BY <3>1, <3>2, <3>3 DEF IInv
  <2>2. ASSUME IInv, UNCHANGED vars
        PROVE  IInv'
    <3>1. TypeInv'
      BY <2>2, TypesStep DEF IInv
    <3>2. BusInv'
      BY <2>2 DEF IInv, vars, BusInv, Owed, Open, Items, Told, Whole
    <3>3. FeedInv'
      BY <2>2, FeedFrame DEF IInv, vars, feedVars
    <3>. QED  BY <3>1, <3>2, <3>3 DEF IInv
  <2>. QED  BY <2>1, <2>2
<1>. QED  BY <1>1, <1>2, PTL DEF Spec

\* Every variable keeps to its type, and queues, wires and slots to their limits.
THEOREM TypeCorrect == Spec => []TypeOK
<1>1. IInv => TypeOK
  BY DEF IInv, TypeInv
<1>. QED  BY <1>1, InvariantHolds, PTL

\* No queue is forgotten by the bus in silence: a consumer is told to reconnect or holds every
\* update since the last it served.
THEOREM ToldOrCompleteAlways == Spec => []ToldOrComplete
<1>1. IInv => ToldOrComplete
  BY BusImplies DEF IInv
<1>. QED  BY <1>1, InvariantHolds, PTL

\* Between two ticks stored from the broker no minute is missing or open, as long as the gap
\* and the two tolerances together fit a minute.
THEOREM NoHolesAlways == Spec => []NoHoleWhileQuoted
<1>1. IInv => NoHoleWhileQuoted
  BY DEF IInv, FeedInv
<1>. QED  BY <1>1, InvariantHolds, PTL

\* A stored bar of the replay is the fold of the history and the stored ticks of its bucket,
\* whatever was rolled over, seeded in the middle of a bar or rejected in between.
THEOREM BarsAreTheirTicksAlways == Spec => []BarsAreTheirTicks
<1>1. IInv => BarsAreTheirTicks
  <2>. SUFFICES ASSUME IInv, ~authoritative, ~SeededAtTheBoundary, NEW tf \in Timeframes,
                       NEW start \in 0..MaxClock, start % Length[tf] = 0, Known(start, tf) # {}
                PROVE  /\ \E r \in rows[tf] : r.start = start
                       /\ \A r \in rows[tf] : r.start = start => Folds(r.ticks, Known(start, tf))
    BY DEF BarsAreTheirTicks, Folded
  <2>1. /\ worker.seededAt \in Nat /\ worker.heard \in SUBSET Nat /\ start \in Nat
        /\ Length[tf] \in Nat
    <3>1. MaxClock \in Nat
      BY BoundsAssumption
    <3>. QED  BY <3>1, WorkerIs, Lengths DEF IInv
  <2>2. Known(start, tf) = In(start, tf, Seen)
    <3>1. \A s : s \in Known(start, tf) <=> s \in In(start, tf, Seen)
      BY <2>1 DEF Known, In, Seen
    <3>. QED  BY <3>1
  <2>3. PICK s \in Seen : start <= s /\ s < start + Length[tf]
    BY <2>2 DEF In
  <2>4. s \in Nat
    BY <2>1, <2>3, WorkerIs DEF IInv
  <2>5. Bucket(s, tf) = start
    BY <2>1, <2>3, <2>4, BucketUnique
  <2>. QED  BY <2>2, <2>5 DEF IInv, FeedInv, RowsFold, Ticks
<1>. QED  BY <1>1, InvariantHolds, PTL

\* A closed bar is final: a tick that is stored rewrites none.
THEOREM ClosedBarsStay == Spec => ClosedBarsAreFinal
<1>. DEFINE Stays == worker.phase = "storing" /\ ~SeededAtTheBoundary =>
                        \A tf \in Timeframes : \A r \in rows[tf] : r.closed => r \in rows'[tf]
<1>1. IInv /\ [Next]_vars => [Stays]_vars
  <2>. SUFFICES ASSUME IInv, Next, worker.phase = "storing", ~SeededAtTheBoundary,
                       NEW tf \in Timeframes, NEW r \in rows[tf], r.closed
                PROVE  r \in rows'[tf]
    OBVIOUS
  <2>1. CASE StoreTick
    <3>1. CASE \E n \in worker.bars[tf] : n.start = r.start
      <4>1. r \in worker.bars[tf]
        BY <3>1, ClosedStays DEF IInv
      <4>. QED  BY <2>1, <4>1, StoredAt
    <3>2. CASE ~ \E n \in worker.bars[tf] : n.start = r.start
      BY <2>1, <3>2, StoredAt
    <3>. QED  BY <3>1, <3>2
  <2>2. CASE ~StoreTick
    <3>1. ~Initialize
      BY DEF Initialize
    <3>2. UNCHANGED rows
      BY <2>2, <3>1 DEF Next, Feed, IngestTick, RejectTick, Resnapshot, PublishTick, FailWorker,
         Crash, Tick, Connect, Serve, SendStatus, Disconnect, Receive, Authenticate, TakeItem,
         ReadSnapshot, SendSnapshot, SendUpdate, CloseTold, Leave, feedVars
    <3>. QED  BY <3>2
  <2>. QED  BY <2>1, <2>2
<1>. QED  BY <1>1, InvariantHolds, PTL DEF Spec, ClosedBarsAreFinal
================================================================================
