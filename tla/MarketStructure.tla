-------------------------- MODULE MarketStructure --------------------------
(***************************************************************************)
(* The analysis engine of services/analysis/engine.py: a deterministic     *)
(* state machine fed one closed candle at a time.  It keeps confirmed      *)
(* swings, the trend of two scopes, structure events (BOS, CHOCH, MSS),    *)
(* liquidity levels, price zones (FVG, OB and their inversions) and the    *)
(* extrema of day and session windows.                                     *)
(*                                                                         *)
(* A candle is [time, open, high, low, close]; times are bar numbers, and  *)
(* a candle that opens at t closes at t + 1.  Prices are small integers.   *)
(* The identity of a swing, level or zone (a hash of its kind and origin   *)
(* in the code) is the record's fields.  The indicators are abstracted:    *)
(* the average true range is the constant Atr once AtrBars candles closed. *)
(***************************************************************************)
EXTENDS Integers, SequencesExt

CONSTANTS
  Tol,            \* tolerance: tick_size * equal_ticks
  MinGap,         \* the least width of a fair value gap
  Left, Right,    \* [Scopes -> Nat]: candles on each side of a pivot
  ObLookback,     \* candles searched for an order block's origin
  MaxObjects,     \* objects of each sort that are kept
  AtrBars, Atr,   \* candles before the true range is known, and its value
  Windows         \* <<[name, every, from, to], ...>>: days and sessions

Scopes == <<"INTERNAL", "EXTERNAL">>
Sides  == <<<<"INTERNAL", "HIGH">>, <<"INTERNAL", "LOW">>,
            <<"EXTERNAL", "HIGH">>, <<"EXTERNAL", "LOW">>>>
Nothing == [none |-> TRUE]

\* What analysis/domain.py admits as a configuration.
AnalysisConfig ==
  /\ Tol \in Nat /\ MinGap \in Nat \ {0} /\ Atr \in Nat \ {0} /\ AtrBars \in Nat
  /\ ObLookback \in Nat \ {0} /\ MaxObjects \in Nat \ {0}
  /\ \A s \in ToSet(Scopes) : Left[s] \in Nat \ {0} /\ Right[s] \in Nat \ {0}
  /\ Windows \in Seq([name : STRING, every : Nat, from : Nat, to : Nat])
  /\ \A w \in ToSet(Windows) : w.from < w.to /\ w.to <= w.every

ASSUME StructureAssumption == AnalysisConfig

\* Its records.
Direction == {"BULLISH", "BEARISH"}
SwingPoint ==
  [scope : ToSet(Scopes), kind : {"HIGH", "LOW"},
   label : {"SH", "SL", "HH", "HL", "LH", "LL", "EQH", "EQL"},
   price : Int, at : Nat, confirmed : Nat]
StructureEvent ==
  [scope : ToSet(Scopes), kind : {"BOS", "CHOCH", "MSS"}, direction : Direction,
   swing : SwingPoint, at : Nat, confirmed : Nat, displaced : BOOLEAN]
LiquidityLevel ==
  [kind : {"BSL", "SSL", "EQH", "EQL"} \cup {w.name : w \in ToSet(Windows)},
   side : {"HIGH", "LOW"}, price : Int, created : Nat, confirmed : Nat,
   status : {"ACTIVE", "SWEPT", "INVALIDATED"}, sweep : Int, ended : Nat]
Zone ==
  {z \in [kind : {"FVG", "IFVG", "OB", "BREAKER"}, direction : Direction,
          low : Int, high : Int, occurred : Nat, confirmed : Nat, fill : Nat, ended : Nat,
          status : {"OPEN", "PARTIALLY_FILLED", "FILLED", "ACTIVE", "MITIGATED", "INVALIDATED"}] :
     z.low < z.high /\ z.fill <= z.high - z.low}

End(c) == c.time + 1
LastN(s, n) == IF Len(s) > n THEN SubSeq(s, Len(s) - n + 1, Len(s)) ELSE s

\* The elements of s that are in S, in their order, and the last of them.
Only(s, S) ==
  LET kept[n \in 0..Len(s)] ==
        IF n = 0 THEN <<>>
        ELSE IF s[n] \in S THEN Append(kept[n - 1], s[n]) ELSE kept[n - 1]
  IN kept[Len(s)]
LastIn(s, S) ==
  LET is == {i \in 1..Len(s) : s[i] \in S}
  IN IF is = {} THEN Nothing ELSE s[Max(is)]

Opposite(direction) == IF direction = "BULLISH" THEN "BEARISH" ELSE "BULLISH"
Distance(a, b) == IF a > b THEN a - b ELSE b - a

EmptyEngine ==
  [bars   |-> <<>>, swings |-> <<>>, events |-> <<>>, levels |-> <<>>, zones |-> <<>>,
   latest |-> [side \in ToSet(Sides) |-> Nothing],
   broken |-> [side \in ToSet(Sides) |-> Nothing],
   trend  |-> [scope \in ToSet(Scopes) |-> "UNKNOWN"],
   groups |-> [i \in 1..Len(Windows) |-> Nothing]]

\* A strong body that closes in the outer quarter of its range, measured
\* against the range known before this candle.
Displacement(st, c, direction) ==
  /\ Len(st.bars) > AtrBars
  /\ c.high > c.low
  /\ IF direction = "BULLISH"
       THEN c.close - c.open >= Atr /\ 4 * (c.close - c.low) >= 3 * (c.high - c.low)
       ELSE c.open - c.close >= Atr /\ 4 * (c.high - c.close) >= 3 * (c.high - c.low)

---------------------------------------------------------------------------
(* Levels and zones live from their confirmation to the candle that ends them *)

NewLevel(kind, side, price, created, confirmed) ==
  [kind |-> kind, side |-> side, price |-> price, created |-> created,
   confirmed |-> confirmed, status |-> "ACTIVE", ended |-> 0, sweep |-> price]

LevelAfter(level, c) ==
  LET high == level.side = "HIGH"
      crossed == IF high THEN c.high > level.price + Tol ELSE c.low < level.price - Tol
      inside  == IF high THEN c.close <= level.price ELSE c.close >= level.price
      beyond  == IF high THEN c.close > level.price + Tol ELSE c.close < level.price - Tol
  IN IF level.status # "ACTIVE" \/ level.confirmed > c.time THEN level
     ELSE IF crossed /\ inside THEN
            [level EXCEPT !.status = "SWEPT", !.ended = End(c),
                          !.sweep = IF high THEN c.high ELSE c.low]
     ELSE IF beyond THEN [level EXCEPT !.status = "INVALIDATED", !.ended = End(c)]
     ELSE level

NewZone(kind, direction, low, high, occurred, confirmed) ==
  [kind |-> kind, direction |-> direction, low |-> low, high |-> high,
   occurred |-> occurred, confirmed |-> confirmed, fill |-> 0, ended |-> 0,
   status |-> IF kind \in {"FVG", "IFVG"} THEN "OPEN" ELSE "ACTIVE"]

ZoneIsOver(zone) == zone.status \in {"FILLED", "INVALIDATED"}

ClosedThrough(zone, c) ==
  IF zone.direction = "BULLISH" THEN c.close < zone.low - Tol ELSE c.close > zone.high + Tol

\* How deep a candle reaches into a gap; a gap keeps its deepest fill.
Depth(zone, c) ==
  IF zone.direction = "BULLISH" THEN zone.high - c.low ELSE c.high - zone.low

\* Fault: a fill beyond the far side of the gap.
UncappedFill(zone, c) == Max({zone.fill, Depth(zone, c)})
\* Fault: the fill of the last candle replaces a deeper one.
LastFill(zone, c) == Min({zone.high - zone.low, Depth(zone, c)})
Fill(zone, c) == Min({zone.high - zone.low, Max({zone.fill, Depth(zone, c)})})

ZoneAfter(zone, c) ==
  LET fill == Fill(zone, c)
  IN IF ZoneIsOver(zone) \/ zone.confirmed > c.time THEN zone
     ELSE IF ClosedThrough(zone, c) THEN [zone EXCEPT !.status = "INVALIDATED", !.ended = End(c)]
     ELSE IF c.low > zone.high \/ c.high < zone.low THEN zone
     ELSE IF zone.kind \in {"OB", "BREAKER"} THEN [zone EXCEPT !.status = "MITIGATED"]
     ELSE IF fill = zone.high - zone.low THEN
            [zone EXCEPT !.status = "FILLED", !.fill = fill, !.ended = End(c)]
     ELSE [zone EXCEPT !.status = "PARTIALLY_FILLED", !.fill = fill]

\* A gap or an order block that a close goes through comes back reversed.
Inversion(zone, c) ==
  NewZone(IF zone.kind = "FVG" THEN "IFVG" ELSE "BREAKER", Opposite(zone.direction),
          zone.low, zone.high, c.time, End(c))

ZonesAfter(zones, c) ==
  LET fallen == Only(zones, {z \in ToSet(zones) :
                               /\ z.kind \in {"FVG", "OB"} /\ ~ZoneIsOver(z)
                               /\ z.confirmed <= c.time /\ ClosedThrough(z, c)})
  IN [i \in 1..Len(zones) |-> ZoneAfter(zones[i], c)]
     \o [i \in 1..Len(fallen) |-> Inversion(fallen[i], c)]

---------------------------------------------------------------------------
(* A close beyond the latest swing breaks it, once *)

\* The order block of a displaced continuation: the last candle against it.
OrderBlock(st, c, direction) ==
  LET recent == LastN(st.bars, ObLookback)
      origins == {i \in 1..Len(recent) :
                    /\ recent[i].high > recent[i].low
                    /\ IF direction = "BULLISH" THEN recent[i].close < recent[i].open
                                                ELSE recent[i].close > recent[i].open}
  IN IF origins = {} THEN <<>>
     ELSE LET o == recent[Max(origins)] IN
          IF \E z \in ToSet(st.zones) :
               z.kind = "OB" /\ z.direction = direction /\ z.occurred = o.time
            THEN <<>>
            ELSE <<NewZone("OB", direction, o.low, o.high, o.time, End(c))>>

Record(st, kind, side, direction, c, displaced) ==
  [st EXCEPT
     !.events = Append(@, [kind |-> kind, scope |-> side[1], direction |-> direction,
                           swing |-> st.latest[side], at |-> c.time, confirmed |-> End(c),
                           displaced |-> displaced]),
     !.zones = @ \o IF displaced /\ kind \in {"BOS", "MSS"}
                      THEN OrderBlock(st, c, direction) ELSE <<>>]

Crossed(swing, c) ==
  IF swing.kind = "HIGH" THEN c.close > swing.price + Tol ELSE c.close < swing.price - Tol

\* Fault: a swing is broken again by every close beyond it.
AnySwing(st, side) == st.latest[side] # Nothing
Unbroken(st, side) == st.latest[side] \notin {Nothing, st.broken[side]}

BreakSide(st, c, side) ==
  LET scope == side[1]
      direction == IF side[2] = "HIGH" THEN "BULLISH" ELSE "BEARISH"
      old == st.trend[scope]
      displaced == Displacement(st, c, direction)
      marked == [st EXCEPT !.broken[side] = st.latest[side]]
      warned == Record(marked, "CHOCH", side, direction, c, displaced)
  IN IF ~Unbroken(st, side) THEN st
     ELSE IF ~Crossed(st.latest[side], c) THEN st
     ELSE IF old = direction THEN Record(marked, "BOS", side, direction, c, displaced)
     ELSE IF old = Opposite(direction) /\ displaced THEN
            [Record(warned, "MSS", side, direction, c, TRUE) EXCEPT !.trend[scope] = direction]
     ELSE IF old = Opposite(direction) THEN [warned EXCEPT !.trend[scope] = "NEUTRAL"]
     ELSE [marked EXCEPT !.trend[scope] = direction]

\* Each side in turn.
OverSides(st, Do(_, _)) ==
  Do(Do(Do(Do(st, Sides[1]), Sides[2]), Sides[3]), Sides[4])

Breaks(st, c) == OverSides(st, LAMBDA s, side : BreakSide(s, c, side))

---------------------------------------------------------------------------
(* A strict extremum of its window is a swing when the window has closed *)

Label(kind, price, previous) ==
  LET either(high, low) == IF kind = "HIGH" THEN high ELSE low
  IN IF previous = Nothing THEN either("SH", "SL")
     ELSE IF Distance(price, previous.price) <= Tol THEN either("EQH", "EQL")
     ELSE IF price > previous.price THEN either("HH", "HL")
     ELSE either("LH", "LL")

\* An unbroken pair of swings sets the trend of its scope.
TrendOfPair(latest, broken, scope, old) ==
  LET high == latest[<<scope, "HIGH">>]
      low  == latest[<<scope, "LOW">>]
  IN IF high = Nothing \/ low = Nothing THEN old
     ELSE IF high = broken[<<scope, "HIGH">>] \/ low = broken[<<scope, "LOW">>] THEN old
     ELSE IF high.label = "HH" /\ low.label = "HL" THEN "BULLISH"
     ELSE IF high.label = "LH" /\ low.label = "LL" THEN "BEARISH"
     ELSE IF high.label # "SH" /\ low.label # "SL" /\ old = "UNKNOWN" THEN "NEUTRAL"
     ELSE old

AddSwing(st, side, pivot, confirmed) ==
  LET scope == side[1]
      kind  == side[2]
      price == IF kind = "HIGH" THEN pivot.high ELSE pivot.low
      previous == st.latest[side]
      label == Label(kind, price, previous)
      swing == [scope |-> scope, kind |-> kind, label |-> label, price |-> price,
                at |-> pivot.time, confirmed |-> confirmed]
      latest == [st.latest EXCEPT ![side] = swing]
      own   == NewLevel(IF kind = "HIGH" THEN "BSL" ELSE "SSL", kind, price,
                        pivot.time, confirmed)
      equal == NewLevel(label, kind, (price + previous.price) \div 2, previous.at, confirmed)
  IN [st EXCEPT
        !.swings = Append(@, swing),
        !.latest = latest,
        !.levels = @ \o IF scope = "INTERNAL" THEN <<>>
                        ELSE IF label \in {"EQH", "EQL"} THEN <<own, equal>>
                        ELSE <<own>>,
        !.trend[scope] = TrendOfPair(latest, st.broken, scope, @)]

PivotOf(st, scope) == st.bars[Len(st.bars) - Right[scope]]

IsPivot(st, side) ==
  LET width == Left[side[1]] + Right[side[1]] + 1
      pivot == PivotOf(st, side[1])
  IN /\ Len(st.bars) >= width
     /\ \A v \in ToSet(LastN(st.bars, width)) \ {pivot} :
          IF side[2] = "HIGH" THEN pivot.high > v.high ELSE pivot.low < v.low

PivotSide(st, c, side) ==
  IF IsPivot(st, side) THEN AddSwing(st, side, PivotOf(st, side[1]), End(c)) ELSE st

Pivots(st, c) == OverSides(st, LAMBDA s, side : PivotSide(s, c, side))

---------------------------------------------------------------------------
(* Gaps of three adjacent candles, and the extrema of windows *)

Gap(bars) ==
  LET n == Len(bars)
      first == bars[n - 2]
      last  == bars[n]
  IN IF n < 3 THEN <<>>
     ELSE IF End(first) # bars[n - 1].time \/ End(bars[n - 1]) # last.time THEN <<>>
     ELSE IF last.low - first.high >= MinGap THEN
            <<NewZone("FVG", "BULLISH", first.high, last.low, first.time, End(last))>>
     ELSE IF first.low - last.high >= MinGap THEN
            <<NewZone("FVG", "BEARISH", last.high, first.low, first.time, End(last))>>
     ELSE <<>>

Widened(group, c) ==
  [group EXCEPT !.high = Max({@, c.high}), !.low = Min({@, c.low})]

\* A window whose end has passed gives its extrema as levels, if it was
\* observed from its first candle on.
IsOver(group, c) == group # Nothing /\ End(c) >= group.stop

CloseWindow(group, c, name) ==
  LET whole == IF group.start <= c.time /\ End(c) <= group.stop THEN Widened(group, c)
               ELSE group
  IN IF ~IsOver(group, c) \/ (IsOver(group, c) /\ group.first # group.start) THEN <<>>
     ELSE <<NewLevel(name, "HIGH", whole.high, group.start, End(c)),
            NewLevel(name, "LOW", whole.low, group.start, End(c))>>

OpenWindow(group, c, w) ==
  LET start == (c.time \div w.every) * w.every + w.from
      stop  == (c.time \div w.every) * w.every + w.to
  IN IF c.time < start \/ End(c) >= stop THEN group
     ELSE IF group # Nothing THEN Widened(group, c)
     ELSE [start |-> start, stop |-> stop, first |-> c.time, high |-> c.high, low |-> c.low]

Periods(st, c) ==
  [st EXCEPT
     !.groups = [i \in 1..Len(Windows) |->
                   OpenWindow(IF IsOver(@[i], c) THEN Nothing ELSE @[i], c, Windows[i])],
     !.levels = @ \o FlattenSeq([i \in 1..Len(Windows) |->
                                   CloseWindow(st.groups[i], c, Windows[i].name)])]

---------------------------------------------------------------------------
(* One closed candle: what it ends, then what it breaks, then what it confirms *)

Lifecycles(st, c) ==
  [st EXCEPT !.levels = [i \in 1..Len(@) |-> LevelAfter(@[i], c)],
             !.zones  = ZonesAfter(@, c)]

Capped(st) ==
  [st EXCEPT !.swings = LastN(@, MaxObjects), !.events = LastN(@, MaxObjects),
             !.levels = LastN(@, MaxObjects), !.zones = LastN(@, MaxObjects)]

Feed(st, c) ==
  LET broken == Breaks(Lifecycles(st, c), c)
      grown  == Pivots([broken EXCEPT !.bars = Append(@, c)], c)
      gapped == [grown EXCEPT !.zones = @ \o Gap(grown.bars)]
  IN Capped(Periods(gapped, c))

\* engine.feed refuses a candle that does not come after the last one.
Accepts(st, c) == st.bars = <<>> \/ c.time > Last(st.bars).time

Analyze(candles) == FoldLeft(Feed, EmptyEngine, candles)

---------------------------------------------------------------------------
(* What a snapshot adds: the dealing range and the regime *)

RangeOfScope(st, scope) ==
  LET pivots == {s \in ToSet(st.swings) : s.scope = scope}
      last == LastIn(st.swings, pivots)
      previous == LastIn(st.swings, {s \in pivots : s.kind # last.kind})
      low  == IF last.kind = "LOW" THEN last.price ELSE previous.price
      high == IF last.kind = "HIGH" THEN last.price ELSE previous.price
  IN IF last = Nothing \/ (last # Nothing /\ previous = Nothing) THEN Nothing
     ELSE IF previous.at >= last.at \/ high - low <= Tol THEN Nothing
     ELSE [low |-> low, high |-> high, origin |-> previous.at,
           confirmed |-> last.confirmed]

DealingRange(st) ==
  LET external == RangeOfScope(st, "EXTERNAL")
  IN IF external = Nothing THEN RangeOfScope(st, "INTERNAL") ELSE external

\* strong stands for the directional index at its threshold or above, mean
\* for the average price: the volatility extremes are left out.
Regime(st, strong, mean) ==
  LET state == IF st.trend["EXTERNAL"] # "UNKNOWN" THEN st.trend["EXTERNAL"]
               ELSE st.trend["INTERNAL"]
      close == Last(st.bars).close
  IN IF Len(st.bars) <= AtrBars THEN "UNKNOWN"
     ELSE IF /\ st.events # <<>> /\ Last(st.events).kind = "BOS"
             /\ Last(st.events).confirmed = End(Last(st.bars))
            THEN "BREAKOUT"
     ELSE IF state = "BULLISH" /\ strong THEN (IF close < mean THEN "PULLBACK" ELSE "TRENDING_UP")
     ELSE IF state = "BEARISH" /\ strong THEN (IF close > mean THEN "PULLBACK" ELSE "TRENDING_DOWN")
     ELSE IF state # "UNKNOWN" THEN "RANGING"
     ELSE "UNKNOWN"

=============================================================================
