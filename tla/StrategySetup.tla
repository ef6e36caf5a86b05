--------------------------- MODULE StrategySetup ---------------------------
(***************************************************************************)
(* The playbooks of services/strategy: from the market structure, the      *)
(* patterns, the news context and the market's safety at one time to a     *)
(* trade plan, or to none.  A context is [at, st, coarse, strong, mean,    *)
(* spread, extent, news]: st is the engine of the setup and trigger frame, *)
(* coarse the last closed bar [closed, trend] of the frames above it.      *)
(* Scores, wording and identities are left out: only what decides whether  *)
(* there is a plan, and its prices and times, is kept.                     *)
(***************************************************************************)
EXTENDS NewsContext

CONSTANTS
  MinBars,        \* candles a frame must have
  CoarseBars,     \* candles of the trigger frame in one bar of the frames above
  Lookback,       \* event_lookback_bars
  Expiry,         \* expiry_trigger_bars
  StopBuffer,     \* average true range * stop_atr_buffer
  PatternTol      \* average true range * tolerance_atr

\* What strategy/domain.py admits as a configuration.
StrategyConfig ==
  /\ {MinBars, CoarseBars, Expiry} \subseteq Nat \ {0}
  /\ {Lookback, StopBuffer, PatternTol} \subseteq Nat

ASSUME StrategyAssumption == StrategyConfig

NewsStrategies == {"STRAT05", "STRAT06"}
SweepStrategies == {"STRAT01", "STRAT06"}
ZoneStrategies == {"STRAT01", "STRAT02", "STRAT05", "STRAT06"}
Strategies == NewsStrategies \cup ZoneStrategies \cup {"STRAT03", "STRAT04"}

Expected(long) == IF long THEN "BULLISH" ELSE "BEARISH"
Latest(ctx) == Last(ctx.st.bars)

---------------------------------------------------------------------------
(* What a frame offers: confirmed prices and chart patterns *)

\* The middle of the range, rounded away from the target's side, as floor and
\* ceil do.
Middle(range, long) ==
  IF range = Nothing THEN {}
  ELSE {(range.low + range.high + IF long THEN 0 ELSE 1) \div 2}

\* The key levels a target may be taken from.  A swing stays confirmed
\* whatever became of the liquidity at its price.
ConfirmedPrices(st, long) ==
  {s.price : s \in ToSet(st.swings)}
  \cup {l.price : l \in {k \in ToSet(st.levels) : k.status = "ACTIVE"}}
  \cup {z.low : z \in {y \in ToSet(st.zones) : y.status # "INVALIDATED"}}
  \cup Middle(DealingRange(st), long)

\* Alternating internal pivots; of two alike the more extreme one stands.
PatternPivots(st) ==
  LET internal == Only(st.swings, {s \in ToSet(st.swings) : s.scope = "INTERNAL"})
      add(pivots, s) ==
        IF pivots = <<>> \/ (pivots # <<>> /\ Last(pivots).kind # s.kind) THEN Append(pivots, s)
        ELSE IF (s.price > Last(pivots).price) = (s.kind = "HIGH") THEN
               Append(Front(pivots), s)
        ELSE pivots
      pivots[n \in 0..Len(internal)] ==
        IF n = 0 THEN <<>> ELSE add(pivots[n - 1], internal[n])
  IN pivots[Len(internal)]

\* The double, triple and head-and-shoulders shapes that end at each pivot,
\* each with its direction and neckline; triangles, wedges and flags are not
\* modelled, nor the window of pattern_lookback_bars.
Shapes3(p) ==
  IF Distance(p[1].price, p[3].price) > PatternTol THEN {}
  ELSE {[points |-> p, neck |-> p[2].price, long |-> p[1].kind = "LOW"]}

Shapes5(p) ==
  LET top == p[1].kind = "HIGH"
      outer == {p[1].price, p[3].price, p[5].price}
      neck == IF top THEN Min({p[2].price, p[4].price}) ELSE Max({p[2].price, p[4].price})
      triple == Max(outer) - Min(outer) <= PatternTol
      head == IF top THEN p[3].price > Max({p[1].price, p[5].price}) + 2 * PatternTol
                     ELSE p[3].price < Min({p[1].price, p[5].price}) - 2 * PatternTol
      shoulders == Distance(p[1].price, p[5].price) <= PatternTol
  IN IF triple \/ (shoulders /\ head) THEN {[points |-> p, neck |-> neck, long |-> ~top]}
     ELSE {}

\* A shape is confirmed by the first close beyond its neckline after its last
\* pivot is known, and over when a later close goes through its far side.
Pattern(shape, st) ==
  LET prices == {s.price : s \in ToSet(shape.points)}
      detected == Max({s.confirmed : s \in ToSet(shape.points)})
      after == {c \in ToSet(st.bars) : c.time >= detected}
      breaks == {c.time : c \in {d \in after : IF shape.long
                                   THEN d.close > shape.neck + PatternTol
                                   ELSE d.close < shape.neck - PatternTol}}
      confirmed == IF breaks = {} THEN NoValue ELSE Min(breaks) + 1
      fails == {c \in after : /\ confirmed = NoValue \/ c.time >= confirmed
                              /\ IF shape.long THEN c.close < Min(prices) - PatternTol
                                               ELSE c.close > Max(prices) + PatternTol}
  IN [long |-> shape.long, neck |-> shape.neck, low |-> Min(prices), high |-> Max(prices),
      confirmed |-> confirmed, detected |-> detected,
      status |-> IF fails # {} THEN IF confirmed = NoValue THEN "FAILED" ELSE "INVALIDATED"
                 ELSE IF confirmed = NoValue THEN "CANDIDATE"
                 ELSE "CONFIRMED"]

Patterns(st) ==
  LET pivots == PatternPivots(st)
      runs(n) == {SubSeq(pivots, i, i + n - 1) : i \in 1..Len(pivots) - n + 1}
      shapes == (UNION {Shapes3(p) : p \in runs(3)}) \cup (UNION {Shapes5(p) : p \in runs(5)})
      tall(s) == Max({q.price : q \in ToSet(s.points)}) - Min({q.price : q \in ToSet(s.points)})
                   > 4 * PatternTol
      apart(s) == \A i \in 2..Len(s.points) : s.points[i].at - s.points[i - 1].at >= 2
  IN {Pattern(s, st) : s \in {t \in shapes : tall(t) /\ apart(t)}}

---------------------------------------------------------------------------
(* One side of one strategy *)

\* Conditions that forbid the side whatever the structure shows.
Blocked(ctx, strategy, long) ==
  LET news == strategy \in NewsStrategies
      spread == IF news THEN ctx.news.spread ELSE ctx.spread
      extent == IF news THEN ctx.news.volatility ELSE ctx.extent
  IN \/ Len(ctx.st.bars) < MinBars \/ ctx.coarse = Nothing
     \/ ctx.coarse # Nothing /\ ctx.at - ctx.coarse.closed > 2 * CoarseBars
     \/ ctx.coarse # Nothing /\ ctx.coarse.trend = Opposite(Expected(long))
     \/ spread \in {"SPREAD_EXTREME", "SPREAD_ELEVATED", "UNAVAILABLE"}
     \/ extent \in {"EXTREME", "UNAVAILABLE"}
     \/ /\ news
        /\ \/ ctx.news.quality # "COMPLETE" \/ ctx.news.release # "RELEASED"
           \/ strategy \notin ctx.news.eligible \/ ctx.news.restricted
           \/ ctx.news.bias = "CONFLICTING"

\* The last structure event of the direction that is recent enough.
Confirmation(ctx, long) ==
  LastIn(ctx.st.events, {e \in ToSet(ctx.st.events) :
                           ctx.at - Lookback <= e.confirmed /\ e.direction = Expected(long)})

\* The last level swept against the direction, if a candle after it closed
\* back on its side no later than the confirmation.
Sweep(ctx, long) ==
  LastIn(ctx.st.levels, {l \in ToSet(ctx.st.levels) :
                           /\ l.status = "SWEPT" /\ l.side = IF long THEN "LOW" ELSE "HIGH"
                           /\ ctx.at - Lookback <= l.ended})

Reclaimed(ctx, level, event, long) ==
  /\ level # Nothing /\ event # Nothing
  /\ event.confirmed >= level.ended
  /\ \E c \in ToSet(ctx.st.bars) :
       /\ c.time >= level.ended /\ End(c) <= event.confirmed
       /\ IF long THEN c.close > level.price ELSE c.close < level.price

\* The newest live zone of the direction the last candle tested and rejected.
RetestedZone(ctx, strategy, event, long) ==
  LET last == Latest(ctx)
  IN LastIn(ctx.st.zones, {z \in ToSet(ctx.st.zones) :
       /\ z.kind \in {"FVG", "OB"} /\ z.direction = Expected(long)
       /\ ~ZoneIsOver(z) /\ z.confirmed <= last.time
       /\ strategy \in SweepStrategies => event # Nothing /\ z.confirmed >= event.confirmed
       /\ last.low <= z.high /\ last.high >= z.low
       /\ IF long THEN last.close > z.high ELSE last.close < z.low})

Rejects(c, price, long) ==
  /\ c.low <= price + PatternTol /\ c.high >= price - PatternTol
  /\ IF long THEN c.close > price + PatternTol ELSE c.close < price - PatternTol

\* The entry range and the price its stop is anchored to.
ZoneEntry(zone, level, long) ==
  LET edges == IF long THEN {zone.low} ELSE {zone.high}
      prices == IF level = Nothing THEN edges ELSE edges \cup {level.sweep}
  IN IF zone = Nothing THEN Nothing
     ELSE [low |-> zone.low, high |-> zone.high,
           anchor |-> IF long THEN Min(prices) ELSE Max(prices)]

\* The usable pattern detected last.
LatestPattern(ctx, long) ==
  LET usable == {p \in Patterns(ctx.st) :
                   p.status = "CONFIRMED" /\ p.long = long /\ p.confirmed <= Latest(ctx).time}
  IN IF usable = {} THEN Nothing
     ELSE CHOOSE q \in usable : \A r \in usable : r.detected <= q.detected

PatternEntry(ctx, p, event, long) ==
  IF p = Nothing \/ event = Nothing THEN Nothing
  ELSE IF \/ ~event.displaced \/ event.confirmed < p.confirmed
          \/ ~Rejects(Latest(ctx), p.neck, long) THEN Nothing
  ELSE [low |-> p.neck - PatternTol, high |-> p.neck + PatternTol,
        anchor |-> IF long THEN p.low ELSE p.high]

RangeEntry(ctx, range, event, long) ==
  LET bound == IF long THEN range.low ELSE range.high
  IN IF \/ range = Nothing \/ event = Nothing
        \/ Regime(ctx.st, ctx.strong, ctx.mean) # "RANGING" \/ ctx.strong
       THEN Nothing
     ELSE IF event.kind \in {"CHOCH", "MSS"} /\ Rejects(Latest(ctx), bound, long)
       THEN [low |-> bound - PatternTol, high |-> bound + PatternTol, anchor |-> bound]
     ELSE Nothing

Entry(ctx, strategy, event, long) ==
  IF strategy = "STRAT03" THEN PatternEntry(ctx, LatestPattern(ctx, long), event, long)
  ELSE IF strategy = "STRAT04" THEN RangeEntry(ctx, DealingRange(ctx.st), event, long)
  ELSE ZoneEntry(RetestedZone(ctx, strategy, event, long), Sweep(ctx, long), long)

\* A released result whose direction price, structure and spread bear out,
\* with a structure event after the release.
WaitingForNews(ctx, strategy, long, event) ==
  LET released == ctx.news.released
      numeric == \E v \in released : v.numeric
  IN \/ released = {}
     \/ numeric /\ ctx.news.bias # IF long THEN "NEGATIVE" ELSE "POSITIVE"
     \/ ctx.news.reaction \notin IF strategy = "STRAT05" THEN {"STRONG_DIRECTIONAL", "BREAKOUT"}
                                                        ELSE {"LIQUIDITY_SWEEP_REVERSAL"}
     \/ ctx.news.structure # "ALIGNED"
     \/ strategy = "STRAT06" /\ ~ \E v \in released : v.impact = "HIGH"
     \/ \E v \in released : event.confirmed < v.released

\* What the strategy still waits for, an entry aside.
Waiting(ctx, strategy, event, long) ==
  \/ strategy # "STRAT04" /\ ctx.coarse.trend # Expected(long)
  \/ event = Nothing
  \/ ctx.at >= event.confirmed + Expiry
  \/ /\ strategy \in SweepStrategies
     /\ \/ ~Reclaimed(ctx, Sweep(ctx, long), event, long)
        \/ event.kind \notin {"CHOCH", "MSS"}
  \/ /\ strategy = "STRAT02"
     /\ \/ ~ \E e \in ToSet(ctx.st.events) : e.kind = "BOS" /\ e.direction = Expected(long)
        \/ Regime(ctx.st, ctx.strong, ctx.mean)
             \notin {"TRENDING_UP", "TRENDING_DOWN", "PULLBACK"}
  \/ strategy \in NewsStrategies /\ WaitingForNews(ctx, strategy, long, event)

\* The stop lies beyond the anchor, and the nearest confirmed price beyond
\* the entry must be worth the risk; a second one must exist.
StructuralPlan(ctx, entry, event, prices, long) ==
  LET stop == IF long THEN entry.anchor - StopBuffer ELSE entry.anchor + StopBuffer
      worst == IF long THEN entry.high ELSE entry.low
      risk == Distance(worst, stop)
      beyond == {p \in prices : IF long THEN p > entry.high ELSE p < entry.low}
      target == IF long THEN Min(beyond) ELSE Max(beyond)
  IN IF \/ entry = Nothing \/ stop <= 0 \/ (IF long THEN stop >= entry.low ELSE stop <= entry.high)
        \/ Cardinality(beyond) < 2
       THEN Nothing
     ELSE IF 2 * Distance(target, worst) < 3 * risk THEN Nothing
     ELSE [long |-> long, low |-> entry.low, high |-> entry.high, stop |-> stop,
           target |-> target, at |-> ctx.at, expires |-> event.confirmed + Expiry,
           evidence |-> event]

SidePlan(ctx, strategy, event, long) ==
  IF Blocked(ctx, strategy, long) \/ Waiting(ctx, strategy, event, long) THEN Nothing
  ELSE StructuralPlan(ctx, Entry(ctx, strategy, event, long), event,
                      ConfirmedPrices(ctx.st, long), long)

\* Playbook.evaluate: two ready sides are no trade.
OneSide(up, down) ==
  IF up = Nothing THEN down
  ELSE IF down = Nothing THEN up
  ELSE Nothing

Evaluate(ctx, strategy) ==
  OneSide(SidePlan(ctx, strategy, Confirmation(ctx, TRUE), TRUE),
          SidePlan(ctx, strategy, Confirmation(ctx, FALSE), FALSE))

=============================================================================
