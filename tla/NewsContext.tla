---------------------------- MODULE NewsContext ----------------------------
(***************************************************************************)
(* The point-in-time news context of services/news/engine.py: which        *)
(* vintage of each calendar event is known at a time, the regime around    *)
(* its release, what the release group says of the dollar, how price and   *)
(* structure reacted, and whether a news strategy may act.                 *)
(*                                                                         *)
(* A vintage is [id, revision, available, scheduled, impact, status,       *)
(* actual, forecast, rule, numeric, group, companions, conflict, released, *)
(* relevant]; NoValue stands for an absent number or time.  Seconds are    *)
(* counted in bars, so a pause shorter than a bar does not exist here.     *)
(***************************************************************************)
EXTENDS MarketStructure

CONSTANTS
  PreBars, LockBars,       \* [impacts -> Nat]: before the release
  ReleaseBars, ObserveBars, ConfirmBars, NormalBars,   \* after it, ordered
  ReactionBars,            \* <<n1, n2, ...>>: reaction windows, increasing
  BaselineBars, MinSamples, QuoteAge,                  \* spread baseline
  Directional, Whipsaw     \* price moves that count, in prices

NoValue == -1

\* What news/domain.py admits: windows in order, reaction windows increasing.
NewsConfig ==
  /\ ReleaseBars <= ObserveBars /\ ObserveBars <= ConfirmBars /\ ConfirmBars <= NormalBars
  /\ DOMAIN LockBars = DOMAIN PreBars
  /\ \A impact \in DOMAIN PreBars : 0 <= LockBars[impact] /\ LockBars[impact] <= PreBars[impact]
  /\ \A i \in 1..Len(ReactionBars) :
       ReactionBars[i] > 0 /\ (i > 1 => ReactionBars[i - 1] < ReactionBars[i])

ASSUME NewsAssumption == NewsConfig

\* A vintage the code admits: results come with a release that is neither
\* before the schedule nor after the vintage is available.
EconomicEvent(v) ==
  /\ v.revision >= 1
  /\ v.status \in {"SCHEDULED", "UPCOMING", "RELEASED", "REVISED", "CANCELLED", "DELAYED", "UNKNOWN"}
  /\ v.status \in {"RELEASED", "REVISED"} => v.released # NoValue
  /\ v.released # NoValue => v.scheduled <= v.released /\ v.released <= v.available
  /\ ~v.numeric => v.actual = NoValue /\ v.forecast = NoValue
  /\ v.actual # NoValue =>
       v.released # NoValue /\ v.status \notin {"SCHEDULED", "UPCOMING", "CANCELLED", "DELAYED"}

\* The ask is not below the bid; a quote may be observed late.
ObservedQuote(q) == q.spread >= 0

\* latest_known: of each event the highest revision published by then.
LatestKnown(vintages, at) ==
  LET seen == {v \in vintages : v.available <= at}
  IN {v \in seen : \A w \in seen : w.id = v.id => w.revision <= v.revision}

UsdDirection(v) ==
  LET raw == v.actual - v.forecast
  IN IF v.actual = NoValue \/ v.forecast = NoValue \/ ~v.numeric THEN "UNKNOWN"
     ELSE IF v.rule = "CONTEXT_DEPENDENT" THEN "UNKNOWN"
     ELSE IF raw = 0 THEN "NEUTRAL"
     ELSE IF (raw > 0) = (v.rule = "HIGHER_IS_POSITIVE") THEN "POSITIVE"
     ELSE "NEGATIVE"

GroupComplete(group) ==
  /\ \A v \in group : (v.actual # NoValue /\ v.forecast # NoValue) \/ ~v.numeric
  /\ \A v \in group : v.companions \subseteq {w.id : w \in group}
  /\ \A v \in group : ~v.conflict

GroupBias(group) ==
  LET directions == {UsdDirection(v) : v \in group}
  IN IF {"POSITIVE", "NEGATIVE"} \subseteq directions THEN "CONFLICTING"
     ELSE IF "POSITIVE" \in directions THEN "POSITIVE"
     ELSE IF "NEGATIVE" \in directions THEN "NEGATIVE"
     ELSE IF "NEUTRAL" \in directions THEN "NEUTRAL"
     ELSE "UNKNOWN"

\* The phases of an event around its release.
EventRegime(v, at) ==
  LET since == at - v.scheduled
      delayed == v.status = "DELAYED"
  IN IF v.status = "CANCELLED" \/ v.impact \notin {"HIGH", "MEDIUM"} THEN "NORMAL"
     ELSE IF since >= NormalBars /\ ~delayed THEN "NORMAL"
     ELSE IF since < -PreBars[v.impact] THEN "NORMAL"
     ELSE IF since < -LockBars[v.impact] THEN "PRE_NEWS"
     ELSE IF since < 0 \/ delayed THEN "NEWS_LOCK"
     ELSE IF since < ReleaseBars THEN "RELEASE"
     ELSE IF v.status \notin {"RELEASED", "REVISED"} THEN "NEWS_LOCK"
     ELSE IF since < ObserveBars THEN "POST_NEWS_VOLATILITY"
     ELSE IF since < ConfirmBars THEN "POST_NEWS_CONFIRMATION"
     ELSE "NORMALIZED"

Severity == <<"NORMAL", "NORMALIZED", "POST_NEWS_CONFIRMATION", "PRE_NEWS",
              "POST_NEWS_VOLATILITY", "RELEASE", "NEWS_LOCK">>
SeverityOf(regime) == CHOOSE i \in 1..Len(Severity) : Severity[i] = regime

\* The most severe event, the nearest in time among equals.
ActiveEvents(events, at) ==
  LET risks == {v \in events : EventRegime(v, at) # "NORMAL"}
      before(v, w) ==
        \/ SeverityOf(EventRegime(v, at)) > SeverityOf(EventRegime(w, at))
        \/ /\ EventRegime(v, at) = EventRegime(w, at)
           /\ Distance(v.scheduled, at) <= Distance(w.scheduled, at)
  IN {v \in risks : \A w \in risks : before(v, w)}

\* Do the structure events since the release point where the release did?
StructureStatus(st, from, at, bias) ==
  LET last == LastIn(st.events, {e \in ToSet(st.events) :
                                   from <= e.confirmed /\ e.confirmed <= at})
      expected == IF bias = "POSITIVE" THEN "BEARISH" ELSE "BULLISH"
  IN IF st.bars = <<>> THEN "STRUCTURE_UNAVAILABLE"
     ELSE IF last = Nothing \/ bias \in {"UNKNOWN", "NEUTRAL"} THEN "WAITING"
     ELSE IF bias = "CONFLICTING" THEN "CONFLICTING"
     ELSE IF last.direction = expected THEN "ALIGNED"
     ELSE "CONFLICTING"

Classification(st, from, cutoff, bars, base) ==
  LET after == Last(bars).close
      high == Max({c.high : c \in ToSet(bars)})
      low  == Min({c.low : c \in ToSet(bars)})
      swept == {l \in ToSet(st.levels) :
                  l.status = "SWEPT" /\ from <= l.ended /\ l.ended <= cutoff}
      bos == {e \in ToSet(st.events) :
                e.kind = "BOS" /\ from <= e.confirmed /\ e.confirmed <= cutoff}
  IN IF high - base >= Whipsaw /\ base - low >= Whipsaw THEN "WHIPSAW"
     ELSE IF \E l \in swept : IF l.side = "HIGH" THEN after < base ELSE after > base
            THEN "LIQUIDITY_SWEEP_REVERSAL"
     ELSE IF \E e \in bos : IF e.direction = "BULLISH" THEN after < base ELSE after > base
            THEN "FAILED_BREAKOUT"
     ELSE IF bos # {} THEN "BREAKOUT"
     ELSE IF Distance(after, base) >= Directional THEN "STRONG_DIRECTIONAL"
     ELSE "UNCONFIRMED"

NoReaction == [state |-> "REACTION_UNAVAILABLE", move |-> 0, extent |-> NoValue]

\* The last reaction window wholly covered by closed candles: its class,
\* its move and its range.
Reaction(st, from, at) ==
  LET before == SelectSeq(st.bars, LAMBDA c : End(c) <= from)
      within(n) == SelectSeq(st.bars, LAMBDA c : c.time >= from /\ End(c) <= from + n)
      ready == {n \in ToSet(ReactionBars) :
                  /\ from + n <= at
                  /\ before # <<>> /\ End(Last(before)) = from
                  /\ Len(within(n)) = n}
      n == Max(ready)
      base == Last(before).close
      bars == within(n)
  IN IF ready = {} \/ Len(before) <= AtrBars
       THEN NoReaction
       ELSE [state |-> Classification(st, from, from + n, bars, base),
             move |-> Last(bars).close - base,
             extent |-> Max({c.high : c \in ToSet(bars)}) - Min({c.low : c \in ToSet(bars)})]

---------------------------------------------------------------------------
(* Quotes: the spread now against the average spread before *)

ObservedBy(quotes, at) == {q \in quotes : q.time <= at /\ q.observed <= at}

SpreadState(previous, fresh) ==
  LET total == FoldSet(LAMBDA q, sum : q.spread + sum, 0, previous)
      last == CHOOSE q \in fresh : \A r \in fresh : r.time <= q.time
      current == last.spread * Cardinality(previous)
  IN IF Cardinality(previous) < MinSamples \/ fresh = {} \/ total = 0 THEN "UNAVAILABLE"
     ELSE IF current >= 4 * total THEN "SPREAD_EXTREME"
     ELSE IF current >= 2 * total THEN "SPREAD_ELEVATED"
     ELSE "SPREAD_NORMAL"

ExtentState(extent) ==
  IF extent = NoValue THEN "UNAVAILABLE"
  ELSE IF extent >= 4 * Atr THEN "EXTREME"
  ELSE IF extent >= 2 * Atr THEN "ELEVATED"
  ELSE "NORMAL"

---------------------------------------------------------------------------
(* The context: a record of these fields *)

NewsStrategyContext(vintages) ==
  [state : ToSet(Severity) \cup {"UNKNOWN"},
   release : {"NO_EVENT", "PRE_NEWS", "WAITING_FOR_ACTUAL", "WAITING_FOR_RELEASE", "RELEASED"},
   quality : {"COMPLETE", "PARTIAL", "CONFLICT", "UNAVAILABLE"},
   bias : {"POSITIVE", "NEGATIVE", "NEUTRAL", "CONFLICTING", "UNKNOWN"},
   reaction : {"REACTION_UNAVAILABLE", "STRONG_DIRECTIONAL", "WHIPSAW",
               "LIQUIDITY_SWEEP_REVERSAL", "BREAKOUT", "FAILED_BREAKOUT", "UNCONFIRMED"},
   structure : {"ALIGNED", "CONFLICTING", "WAITING", "STRUCTURE_UNAVAILABLE"},
   spread : {"SPREAD_NORMAL", "SPREAD_ELEVATED", "SPREAD_EXTREME", "UNAVAILABLE"},
   volatility : {"NORMAL", "ELEVATED", "EXTREME", "UNAVAILABLE"},
   restricted : BOOLEAN, released : SUBSET vintages, eligible : SUBSET {"STRAT05", "STRAT06"}]

\* The event that governs the context, if any.
ActiveEvent(known, at) ==
  LET active == ActiveEvents(known, at)
  IN IF active = {} THEN Nothing ELSE CHOOSE v \in active : TRUE

ReactionTo(event, st, at) ==
  IF event = Nothing \/ (event # Nothing /\ event.scheduled > at) THEN NoReaction
  ELSE Reaction(st, event.scheduled, at)

SpreadAround(event, quotes, at) ==
  LET seen == ObservedBy(quotes, at)
  IN IF event = Nothing THEN "UNAVAILABLE"
     ELSE SpreadState({q \in seen : /\ event.scheduled - BaselineBars <= q.time
                                    /\ q.time < event.scheduled},
                      {q \in seen : at - q.time <= QuoteAge})

NewsFrom(event, known, reaction, spread, st, at, calendar) ==
  LET group == {v \in known : v.group = event.group}
      bias == IF event = Nothing THEN "UNKNOWN" ELSE GroupBias(group)
      priceBias == IF event.numeric \/ event.released = NoValue \/ reaction.move = 0 THEN bias
                   ELSE IF reaction.move > 0 THEN "NEGATIVE"
                   ELSE "POSITIVE"
      structure == IF event = Nothing THEN "WAITING"
                   ELSE StructureStatus(st, event.scheduled, at, priceBias)
      state == IF ~calendar THEN "UNKNOWN"
               ELSE IF event = Nothing THEN "NORMAL"
               ELSE EventRegime(event, at)
      release == IF event = Nothing THEN "NO_EVENT"
                 ELSE IF event.scheduled > at THEN "PRE_NEWS"
                 ELSE IF event.numeric /\ event.actual = NoValue THEN "WAITING_FOR_ACTUAL"
                 ELSE IF event.released = NoValue THEN "WAITING_FOR_RELEASE"
                 ELSE "RELEASED"
      quality == IF ~calendar THEN "UNAVAILABLE"
                 ELSE IF \E v \in known : v.conflict THEN "CONFLICT"
                 ELSE IF event # Nothing /\ GroupComplete(group) THEN "COMPLETE"
                 ELSE "PARTIAL"
      volatility == ExtentState(reaction.extent)
      restricted == \/ ~calendar
                    \/ state \in {"NEWS_LOCK", "RELEASE", "POST_NEWS_VOLATILITY"}
                    \/ reaction.state = "WHIPSAW" \/ spread = "SPREAD_EXTREME"
      open == /\ ~restricted /\ release = "RELEASED" /\ quality = "COMPLETE"
              /\ state \in {"POST_NEWS_CONFIRMATION", "NORMALIZED"}
              /\ spread = "SPREAD_NORMAL" /\ volatility # "EXTREME"
              /\ structure = "ALIGNED"
  IN [state |-> state, release |-> release, quality |-> quality, bias |-> bias,
      reaction |-> reaction.state, structure |-> structure, spread |-> spread,
      volatility |-> volatility, restricted |-> restricted,
      released |-> IF event = Nothing THEN {}
                   ELSE {v \in group : /\ v.actual # NoValue \/ ~v.numeric
                                       /\ v.released # NoValue /\ v.released <= at},
      eligible |-> IF ~open THEN {}
                   ELSE IF reaction.state \in {"STRONG_DIRECTIONAL", "BREAKOUT"} THEN {"STRAT05"}
                   ELSE IF reaction.state = "LIQUIDITY_SWEEP_REVERSAL" THEN {"STRAT06"}
                   ELSE {}]

NewsAt(vintages, quotes, st, at, calendar) ==
  LET known == {v \in LatestKnown(vintages, at) : v.relevant /\ v.status # "CANCELLED"}
      event == ActiveEvent(known, at)
  IN NewsFrom(event, known, ReactionTo(event, st, at), SpreadAround(event, quotes, at),
              st, at, calendar)

=============================================================================
