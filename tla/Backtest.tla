------------------------------ MODULE Backtest ------------------------------
(***************************************************************************)
(* A backtest run of services/backtesting over the analysis, news and      *)
(* strategy engines: the replay clock advances from one closed primary     *)
(* candle to the next, rebuilds what was visible then and records what the *)
(* strategy decides (replay.py); each plan is put before the risk policy   *)
(* on a fixed baseline account (risk_replay.py); and the plans are filled  *)
(* and closed one after the other against the candles (simulation.py).     *)
(*                                                                         *)
(* The environment chooses a data set and then the candles, one by one, so *)
(* that every state is a run cut off at the last candle's close (stop_at). *)
(* The data set is known as a whole from the start: bars of the frames     *)
(* above, calendar vintages and quotes that lie in the future of the clock *)
(* are in it, as they are in the files a run reads.                        *)
(***************************************************************************)
EXTENDS RunAdmission, PureRisk

CONSTANTS
  DataSets,       \* see RunAdmission; with them the history that warms a run
                  \* up, the shapes its later candles may have, and strong,
                  \* whether the trends above count as strong
  RiskBudget, MinVolume, MaxVolume,      \* money at risk of one plan, its size
  Spread, Slippage, Commission,          \* costs, per unit
  InitialBalance

\* What domain.py of backtesting and of risk admit of these.
CostsAndSizes ==
  /\ {RiskBudget, MinVolume, MaxVolume, InitialBalance} \subseteq Nat \ {0}
  /\ {Spread, Slippage, Commission} \subseteq Nat

ASSUME CostsAssumption == CostsAndSizes
ASSUME DataSetsAssumption == \A d \in DataSets : DataSet(d)

VARIABLES
  data,           \* the data set of the run
  engine,         \* the analysis of the candles closed so far
  journal         \* the replay's strategy events, in order

vars == <<data, engine, journal>>

candles == engine.bars
Now == IF candles = <<>> THEN 0 ELSE End(Last(candles))

---------------------------------------------------------------------------
(* replay.py *)

\* Fault: the bar still open is visible as it will close.
OpenCoarse(d, at) ==
  LET n == at \div CoarseBars + 1
  IN [closed |-> n * CoarseBars, trend |-> d.coarse[n]]
\* A bar of the frames above is visible once it has closed.
VisibleCoarse(d, at) ==
  LET n == at \div CoarseBars
  IN IF n = 0 THEN Nothing ELSE [closed |-> n * CoarseBars, trend |-> d.coarse[n]]

SafetySpread(quotes, at) ==
  LET seen == ObservedBy(quotes, at)
  IN SpreadState({q \in seen : /\ at - QuoteAge - BaselineBars <= q.time
                               /\ q.time < at - QuoteAge},
                 {q \in seen : at - QuoteAge <= q.time})

Context(d, st, at) ==
  [at |-> at, st |-> st, coarse |-> VisibleCoarse(d, at), strong |-> d.strong,
   mean |-> FoldSeq(LAMBDA c, sum : c.close + sum, 0, st.bars) \div Len(st.bars),
   spread |-> SafetySpread(d.quotes, at),
   extent |-> ExtentState(IF Len(st.bars) <= AtrBars THEN NoValue
                          ELSE Last(st.bars).high - Last(st.bars).low),
   news |-> NewsAt(d.vintages, d.quotes, st, at, d.calendar)]

---------------------------------------------------------------------------
(* risk_replay.py and the pure risk policy *)

\* The last quote that had both happened and been observed.
QuoteAt(quotes, at) ==
  LET seen == ObservedBy(quotes, at)
  IN IF seen = {} THEN Nothing ELSE CHOOSE q \in seen : \A r \in seen : r.time <= q.time

\* What is known of the calendar, cancelled releases included.
RiskNewsAt(d, at) ==
  IF d.newsRisk THEN [available |-> TRUE, events |-> LatestKnown(d.vintages, at)]
  ELSE [available |-> FALSE, events |-> {}]

\* The account every plan of a run is put before: untouched, and the initial
\* balance in it.
Baseline(at) ==
  [at |-> at, equity |-> InitialBalance, peak |-> InitialBalance, daily |-> 0, weekly |-> 0,
   losses |-> 0, lastLoss |-> 0, cooldown |-> 0, openRisk |-> 0]

BuildInput(d, at) ==
  LET quote == QuoteAt(d.quotes, at)
  IN [at |-> at, newsRisk |-> d.newsRisk, news |-> RiskNewsAt(d, at),
      quote |-> IF quote = Nothing THEN [available |-> FALSE]
                ELSE [available |-> TRUE, time |-> quote.time, spread |-> quote.spread],
      account |-> Baseline(at), spec |-> at]

RiskBlocked(input, plan) == BlockedCodes(input) # {} \/ plan.expires <= input.at

\* sizing.py: from the worst entry to the stop, rounded down to a whole step;
\* too little is no trade.
PositionSize(budget, plan) ==
  LET distance == IF plan.long THEN plan.high - plan.stop ELSE plan.stop - plan.low
      volume == budget \div distance
      outside == IF plan.long THEN plan.stop < plan.low ELSE plan.stop > plan.high
  IN IF ~outside \/ plan.low > plan.high \/ Min({budget, plan.low, plan.stop}) <= 0 THEN 0
     ELSE IF volume < MinVolume THEN 0 ELSE Min({volume, MaxVolume})

Size(input, plan) == PositionSize(TargetRisk(NewsState(input), RiskBudget), plan)

Verdict(input, plan) == IF RiskBlocked(input, plan) THEN 0 ELSE Size(input, plan)

Approved(d, plan, at) == Verdict(BuildInput(d, at), plan)

---------------------------------------------------------------------------
(* simulation.py *)

Touches(c, plan) == c.low <= plan.high /\ c.high >= plan.low
HitsStop(c, plan) == IF plan.long THEN c.low <= plan.stop ELSE c.high >= plan.stop
HitsTarget(c, plan) == IF plan.long THEN c.high >= plan.target ELSE c.low <= plan.target
Worse(price, by, long) == IF long THEN price - by ELSE price + by

\* The candles that may fill the plan, and those that may end the trade.
Fills(plan, cs) ==
  {i \in 1..Len(cs) : /\ cs[i].time >= plan.at /\ cs[i].time < plan.expires
                      /\ Touches(cs[i], plan)}
\* Fault: the candle that fills the plan may end the trade.
ExitsAtOnce(plan, cs, fill) ==
  {i \in fill..Len(cs) : HitsStop(cs[i], plan) \/ HitsTarget(cs[i], plan)}
Exits(plan, cs, fill) ==
  {i \in fill + 1..Len(cs) : HitsStop(cs[i], plan) \/ HitsTarget(cs[i], plan)}

\* The stop is taken first, at the open if the candle opened beyond it.
ExitPrice(plan, c) ==
  LET gapped == IF plan.long THEN c.open < plan.stop ELSE c.open > plan.stop
  IN IF HitsStop(c, plan) THEN Worse(IF gapped THEN c.open ELSE plan.stop, Slippage, plan.long)
     ELSE plan.target

Ending(exits, cs) == IF exits = {} THEN Len(cs) ELSE Min(exits)

\* A trade filled at one candle, given the candles that may end it.
Trade(event, size, fill, exits, cs) ==
  LET plan == event.plan
      i == Ending(exits, cs)
      price == IF exits = {} THEN Worse(cs[i].close, Slippage, plan.long)
               ELSE ExitPrice(plan, cs[i])
      entry == Worse(IF plan.long THEN plan.high ELSE plan.low, -(Spread + Slippage), plan.long)
      gain == IF plan.long THEN price - entry ELSE entry - price
  IN [planned |-> event.at, status |-> "FILLED_CLOSED",
      reason |-> IF exits = {} THEN "END_OF_RUN"
                 ELSE IF HitsStop(cs[i], plan) THEN "STOP_LOSS"
                 ELSE "TAKE_PROFIT",
      enters |-> cs[fill].time, exits |-> End(cs[i]), price |-> price,
      net |-> gain * size - 2 * Commission * size]

\* The records of simulation_domain.py.
SimulatedTrade ==
  [planned : Nat,
   status : {"NO_PLAN", "RISK_BLOCKED", "NOT_FILLED_CONCURRENT", "EXPIRED_UNFILLED"}]
  \cup [planned : Nat, status : {"FILLED_CLOSED"},
        reason : {"STOP_LOSS", "TAKE_PROFIT", "END_OF_RUN"},
        enters : Nat, exits : Nat, price : Int, net : Int]
SimulationResult ==
  [trades : Seq(SimulatedTrade), openUntil : Nat, balance : Int, peak : Int,
   drawdowns : Seq(Nat)]

Unfilled(event, status) == [planned |-> event.at, status |-> status]

WithTrade(run, trade) ==
  [trades |-> Append(run.trades, trade), openUntil |-> trade.exits,
   balance |-> run.balance + trade.net,
   peak |-> Max({run.peak, run.balance + trade.net}),
   drawdowns |-> Append(run.drawdowns, Max({run.peak - run.balance - trade.net, 0}))]

\* One event of the journal: at most one position at a time.
Settle(run, event, size, fills, cs) ==
  LET fill == Min(fills)
      with(t) == [run EXCEPT !.trades = Append(@, t)]
  IN IF event.plan = Nothing THEN with(Unfilled(event, "NO_PLAN"))
     ELSE IF size = 0 THEN with(Unfilled(event, "RISK_BLOCKED"))
     ELSE IF event.at < run.openUntil THEN with(Unfilled(event, "NOT_FILLED_CONCURRENT"))
     ELSE IF fills = {} THEN with(Unfilled(event, "EXPIRED_UNFILLED"))
     ELSE WithTrade(run, Trade(event, size, fill, Exits(event.plan, cs, fill), cs))

NoTrades == [trades |-> <<>>, openUntil |-> 0, balance |-> InitialBalance,
             peak |-> InitialBalance, drawdowns |-> <<>>]

Simulate(d, events, cs) ==
  LET run[n \in 0..Len(events)] ==
        IF n = 0 THEN NoTrades
        ELSE LET event == events[n]
             IN Settle(run[n - 1], event, Approved(d, event.plan, event.at),
                       Fills(event.plan, cs), cs)
  IN run[Len(events)]

---------------------------------------------------------------------------
(* metrics.py *)

Closed(trades) == Only(trades, {t \in ToSet(trades) : t.status = "FILLED_CLOSED"})
Net(trades) ==
  LET sum[n \in 0..Len(trades)] == IF n = 0 THEN 0 ELSE sum[n - 1] + trades[n].net
  IN sum[Len(trades)]

\* The longest run of trades that all win, or all lose.
Streak(trades, sign) ==
  LET streak[n \in 0..Len(trades)] ==
        IF n = 0 THEN [now |-> 0, best |-> 0]
        ELSE LET before == streak[n - 1]
                 now == IF trades[n].net * sign > 0 THEN before.now + 1 ELSE 0
             IN [now |-> now, best |-> Max({before.best, now})]
  IN streak[Len(trades)].best

Metrics(run) ==
  LET closed == Closed(run.trades)
      wins == Only(closed, {t \in ToSet(closed) : t.net > 0})
      losses == Only(closed, {t \in ToSet(closed) : t.net < 0})
  IN [total |-> Len(closed), wins |-> Len(wins), losses |-> Len(losses),
      breakeven |-> Len(Only(closed, {t \in ToSet(closed) : t.net = 0})),
      profit |-> Net(wins), loss |-> -Net(losses), net |-> Net(closed),
      drawdown |-> Max(ToSet(run.drawdowns) \cup {0}),
      winning |-> Streak(closed, 1), losing |-> Streak(closed, -1)]

---------------------------------------------------------------------------
(* The run *)

Init ==
  /\ data \in {d \in DataSets : Admitted(d)}
  /\ engine = EmptyEngine
  /\ journal = <<>>

\* Where the replay ends, with no candle left after it.
Cutoff(d) == Min({d.manifest.end, d.manifest.coverage.usable.end})

\* The next time the market is open.
NextTime == Min({t \in Now..Now + Cardinality(data.closed) : t \notin data.closed})

\* What the strategy decides when the engine has seen the candles up to at.
Decision(d, st, at) == Evaluate(Context(d, st, at), d.manifest.strategy)

\* One tick of the replay clock: a primary candle closes, no later than the cutoff.
Close(shape) ==
  /\ NextTime < Cutoff(data)
  /\ engine' = Feed(engine, [time |-> NextTime, open |-> shape.open, high |-> shape.high,
                             low |-> shape.low, close |-> shape.close])
  /\ journal' = IF Now' < data.manifest.start THEN journal
                ELSE Append(journal, [at |-> Now', plan |-> Decision(data, engine', Now')])
  /\ UNCHANGED data

\* Before the reported range the candles are those of the data set.
WarmUp ==
  /\ Len(candles) < Len(data.history)
  /\ Close(data.history[Len(candles) + 1])

Replay ==
  /\ Len(candles) >= Len(data.history)
  /\ Len(candles) < data.length
  /\ \E shape \in data.next : Close(shape)

Next == WarmUp \/ Replay

Spec == Init /\ [][Next]_vars

---------------------------------------------------------------------------
(* Properties *)

\* strategy/domain.py: a positive entry and stop, the stop outside the whole
\* entry, the target beyond it, and a life that is not over.
TradePlanSuggestion ==
  {p \in [long : BOOLEAN, low : Int, high : Int, stop : Int, target : Int, at : Nat,
          expires : Nat, evidence : StructureEvent] :
     /\ 0 < p.low /\ p.low <= p.high /\ 0 < p.stop /\ p.at < p.expires
     /\ IF p.long THEN p.stop < p.low /\ p.high < p.target
                  ELSE p.stop > p.high /\ p.low > p.target /\ p.target > 0}

\* An event of the replay: its time is its context's and its plan's.
ReplayStrategyEvent ==
  {e \in [at : Nat, plan : TradePlanSuggestion \cup {Nothing}] :
     e.plan # Nothing => e.plan.at = e.at}

\* The shape of the state.  A zone is never filled beyond its height, a plan
\* never has its stop inside its entry, of the candles the manifest answers for
\* only those of scheduled closures are missing, and the events are in the
\* order of the clock, one a tick.
TypeOK ==
  /\ data \in DataSets
  /\ \A i \in 1..Len(candles) - 1 :
       \A t \in (End(candles[i])..candles[i + 1].time - 1)
                 \cap Governed(data.manifest.coverage, "PRIMARY") :
         \E g \in data.manifest.coverage.gaps :
           g.frame = "PRIMARY" /\ g.expected /\ g.from <= t /\ t < g.to
  /\ engine.trend \in [ToSet(Scopes) -> Direction \cup {"UNKNOWN", "NEUTRAL"}]
  /\ engine.swings \in Seq(SwingPoint) /\ engine.events \in Seq(StructureEvent)
  /\ engine.levels \in Seq(LiquidityLevel) /\ engine.zones \in Seq(Zone)
  /\ NewsAt(data.vintages, data.quotes, engine, Now, data.calendar)
       \in NewsStrategyContext(data.vintages)
  /\ journal \in Seq(ReplayStrategyEvent)
  /\ \A i \in 1..Len(journal) :
       journal[i].at <= Now /\ (i > 1 => journal[i - 1].at < journal[i].at)
  /\ PureRiskEvaluationInput(BuildInput(data, Now))
  /\ Simulate(data, journal, candles) \in SimulationResult

CandleAt(time) == CHOOSE c \in ToSet(candles) : c.time = time

\* What has come since an event: a newer swing of its kind, or a close beyond
\* the last swing of the other kind to be broken.
Turned(latest, broken, cs, e) ==
  LET other == broken[<<e.scope, IF e.swing.kind = "HIGH" THEN "LOW" ELSE "HIGH">>]
  IN \/ latest[<<e.scope, e.swing.kind>>].confirmed >= e.confirmed
     \/ /\ other # Nothing
        /\ \E c \in cs : /\ c.time >= e.confirmed /\ other.confirmed <= c.time
                         /\ Crossed(other, c)

\* Structure is earned by closed candles (engine.py _breaks, _swing).  Every
\* event is a close beyond a swing that was confirmed when its candle opened,
\* no swing yields two breaks, no candle breaks both sides of a scope, an MSS
\* comes right after its CHOCH (unless that was the oldest event kept), and a
\* scope does not trend against its last event before a newer swing or a newer
\* close beyond a swing of the other side.
StructureIsEarned ==
  LET events == engine.events
      kept == ToSet(events)
  IN /\ \A e \in kept : /\ e.swing.confirmed <= e.at /\ Crossed(e.swing, CandleAt(e.at))
                        /\ e.direction = "BULLISH" <=> e.swing.kind = "HIGH"
     /\ \A e, f \in kept : e.swing = f.swing => e.at = f.at
     /\ \A e, f \in kept : e.scope = f.scope /\ e.at = f.at => e.direction = f.direction
     /\ \A i \in 1..Len(events) : events[i].kind = "MSS" =>
          /\ events[i].displaced
          /\ IF i = 1 THEN Len(events) >= MaxObjects
             ELSE events[i - 1].kind = "CHOCH" /\ events[i - 1].swing = events[i].swing
     /\ \A scope \in ToSet(Scopes) :
          LET last == LastIn(events, {e \in kept : e.scope = scope})
          IN last # Nothing /\ engine.trend[scope] = Opposite(last.direction)
               => Turned(engine.latest, engine.broken, ToSet(candles), last)

\* The earliest of some candles, and those that opened when something was known.
FirstOf(cs) == CHOOSE c \in cs : \A d \in cs : c.time <= d.time
Since(object, cs) == {c \in cs : c.time >= object.confirmed}

\* What the candles say of a level, and of a zone.
Through(l, c) == IF l.side = "HIGH" THEN c.close > l.price + Tol ELSE c.close < l.price - Tol
Wick(l, c) ==
  IF l.side = "HIGH" THEN c.high > l.price + Tol /\ c.close <= l.price
                     ELSE c.low < l.price - Tol /\ c.close >= l.price
LevelFate(l, cs) ==
  LET deciding == {c \in Since(l, cs) : Through(l, c) \/ Wick(l, c)}
      first == FirstOf(deciding)
  IN IF deciding = {} THEN l.status = "ACTIVE"
     ELSE /\ l.ended = End(first)
          /\ l.status = IF Through(l, first) THEN "INVALIDATED" ELSE "SWEPT"

IsGap(z) == z.kind \in {"FVG", "IFVG"}
Passes(z, c) ==
  IsGap(z) /\ IF z.direction = "BULLISH" THEN c.low <= z.low /\ c.high >= z.low
                                        ELSE c.high >= z.high /\ c.low <= z.high
ZoneFate(z, cs) ==
  LET deciding == {c \in Since(z, cs) : ClosedThrough(z, c) \/ Passes(z, c)}
      first == FirstOf(deciding)
      touching == {c \in Since(z, cs) : c.low <= z.high /\ c.high >= z.low}
      depths == {IF z.direction = "BULLISH" THEN z.high - c.low ELSE c.high - z.low : c \in touching}
  IN IF deciding = {}
       THEN /\ IsGap(z) => z.fill = Max(depths \cup {0})
            /\ z.status = IF touching = {} THEN IF IsGap(z) THEN "OPEN" ELSE "ACTIVE"
                          ELSE IF IsGap(z) THEN "PARTIALLY_FILLED" ELSE "MITIGATED"
       ELSE /\ z.ended = End(first)
            /\ z.status = IF ClosedThrough(z, first) THEN "INVALIDATED" ELSE "FILLED"

\* The fate of a level or a zone is what the candles since its confirmation
\* say: the first that decides it ends it, for good, and until then a gap is
\* filled as deep as price has gone into it (_liquidity, _zones;
\* docs/08: SWEPT and INVALIDATED are terminal).
FatesMatchHistory ==
  /\ \A l \in ToSet(engine.levels) : LevelFate(l, ToSet(candles))
  /\ \A z \in ToSet(engine.zones) : ZoneFate(z, ToSet(candles))

\* The data set with everything the clock had not yet made visible altered.
WithoutTheFuture(d, at) ==
  [d EXCEPT !.coarse = [n \in 1..Len(@) |-> IF n * CoarseBars <= at THEN @[n] ELSE "UNKNOWN"],
            !.vintages = {v \in @ : v.available <= at},
            !.quotes = {q \in @ : q.time <= at /\ q.observed <= at}]

\* A decision and its risk verdict would have been the same had the bars that
\* were still open, the vintages still unpublished and the quotes still
\* unobserved been any other (replay.py: "the causal prefix visible at its UTC
\* close"; risk_replay.py _news_at, _quote_at).
DecidesOnWhatWasKnown ==
  journal # <<>> =>
    LET e == Last(journal)
        blind == WithoutTheFuture(data, e.at)
    IN /\ e.plan = Decision(blind, engine, e.at)
       /\ e.plan # Nothing =>
            Approved(data, e.plan, e.at) = Approved(blind, e.plan, e.at)

\* The report agrees with the account: profits less losses are what the balance
\* gained, the drawdown is the deepest fall from any earlier balance, and a
\* streak of wins is a longest run of consecutive winners.
BooksAddUp(run, m, closed) ==
  LET balance(n) == InitialBalance + Net(SubSeq(closed, 1, n))
      won(i, j) == \A k \in i..j : closed[k].net > 0
  IN /\ run.balance = InitialBalance + m.net
     /\ m.net = m.profit - m.loss /\ m.total = m.wins + m.losses + m.breakeven
     /\ m.drawdown = Max({balance(p[1]) - balance(p[2]) : p \in
                            {q \in (0..m.total) \X (0..m.total) : q[1] <= q[2]}})
     /\ m.winning = Max({0} \cup {p[2] - p[1] + 1 : p \in
                            {q \in (1..m.total) \X (1..m.total) : q[1] <= q[2] /\ won(q[1], q[2])}})

\* One filled trade, judged by the candles.
Honest(t, plan, size, ending) ==
  LET worst == IF plan.long THEN plan.high ELSE plan.low
  IN /\ size > 0 /\ t.planned <= t.enters /\ t.enters < plan.expires
     /\ t.enters < t.exits \/ t.reason = "END_OF_RUN"
     /\ \A c \in ToSet(candles) :
          /\ c.time >= t.planned /\ Touches(c, plan) => c.time >= t.enters
          /\ c.time > t.enters /\ (HitsStop(c, plan) \/ HitsTarget(c, plan))
               => t.reason # "END_OF_RUN" /\ End(c) >= t.exits
     /\ t.reason = "STOP_LOSS" =>
          HitsStop(ending, plan) /\ t.net <= -(size * Distance(worst, plan.stop))
     /\ t.reason = "TAKE_PROFIT" =>
          /\ HitsTarget(ending, plan) /\ ~HitsStop(ending, plan)
          /\ ending.time > t.enters
          /\ t.net <= size * Distance(worst, plan.target)

Executable(run) ==
  LET trades == run.trades
      filled == {i \in 1..Len(trades) : trades[i].status = "FILLED_CLOSED"}
  IN /\ \A i \in filled : Honest(trades[i], journal[i].plan,
                                 Approved(data, journal[i].plan, journal[i].at),
                                 CandleAt(trades[i].exits - 1))
     /\ \A i, j \in filled : j < i => trades[j].exits <= trades[i].planned
     /\ BooksAddUp(run, Metrics(run), Closed(trades))

\* What the simulation claims could have been traded: a fill on the first
\* candle that reaches the entry while the plan lives, no other position open
\* since the plan was made, an exit on the first later candle that reaches the
\* stop or the target, a stop that costs at least the risk taken and a target
\* that pays no more than its distance, and books that add up.
TradesAreExecutable == Executable(Simulate(data, journal, candles))

Settled(trade) ==
  \/ trade.status \in {"NO_PLAN", "RISK_BLOCKED", "NOT_FILLED_CONCURRENT"}
  \/ trade.status = "FILLED_CLOSED" /\ trade.reason # "END_OF_RUN"

RevisesOnlyPending(before, after) ==
  \A i \in 1..Len(before) : Settled(before[i]) /\ after[i] # before[i] =>
    \E j \in 1..i - 1 :
      before[j].status = "EXPIRED_UNFILLED" /\ after[j].status = "FILLED_CLOSED"

\* A tick changes a settled trade only when a plan that was still waiting for its price
\* has been filled before it: this is how far PrefixInvariance is from holding.
OnlyPendingPlansRevise ==
  [][RevisesOnlyPending(Simulate(data, journal, candles).trades,
                        Simulate(data, journal', candles').trades)]_vars

(* What the repository says and the code does not do *)

\* docs/CURRENT_BATCH.md: an outcome is visible only after its time, and the future cannot
\* change the result of a prefix.  A trade that was over when a run was cut off is the same
\* trade when the run goes on: its candles had all closed.
PrefixInvariance ==
  [][\A i \in 1..Len(journal) :
       LET trade == Simulate(data, journal, candles).trades[i]
       IN trade.status = "FILLED_CLOSED" /\ trade.reason # "END_OF_RUN"
            => Simulate(data, journal', candles').trades[i] = trade]_vars

=============================================================================
