---------------------------- MODULE RunAdmission ----------------------------
(***************************************************************************)
(* What services/backtesting admits to a run: the manifest with its        *)
(* coverage evidence (domain.py), and the candles, quotes and vintages     *)
(* that must match it (replay.py, risk_replay.py).  A data set is          *)
(*   manifest : [strategy, start, end, coverage, provenance],              *)
(*   closed   : times without a primary candle, length : number of them,   *)
(*   coarse   : the bars of the frames above, one trend each,              *)
(*   vintages, quotes, calendar, newsRisk,                                 *)
(* and what a run then does with it, see Backtest.  Fingerprints, which    *)
(* tie these records to one another, are left out: the records are one.    *)
(***************************************************************************)
EXTENDS StrategySetup

CONSTANT MaxPeriod      \* MAX_REQUESTED_PERIOD_DAYS

Frames == {"PRIMARY", "COARSE"}
Bar(frame) == IF frame = "PRIMARY" THEN 1 ELSE CoarseBars

---------------------------------------------------------------------------
(* The types of its parts: market_data/domain.py, news/domain.py.  Times count *)
(* from the start of the warm-up.                                              *)

\* Candle: positive prices, the high and the low around them.
Price == Nat \ {0}
CandleShape ==
  {k \in [open : Price, high : Price, low : Price, close : Price] :
     /\ k.low <= k.open /\ k.low <= k.close
     /\ k.open <= k.high /\ k.close <= k.high}

DataSet(d) ==
  LET m == d.manifest
  IN /\ d = [manifest |-> m, closed |-> d.closed, length |-> d.length, coarse |-> d.coarse,
             vintages |-> d.vintages, quotes |-> d.quotes, calendar |-> d.calendar,
             newsRisk |-> d.newsRisk, history |-> d.history, next |-> d.next,
             strong |-> d.strong]
     /\ d.length \in Nat /\ d.closed \in SUBSET Nat /\ IsFiniteSet(d.closed)
     /\ d.history \in Seq(CandleShape) /\ d.next \in SUBSET CandleShape
     /\ d.coarse \in Seq(Direction \cup {"NEUTRAL", "UNKNOWN"})
     /\ \A v \in d.vintages : v.scheduled \in Int /\ v.available \in Int
     /\ \A q \in d.quotes : q.time \in Int /\ q.observed \in Int /\ q.spread \in Int
     /\ {d.calendar, d.newsRisk, d.strong} \subseteq BOOLEAN
     /\ {m.start, m.end, m.coverage.usable.end} \subseteq Nat /\ m.coverage.warmup = 0
     /\ \A frame \in DOMAIN m.coverage.frames :
          {m.coverage.frames[frame].start, m.coverage.frames[frame].end} \subseteq Nat
     /\ \A g \in m.coverage.gaps : {g.from, g.to} \subseteq Nat

---------------------------------------------------------------------------
(* domain.py *)

BacktestRunConfig(m) == m.start < m.end /\ m.end - m.start <= MaxPeriod

CoverageGap(g) ==
  /\ g.from < g.to
  /\ g.expected => g.code = "SCHEDULED_MARKET_CLOSURE"

TimeframeCoverage(f) ==
  f.start < f.end /\ f.requested \in Nat /\ f.available \in Nat

\* News vintages are a range of the times they were published at, or none.
NewsVintageCoverage(n) == n.available => n.from < n.to
VintagesCover(n, start, end) == n.available /\ n.from <= start /\ n.to >= end

\* What keeps a coverage from being sufficient.
Shortfall(c) ==
  \/ \E frame \in DOMAIN c.frames : c.frames[frame].available < c.frames[frame].requested
  \/ \E g \in c.gaps : ~g.expected
  \/ c.news.required /\ ~c.news.available

DataCoverage(c) ==
  /\ c.warmup <= c.usable.start /\ c.usable.start <= c.requested.start
  /\ c.requested.start < c.usable.end /\ c.usable.end <= c.requested.end
  /\ "PRIMARY" \in DOMAIN c.frames
  /\ c.inputs >= MapThenSumSet(LAMBDA frame : c.frames[frame].available, DOMAIN c.frames)
  /\ \A frame \in DOMAIN c.frames :
       /\ TimeframeCoverage(c.frames[frame])
       /\ c.frames[frame].start <= c.usable.start /\ c.usable.end <= c.frames[frame].end
  /\ \A g \in c.gaps : /\ CoverageGap(g) /\ g.frame \in DOMAIN c.frames
                       /\ c.warmup <= g.from /\ g.to <= c.requested.end
  /\ NewsVintageCoverage(c.news)
  /\ c.news.required /\ c.news.available
       => VintagesCover(c.news, c.requested.start, c.requested.end)
  /\ c.sufficient => ~Shortfall(c)

BacktestProvenance(p) ==
  /\ p.requested.start < p.requested.end /\ p.usable.start < p.usable.end
  /\ p.frames # {}

\* Its parts agree with one another.
BacktestRunManifest(m) ==
  /\ BacktestRunConfig(m) /\ DataCoverage(m.coverage) /\ BacktestProvenance(m.provenance)
  /\ m.provenance = [strategy |-> m.strategy, frames |-> DOMAIN m.coverage.frames,
                     requested |-> m.coverage.requested, usable |-> m.coverage.usable]
  /\ m.coverage.sufficient
  /\ m.coverage.requested = [start |-> m.start, end |-> m.end]
  /\ m.strategy \in NewsStrategies =>
       m.coverage.news.required /\ VintagesCover(m.coverage.news, m.start, m.end)

---------------------------------------------------------------------------
(* replay.py, risk_replay.py *)

\* The open times of the candles of a frame.
Opens(d, frame) ==
  IF frame = "PRIMARY" THEN (0..d.length + Cardinality(d.closed) - 1) \ d.closed
  ELSE {CoarseBars * n : n \in 0..Len(d.coarse) - 1}

\* As many candles as the manifest counts, over the range it states.
ValidCandles(d) ==
  LET c == d.manifest.coverage
  IN /\ DOMAIN c.frames = Frames
     /\ c.inputs = MapThenSumSet(LAMBDA frame : Cardinality(Opens(d, frame)), Frames)
     /\ \A frame \in Frames :
          LET opens == Opens(d, frame)
          IN /\ opens # {} /\ Cardinality(opens) = c.frames[frame].available
             /\ Min(opens) <= c.frames[frame].start
             /\ Max(opens) + Bar(frame) >= c.frames[frame].end

\* The bars of a frame that the manifest answers for.
Governed(c, frame) ==
  LET from == Max({c.warmup, c.frames[frame].start})
      to == Min({c.usable.end, c.frames[frame].end})
  IN {t \in from..to - Bar(frame) : t % Bar(frame) = 0}

\* Every candle missing between two others is a declared, scheduled closure,
\* and every declared closure is such a candle.
ReconcileContinuity(d) ==
  LET c == d.manifest.coverage
  IN \A frame \in Frames :
       LET opens == Opens(d, frame)
           gaps == {g \in c.gaps : g.frame = frame}
           between == Min(opens)..Max(opens)
       IN /\ \A g \in gaps : /\ g.expected /\ g.code = "SCHEDULED_MARKET_CLOSURE"
                             /\ g.from % Bar(frame) = 0 /\ g.to % Bar(frame) = 0
          /\ (between \ opens) \cap Governed(c, frame)
               = (UNION {g.from..g.to - 1 : g \in gaps}) \cap Governed(c, frame)

\* One vintage per revision; a news strategy needs the calendar.
ValidNews(d) ==
  /\ \A v \in d.vintages : EconomicEvent(v)
  /\ \A v, w \in d.vintages : v.id = w.id /\ v.revision = w.revision => v = w
  /\ d.manifest.strategy \in NewsStrategies =>
       d.manifest.coverage.news.available /\ d.calendar

ValidQuotes(d) ==
  /\ \A q \in d.quotes : ObservedQuote(q)
  /\ \A q, r \in d.quotes : q.time = r.time => q = r

\* A strategy of the registry, and candles for every frame it reads.
ValidScope(d) ==
  d.manifest.strategy \in Strategies /\ Frames \subseteq DOMAIN d.manifest.coverage.frames

CanonicalReplayInputs(d) ==
  /\ BacktestRunManifest(d.manifest) /\ ValidCandles(d) /\ ReconcileContinuity(d)
  /\ ValidNews(d) /\ ValidQuotes(d) /\ ValidScope(d)

\* The news rules of the risk policy need the vintages of the whole period.
RiskReady(d) ==
  d.newsRisk => /\ d.calendar
                /\ VintagesCover(d.manifest.coverage.news, d.manifest.start, d.manifest.end)

Admitted(d) == CanonicalReplayInputs(d) /\ RiskReady(d)

=============================================================================
