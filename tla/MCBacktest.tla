----------------------------- MODULE MCBacktest -----------------------------
(* Data sets for TLC.  Each starts with a history that leads its strategy to *)
(* a plan, and goes on with any of a few candles around that plan's prices:  *)
(* a retest, a stop, a target, both, a gap through the stop, a quiet one.    *)
EXTENDS Backtest

K(o, h, l, c) == [open |-> o, high |-> h, low |-> l, close |-> c]

MCLeft  == [s \in ToSet(Scopes) |-> 1]
MCRight == [s \in ToSet(Scopes) |-> IF s = "INTERNAL" THEN 1 ELSE 2]
MCWindows == <<[name |-> "PD", every |-> 32, from |-> 0, to |-> 21],
               [name |-> "LONDON", every |-> 32, from |-> 1, to |-> 4]>>
MCPre  == [impact \in {"HIGH", "MEDIUM"} |-> 2]
MCLock == [impact \in {"HIGH", "MEDIUM"} |-> 1]
MCReactions == <<1, 2>>

\* Falling prices, common to the histories.
Fall == <<K(18,20,18,20), K(20,22,19,20), K(20,20,17,17), K(17,19,16,18), K(18,20,17,19),
          K(19,19,15,16), K(16,16,12,13), K(13,14,9,10), K(10,12,8,9)>>

Raised(cs, by) ==
  [i \in 1..Len(cs) |-> K(cs[i].open + by, cs[i].high + by, cs[i].low + by, cs[i].close + by)]

\* A sweep of the lows, a displaced reversal, and a retest of its order block.
Reversal == Raised(Fall \o
  <<K(9,9,8,8), K(8,9,7,8), K(8,8,4,5), K(5,5,5,5), K(5,6,5,5), K(5,5,5,5),
    K(5,6,3,4), K(4,7,4,7), K(7,7,3,4), K(4,7,4,7)>>, 2)

\* A double bottom, the close through its neckline, and a retest of that.
Bottoming ==
  Raised(Fall, 3) \o <<K(12,12,7,8), K(8,9,5,6), K(6,6,6,6), K(6,9,5,8), K(8,8,5,5), K(5,5,5,5), K(5,7,5,6),
       K(6,8,5,7), K(7,10,7,9), K(9,10,5,6), K(6,8,6,7), K(7,10,7,10), K(10,10,9,10)>>

\* A rally, its pullback into an order block, and the next break upwards.
Rally == Fall \o
  <<K(9,11,8,11), K(11,12,9,10), K(10,10,8,9), K(9,10,8,9), K(9,12,9,11), K(11,14,11,13),
    K(13,15,13,15), K(15,16,11,12), K(12,15,12,14), K(14,15,14,14), K(14,17,13,17),
    K(17,18,16,17), K(17,18,16,18)>>

\* A quiet market, rejected at its low.
Sideways == Fall \o
  <<K(9,10,7,7), K(7,9,6,8), K(8,8,6,6), K(6,9,6,8), K(8,10,8,9), K(9,9,9,9), K(9,10,7,7),
    K(7,8,7,8), K(8,11,7,11), K(11,13,11,12), K(12,12,8,9), K(9,10,9,10), K(10,10,8,9)>>

\* Its low is sold into and reclaimed, and the price crosses to its high.
Crossing == Sideways \o <<K(9,9,6,7), K(7,9,6,9), K(9,13,9,12)>>

\* The other way round: a rally, a sweep of its highs, a reversal down.
Topping ==
  <<K(12,12,10,10), K(10,11,8,10), K(10,13,10,13), K(13,14,11,12), K(12,13,10,11),
    K(11,15,11,14), K(14,18,14,17), K(17,21,16,20), K(20,22,18,21), K(21,21,18,18),
    K(18,21,18,20), K(20,22,19,22), K(22,23,21,22), K(22,23,22,23), K(23,23,21,22),
    K(22,22,18,19), K(19,19,19,19), K(19,19,16,16), K(16,18,16,18), K(18,22,18,21)>>

\* Candles around a plan with this entry, stop and target.
Around(entry, stop, target) ==
  LET up == IF stop < target THEN 1 ELSE -1
      shape(o, a, b, c) == K(o, Max({a, b}), Min({a, b}), c)
  IN {shape(entry + up, entry + 2 * up, entry, entry + up),
      shape(entry + up, entry + 2 * up, stop, entry + 2 * up),
      shape(entry + up, target, entry + up, target),
      shape(entry, target, stop, entry),
      shape(stop - 2 * up, stop - up, stop - 3 * up, stop - 2 * up),
      shape(entry + 2 * up, entry + 2 * up, entry + up, entry + 2 * up)}

Quote(t, seen, spread) == [time |-> t, observed |-> seen, spread |-> spread]
Steady == {Quote(t, t, 1) : t \in 0..30}

\* A release at that time: announced, published, and later revised.
Vintage(revision, available, at, status, actual) ==
  [id |-> "CPI", revision |-> revision, available |-> available, scheduled |-> at,
   impact |-> "HIGH", status |-> status, actual |-> actual, forecast |-> 5,
   rule |-> "HIGHER_IS_POSITIVE", numeric |-> TRUE, group |-> "US", companions |-> {},
   conflict |-> FALSE, released |-> IF actual = NoValue THEN NoValue ELSE at,
   relevant |-> TRUE]
Release(at) == {Vintage(1, 0, at, "SCHEDULED", NoValue), Vintage(2, at, at, "RELEASED", 3),
                Vintage(3, at + 5, at, "REVISED", 7)}
\* An announcement that is moved to a later time.
Moved(from, to, known) == {Vintage(1, 0, from, "SCHEDULED", NoValue),
                           Vintage(2, known, to, "SCHEDULED", NoValue)}

Hole(from, to, code, expected) ==
  [frame |-> "PRIMARY", from |-> from, to |-> to, code |-> code, expected |-> expected]
Closure(from, to) == Hole(from, to, "SCHEDULED_MARKET_CLOSURE", TRUE)
Outage(from, to) == Hole(from, to, "MISSING_CANDLES", FALSE)

Up   == [n \in 1..8 |-> "BULLISH"]
Down == [n \in 1..8 |-> "BEARISH"]

\* A manifest that agrees with itself.
Manifest(strategy, start, end, length, gaps) ==
  LET frames == [PRIMARY |-> [start |-> 0, end |-> end, requested |-> length, available |-> length],
                 COARSE |-> [start |-> 0, end |-> 32, requested |-> 8, available |-> 8]]
      range == [start |-> start, end |-> end]
  IN [strategy |-> strategy, start |-> start, end |-> end,
      coverage |-> [warmup |-> 0, usable |-> range, requested |-> range, inputs |-> length + 8,
                    frames |-> frames, gaps |-> gaps,
                    news |-> [required |-> strategy \in NewsStrategies, available |-> TRUE,
                              from |-> 0, to |-> 40],
                    sufficient |-> TRUE],
      provenance |-> [strategy |-> strategy, frames |-> DOMAIN frames, requested |-> range,
                      usable |-> range]]

Set(strategy, history, next, length) ==
  [manifest |-> Manifest(strategy, Len(history) - 2, length, length, {}),
   history |-> history, next |-> next, length |-> length, strong |-> TRUE, coarse |-> Up,
   closed |-> {}, vintages |-> {}, quotes |-> Steady, calendar |-> TRUE, newsRisk |-> TRUE]

From(start, d) ==
  [d EXCEPT !.manifest = Manifest(d.manifest.strategy, start, d.length, d.length, {})]

\* The same number of candles, with none at these times.
Shut(d, closed, gaps) ==
  [d EXCEPT !.closed = closed,
            !.manifest = Manifest(d.manifest.strategy, d.manifest.start,
                                  d.length + Cardinality(closed), d.length, gaps)]

Reversals == Around(8, 4, 14)
Rallies == Around(16, 14, 20)

\* The sides of a range one after the other: plans both ways at once.
Crossings ==
  [From(21, Set("STRAT04", Crossing, {K(12,13,11,12), K(12,12,10,10), K(10,10,7,7),
                                      K(10,13,10,11)}, 29))
     EXCEPT !.strong = FALSE, !.coarse = [n \in 1..8 |-> "NEUTRAL"]]

MCDataSets ==
  {\* any candles from nothing
   From(4, Set("STRAT02", <<>>, {K(10,11,9,10), K(10,14,10,14), K(14,14,10,10), K(8,9,7,8),
                                 K(14,16,13,15), K(12,13,6,12)}, 6)),
   From(7, Set("STRAT02", <<>>, {K(10,11,9,10), K(10,14,10,14), K(8,9,7,8), K(12,13,6,12)}, 8)),
   Set("STRAT01", Reversal, Reversals, 23),
   [Set("STRAT01", Topping, Around(22, 24, 19), 24) EXCEPT !.coarse = Down],
   Set("STRAT03", Bottoming, Around(9, 4, 17), 25),
   [Set("STRAT06", Reversal, Reversals, 22) EXCEPT !.vintages = Release(15)],
   \* the frames above turn, and a quote arrives late
   [Set("STRAT02", Rally, Rallies, 25)
      EXCEPT !.coarse = [Up EXCEPT ![6] = "BEARISH"],
             !.quotes = {q \in Steady : q.time # 22} \cup {Quote(22, 23, 3)}],
   \* a release is moved into the run
   [Set("STRAT02", Rally, Rallies, 25) EXCEPT !.vintages = Moved(40, 24, 23)],
   \* neither calendar nor news rules, nor vintages to rely on
   [Set("STRAT02", Rally, {K(17,18,16,17), K(17,20,17,20)}, 25)
      EXCEPT !.vintages = Release(19), !.calendar = FALSE, !.newsRisk = FALSE,
             !.manifest.coverage.news = [required |-> FALSE, available |-> FALSE,
                                         from |-> NoValue, to |-> NoValue]],
   \* the market closes for a while
   Shut(Set("STRAT02", Rally, Rallies, 25), {23, 24}, {Closure(23, 25)}),
   \* the candles go on after what is usable of them
   [Set("STRAT02", Rally, Rallies, 25)
      EXCEPT !.manifest.coverage.usable.end = 23, !.manifest.provenance.usable.end = 23],
   [Set("STRAT05", Rally, Rallies, 25) EXCEPT !.vintages = Release(19)],
   [Set("STRAT04", Sideways, Around(8, 7, 10), 25) EXCEPT !.strong = FALSE],
   Crossings,
   \* refused: a missing candle that is not declared, an outage that is, and
   \* one that passes for a closure
   Shut(Set("STRAT02", Rally, Rallies, 25), {23}, {}),
   [Shut(Set("STRAT02", Rally, Rallies, 25), {23}, {Outage(23, 24)})
      EXCEPT !.manifest.coverage.sufficient = FALSE],
   Shut(Set("STRAT02", Rally, Rallies, 25), {23}, {Outage(23, 24)}),
   Shut(Set("STRAT02", Rally, Rallies, 25), {23},
        {Hole(23, 24, "MISSING_CANDLES", TRUE)}),
   \* refused: a closure during which there are candles, fewer of them than
   \* were asked for, and vintages that stop before the run does
   Shut(Set("STRAT02", Rally, Rallies, 25), {}, {Closure(23, 24)}),
   [Set("STRAT02", Rally, Rallies, 25) EXCEPT !.manifest.coverage.frames.COARSE.requested = 9],
   [Set("STRAT02", Rally, Rallies, 25) EXCEPT !.manifest.coverage.news.to = 24]}

MCPrefixSets == {Crossings}

=============================================================================
