------------------------------ MODULE CandleEngine ------------------------------
(***************************************************************************)
(* services/market_data/aggregation.py: the candle engine that folds ticks *)
(* into bars of every timeframe, and the bars that a provider's history    *)
(* holds.                                                                  *)
(*                                                                         *)
(* A bar is written as the sequence of the ticks folded into it, one per   *)
(* second: open and close are its ends, high and low its extremes, volume  *)
(* its length.  A tick that is lost, counted twice or folded out of order  *)
(* is a different sequence.                                                *)
(***************************************************************************)
EXTENDS Naturals, Sequences, SequencesExt

CONSTANTS
    Timeframes,   \* domain.Timeframe
    Base,         \* Timeframe.M1, the one that ticks are folded into
    Widest,       \* Timeframe.W1, the one whose bucket the engine is seeded with
    Length,       \* SECONDS[tf]
    NoBar         \* absent from a dict of the engine

ASSUME TimeframesAssumption ==
    /\ {Base, Widest} \subseteq Timeframes
    /\ Length \in [Timeframes -> Nat \ {0}]
    /\ \A tf \in Timeframes : Length[tf] % Length[Base] = 0 /\ Length[Widest] % Length[tf] = 0

Bar == [start : Nat, ticks : Seq(Nat), closed : BOOLEAN]
ASSUME NoBarAssumption == NoBar \notin Bar

\* domain.bucket.
Bucket(t, tf) == t - (t % Length[tf])

\* The seconds from first to stop - 1.
Seconds(first, stop) == [i \in 1..(IF first < stop THEN stop - first ELSE 0) |-> first + i - 1]

-----------------------------------------------------------------------------
(* The engine: its last M1 bar, what precedes it in each bucket, and the bucket *)

Engine ==
    [base : Bar \cup {NoBar}, prefix : [Timeframes -> Seq(Nat)],
     current : [Timeframes -> Bar \cup {NoBar}]]

EmptyEngine ==
    [base |-> NoBar, prefix |-> [tf \in Timeframes |-> <<>>],
     current |-> [tf \in Timeframes |-> NoBar]]

\* The base belongs to another bucket than the current bar of the timeframe.
Rolls(e, base, tf) == e.current[tf] # NoBar /\ e.current[tf].start # Bucket(base.start, tf)

\* Fault: a bar that rolls keeps its prefix.
PrefixKept(e, base, tf) ==
    IF e.base # NoBar /\ e.base.start # base.start /\ tf # Base
    THEN e.prefix[tf] \o e.base.ticks ELSE e.prefix[tf]

\* A bar that rolls starts without a prefix; within a bucket the finished M1 bar joins it.
Prefix(e, base, tf) ==
    IF Rolls(e, base, tf) THEN <<>>
    ELSE IF e.base # NoBar /\ e.base.start # base.start /\ tf # Base
         THEN e.prefix[tf] \o e.base.ticks ELSE e.prefix[tf]

\* _replace_base and merge.
ReplaceBase(e, base) ==
    LET prefix == [tf \in Timeframes |-> Prefix(e, base, tf)]
    IN  [base |-> base, prefix |-> prefix,
         current |-> [tf \in Timeframes |->
                        [start |-> Bucket(base.start, tf), ticks |-> prefix[tf] \o base.ticks,
                         closed |-> FALSE]]]

\* Fault: every timeframe is finished with the minute.
FinishedWithMinute(e, base) ==
    [tf \in Timeframes |->
        IF e.base # NoBar /\ e.base.start # base.start
        THEN {[e.current[tf] EXCEPT !.closed = TRUE]} ELSE {}]

\* The bars that ReplaceBase finishes.
Finished(e, base) ==
    [tf \in Timeframes |->
        IF Rolls(e, base, tf) THEN {[e.current[tf] EXCEPT !.closed = TRUE]} ELSE {}]

\* The M1 bar that the tick of second t extends or opens.
Extended(e, t) ==
    LET start == Bucket(t, Base)
        old == IF e.base # NoBar /\ e.base.start = start THEN e.base.ticks ELSE <<>>
    IN  [start |-> start, ticks |-> Append(old, t), closed |-> FALSE]

\* ingest: the engine after the tick, and the bars it returns.
Ingested(e, t) == ReplaceBase(e, Extended(e, t))
Returned(e, t) ==
    [tf \in Timeframes |->
        Finished(e, Extended(e, t))[tf] \cup {Ingested(e, t).current[tf]}]

-----------------------------------------------------------------------------
(* What the provider's history holds at second now *)

\* The bar of a bucket, of the seconds before stop.
BarUpTo(start, tf, stop, now) ==
    LET end == start + Length[tf]
    IN  [start |-> start, ticks |-> Seconds(start, IF end < stop THEN end ELSE stop),
         closed |-> end <= now]

\* Every bucket that has a second before stop.
BarsBefore(stop, tf, now) ==
    {BarUpTo(start, tf, stop, now) : start \in {s \in 0..stop : s % Length[tf] = 0 /\ s < stop}}

\* get_historical_candles of the replay ends before now, that of MT5 includes it.
History(tf, now) == BarsBefore(now, tf, now)
BrokerHistory(tf, now) == BarsBefore(now + 1, tf, now)

\* The M1 bars of the current bucket of the widest timeframe, one more when no second
\* of the current minute has passed, as far as the history goes back.
Bases(now) ==
    LET all == (now + Length[Base] - 1) \div Length[Base]
        asked == (now - Bucket(now, Widest)) \div Length[Base] + 1
        count == IF all < asked THEN all ELSE asked
    IN  [i \in 1..count |-> BarUpTo((all - count + i - 1) * Length[Base], Base, now, now)]

\* seed.
Seeded(now) == FoldLeft(ReplaceBase, EmptyEngine, Bases(now))
=============================================================================
