------------------------------- MODULE MarketFeed -------------------------------
(***************************************************************************)
(* The market feed from the provider to the chart: the worker and the bus  *)
(* of services/market_data/service.py, the websocket handler of            *)
(* api/market.py, and the connection of the browser in                     *)
(* frontend/src/features/chart/transport.ts.                               *)
(*                                                                         *)
(* Worker and handlers share one event loop: a step runs from one await to *)
(* the next.  The two kinds of provider differ in where the bars of a tick *)
(* come from: the replay's are folded by the candle engine from the ticks  *)
(* it is given, an authoritative (MT5) provider's are read from the        *)
(* broker, the last two of each timeframe.  Prices, quotes and status text *)
(* are left out, and so is the limit of 300 bars on what is read at once.  *)
(***************************************************************************)
EXTENDS CandleEngine, Integers, FiniteSets

CONSTANTS
    Consumers,     \* charts in browsers, each with its MarketConnection
    Shown,         \* Shown[k]: the timeframe of the chart
    Capacity,      \* sockets the bus accepts (128)
    QueueSize,     \* updates a queue holds (16)
    WireSize,      \* bound: frames on their way to one browser
    Stale,         \* market_stale_seconds: a tick may trail now by as much
    Ahead,         \* mt5_future_tolerance_seconds: or be ahead of it by as much
    Gap,           \* max(market_stale_seconds, 2 * mt5_poll_seconds)
    FirstSecond,   \* clock at the start
    MaxClock,      \* bound on the clock
    MaxTicks,      \* bound on the ticks a process publishes
    MaxOutages,    \* bound on worker failures and process crashes
    Reconnect,     \* the None that tells a consumer to leave
    Nothing        \* no item, no quote

ASSUME GapAssumption == {Stale, Ahead, Gap} \subseteq Nat
ASSUME BoundsAssumption ==
    /\ Shown \in [Consumers -> Timeframes]
    /\ {Capacity, QueueSize, WireSize, FirstSecond} \subseteq Nat \ {0}
    /\ {MaxClock, MaxTicks, MaxOutages} \subseteq Nat

VARIABLES
    authoritative,  \* provider.authoritative_candles
    clock,          \* UTC seconds
    outages,        \* failures so far, for the bound
    worker,         \* the worker's task and what it holds
    engine,         \* MarketService.engine
    rows,           \* rows[tf]: committed candles of the timeframe
    sequence,       \* MarketService.sequence
    registered,     \* consumers whose queue is in LocalMarketBus.queues
    queue,          \* queue[k]: the items of the consumer's queue
    socket,         \* socket[k]: the websocket handler of the consumer
    wire,           \* wire[k]: frames sent and not yet received
    chart           \* chart[k]: what the browser keeps

vars == <<authoritative, clock, outages, worker, engine, rows, sequence, registered,
          queue, socket, wire, chart>>

Bars == [Timeframes -> SUBSET Bar]

\* An update is a list of bars; its number is a history variable.
Update == [number : Nat, bars : Bars]

\* offered: the timestamp of the last tick the stream has yielded; now: when the stream was
\* last asked or the ingest of its tick began; quote: the timestamp of the quote; seededAt:
\* when the history was read; heard: how far the bars stored with each tick since reach (a
\* history variable).
Worker ==
    [phase : {"down", "running", "storing", "publishing"}, offered : Nat \cup {Nothing},
     now : Nat, quote : Nat \cup {Nothing}, seededAt : Nat, heard : SUBSET Nat, bars : Bars]

\* taken: the item the handler's task has got from the queue; served: the number of the
\* last update it has taken or found outdated (a history variable).
Closed == [pc |-> "closed"]
Socket ==
    [pc : {"auth", "wait", "read"}, asked : BOOLEAN,
     subscribed : BOOLEAN, taken : Update \cup {Reconnect, Nothing}, snapshot : SUBSET Bar,
     served : Nat]
Frame ==
    [type : {"snapshot", "update", "status"}, sequence : Nat, bars : SUBSET Bar]

NoBars == [tf \in Timeframes |-> {}]

\* None is no update and no quote.
ASSUME NothingAssumption ==
    Reconnect \notin Update /\ Nothing \notin Nat \cup Update \cup {Reconnect}

TypeOK ==
    /\ authoritative \in BOOLEAN /\ clock \in Nat /\ outages \in 0..MaxOutages
    /\ worker \in Worker
    /\ engine \in Engine
    /\ rows \in Bars
    /\ sequence \in Nat
    /\ registered \subseteq Consumers /\ Cardinality(registered) <= Capacity
    /\ \A k \in Consumers :
         /\ queue[k] \in Seq(Update \cup {Reconnect}) /\ Len(queue[k]) <= QueueSize
         /\ socket[k] \in Socket \cup {Closed}
         /\ wire[k] \in Seq(Frame) /\ Len(wire[k]) <= WireSize
         /\ chart[k] \in [last : Nat \cup {-1}, bars : SUBSET Bar]

Open(k) == socket[k] # Closed

-----------------------------------------------------------------------------
(* The bus *)

\* Fault: the queues have no limit.
UnlimitedQueued(item) ==
    [k \in Consumers |-> IF k \in registered THEN Append(queue[k], item) ELSE queue[k]]

\* publish: a full queue is emptied, told to reconnect and detached.
Queued(item) ==
    [k \in Consumers |->
        IF k \notin registered THEN queue[k]
        ELSE IF Len(queue[k]) = QueueSize THEN <<Reconnect>> ELSE Append(queue[k], item)]
Attached == {k \in registered : Len(queue[k]) < QueueSize}

\* Fault: a full queue loses its oldest item and stays attached.
PublishOverOldest(item) ==
    /\ queue' = [k \in Consumers |->
                    IF k \notin registered THEN queue[k]
                    ELSE IF Len(queue[k]) = QueueSize THEN Append(Tail(queue[k]), item)
                         ELSE Append(queue[k], item)]
    /\ UNCHANGED registered

Publish(item) ==
    /\ queue' = Queued(item)
    /\ registered' = Attached

-----------------------------------------------------------------------------
(* The worker *)

Upsert(stored, new) ==
    [tf \in Timeframes |->
        {r \in stored[tf] : \A n \in new[tf] : n.start # r.start} \cup new[tf]]

Init ==
    /\ authoritative \in BOOLEAN
    /\ clock = FirstSecond
    /\ outages = 0
    /\ worker = [phase |-> "down", offered |-> Nothing, now |-> 0, quote |-> Nothing,
                 seededAt |-> 0, heard |-> {}, bars |-> NoBars]
    /\ engine = EmptyEngine
    /\ rows = NoBars
    /\ sequence = 0
    /\ registered = {}
    /\ queue = [k \in Consumers |-> <<>>]
    /\ socket = [k \in Consumers |-> Closed]
    /\ wire = [k \in Consumers |-> <<>>]
    /\ chart = [k \in Consumers |-> [last |-> -1, bars |-> {}]]

\* initialize: connect, store the history of every timeframe, seed the engine.  The
\* broker's history includes the current second, the replay's ends before it.
Initialize ==
    /\ worker.phase = "down"
    /\ rows' = Upsert(rows, [tf \in Timeframes |->
                                IF authoritative THEN BrokerHistory(tf, clock)
                                ELSE History(tf, clock)])
    /\ engine' = IF authoritative THEN engine ELSE Seeded(clock)
    /\ worker' = [phase |-> "running", offered |-> Nothing, now |-> clock, quote |-> Nothing,
                  seededAt |-> clock, heard |-> {}, bars |-> NoBars]
    /\ UNCHANGED <<authoritative, clock, outages, sequence, registered, queue, socket,
                   wire, chart>>

\* What the stream may have yielded when a tick is ingested, each second once.  The replay
\* stamps a tick with the second it is read in, after the stream was asked for it.  The last
\* tick of the broker has the broker's time; it is polled at once, and then a second or more
\* after the stream was asked again.  A tick of another time (MARKET_INVALID_TIME) could
\* only be rejected; the replay is never ahead.
Offered(stamp) ==
    /\ worker.phase = "running"
    /\ worker.offered # Nothing => worker.offered < stamp
    /\ clock - stamp <= Stale
    /\ IF authoritative
       THEN /\ stamp - clock <= Ahead
            /\ worker.offered # Nothing => worker.now < clock
       ELSE stamp \in worker.now..clock

\* Fault: no gap is ever noticed.
GapOverlooked(stamp) == FALSE

\* The gap between the timestamps of a tick and of the quote.
GapFound(stamp) == authoritative /\ worker.quote # Nothing /\ stamp - worker.quote > Gap

\* candle_updates(now): the last closed and the forming bar of each timeframe, as of now
\* and not of the tick's time.
LastTwo ==
    [tf \in Timeframes |->
        {b \in BrokerHistory(tf, clock) : b.start + 2 * Length[tf] > clock}]

\* ingest up to its commit.
IngestTick(stamp) ==
    /\ Offered(stamp) /\ ~GapFound(stamp)
    /\ sequence < MaxTicks
    /\ worker' = [worker EXCEPT !.phase = "storing", !.offered = stamp, !.now = clock,
                                !.bars = IF authoritative THEN LastTwo ELSE Returned(engine, stamp)]
    /\ engine' = IF authoritative THEN engine ELSE Ingested(engine, stamp)
    /\ UNCHANGED <<authoritative, clock, outages, rows, sequence, registered, queue, socket,
                   wire, chart>>

\* A tick of abnormal price or spread, or out of date, is dropped, and the stream asked again.
RejectTick(stamp) ==
    /\ Offered(stamp)
    /\ worker' = [worker EXCEPT !.offered = stamp, !.now = clock]
    /\ UNCHANGED <<authoritative, clock, outages, engine, rows, sequence, registered, queue,
                   socket, wire, chart>>

\* A gap between two ticks of the broker: clients are told, and the history is read anew.
Resnapshot(stamp) ==
    /\ Offered(stamp) /\ GapFound(stamp)
    /\ worker' = [worker EXCEPT !.phase = "down"]
    /\ Publish(Reconnect)
    /\ UNCHANGED <<authoritative, clock, outages, engine, rows, sequence, socket, wire, chart>>

\* How far the bars of the tick reach: the broker's to the second they were read in, the
\* replay's to the tick.
Reach == IF authoritative THEN worker.now ELSE worker.offered

\* The transaction of the tick commits.
StoreTick ==
    /\ worker.phase = "storing"
    /\ rows' = Upsert(rows, worker.bars)
    /\ worker' = [worker EXCEPT !.phase = "publishing", !.heard = @ \cup {Reach}]
    /\ UNCHANGED <<authoritative, clock, outages, engine, sequence, registered, queue, socket,
                   wire, chart>>

\* What follows the commit.
PublishTick ==
    /\ worker.phase = "publishing"
    /\ sequence' = sequence + 1
    /\ Publish([number |-> sequence + 1, bars |-> worker.bars])
    /\ worker' = [worker EXCEPT !.phase = "running", !.now = clock,
                                !.quote = worker.offered, !.bars = NoBars]
    /\ UNCHANGED <<authoritative, clock, outages, engine, rows, socket, wire, chart>>

\* The provider or the database fails: clients are told, and run() starts again.
FailWorker ==
    /\ worker.phase \in {"down", "running", "storing"}
    /\ outages < MaxOutages
    /\ outages' = outages + 1
    /\ worker' = [worker EXCEPT !.phase = "down", !.bars = NoBars]
    /\ Publish(Reconnect)
    /\ UNCHANGED <<authoritative, clock, engine, rows, sequence, socket, wire, chart>>

\* The process ends and is started again: only the rows are left.
Crash ==
    /\ outages < MaxOutages
    /\ outages' = outages + 1
    /\ worker' = [phase |-> "down", offered |-> Nothing, now |-> 0, quote |-> Nothing,
                  seededAt |-> 0, heard |-> {}, bars |-> NoBars]
    /\ engine' = EmptyEngine
    /\ sequence' = 0
    /\ registered' = {}
    /\ queue' = [k \in Consumers |-> <<>>]
    /\ socket' = [k \in Consumers |-> Closed]
    /\ wire' = [k \in Consumers |-> <<>>]
    /\ UNCHANGED <<authoritative, clock, rows, chart>>

Tick ==
    /\ clock < MaxClock
    /\ clock' = clock + 1
    /\ UNCHANGED <<authoritative, outages, worker, engine, rows, sequence, registered, queue,
                   socket, wire, chart>>

feedVars == <<authoritative, clock, outages, worker, engine, rows, sequence>>

-----------------------------------------------------------------------------
(* The websocket handler *)

\* A slot is taken before authentication; the browser forgets the last sequence and sends
\* its token and its subscription at once; what the chart shows it keeps.
Connect(k) ==
    /\ ~Open(k)
    /\ Cardinality(registered) < Capacity
    /\ registered' = registered \cup {k}
    /\ queue' = [queue EXCEPT ![k] = <<>>]
    /\ socket' = [socket EXCEPT ![k] =
                    [pc |-> "auth", asked |-> TRUE, subscribed |-> FALSE,
                     taken |-> Nothing, snapshot |-> {}, served |-> sequence]]
    /\ chart' = [chart EXCEPT ![k].last = -1]
    /\ UNCHANGED <<feedVars, wire>>

Authenticate(k) ==
    /\ Open(k) /\ socket[k].pc = "auth"
    /\ socket' = [socket EXCEPT ![k].pc = "wait"]
    /\ UNCHANGED <<feedVars, registered, queue, wire, chart>>

\* The consumer task gets the next item of the queue.
TakeItem(k) ==
    /\ Open(k) /\ socket[k].pc # "auth" /\ socket[k].taken = Nothing
    /\ queue[k] # <<>>
    /\ queue' = [queue EXCEPT ![k] = Tail(@)]
    /\ socket' = [socket EXCEPT ![k].taken = Head(queue[k])]
    /\ UNCHANGED <<feedVars, registered, wire, chart>>

\* The subscription is read and the stored bars are queried.
ReadSnapshot(k) ==
    /\ Open(k) /\ socket[k].pc = "wait" /\ socket[k].asked
    /\ socket' = [socket EXCEPT ![k].pc = "read", ![k].asked = FALSE,
                                ![k].snapshot = rows[Shown[k]]]
    /\ UNCHANGED <<feedVars, registered, queue, wire, chart>>

\* message(): every frame is stamped with the sequence at the moment it is sent.
Stamped(k, type, bars) ==
    /\ Len(wire[k]) < WireSize
    /\ wire' = [wire EXCEPT ![k] = Append(@, [type |-> type, sequence |-> sequence, bars |-> bars])]

SendSnapshot(k) ==
    /\ Open(k) /\ socket[k].pc = "read"
    /\ Stamped(k, "snapshot", socket[k].snapshot)
    /\ socket' = [socket EXCEPT ![k].pc = "wait", ![k].subscribed = TRUE, ![k].snapshot = {}]
    /\ UNCHANGED <<feedVars, registered, queue, chart>>

\* An update goes to a subscriber, and nowhere before the subscription.
SendUpdate(k) ==
    LET item == socket[k].taken
    IN  /\ Open(k) /\ socket[k].pc = "wait" /\ item \notin {Nothing, Reconnect}
        /\ IF socket[k].subscribed THEN Stamped(k, "update", item.bars[Shown[k]])
           ELSE UNCHANGED wire
        /\ socket' = [socket EXCEPT ![k].taken = Nothing, ![k].served = item.number]
        /\ UNCHANGED <<feedVars, registered, queue, chart>>

\* Two seconds without anything: the status is sent.
SendStatus(k) ==
    /\ Open(k) /\ socket[k].pc = "wait" /\ socket[k].taken = Nothing /\ queue[k] = <<>>
    /\ Stamped(k, "status", {})
    /\ UNCHANGED <<feedVars, registered, queue, socket, chart>>

Leave(k) ==
    /\ registered' = registered \ {k}
    /\ queue' = [queue EXCEPT ![k] = <<>>]
    /\ socket' = [socket EXCEPT ![k] = Closed]
    /\ wire' = [wire EXCEPT ![k] = <<>>]
    /\ UNCHANGED <<feedVars, chart>>

\* Fault: the None is skipped like any item that is not for this subscription.
SkipTold(k) ==
    /\ Open(k) /\ socket[k].pc = "wait" /\ socket[k].taken = Reconnect
    /\ socket' = [socket EXCEPT ![k].taken = Nothing]
    /\ UNCHANGED <<feedVars, registered, queue, wire, chart>>

\* close(1013).
CloseTold(k) ==
    /\ Open(k) /\ socket[k].pc = "wait" /\ socket[k].taken = Reconnect
    /\ Leave(k)

\* The browser leaves, its token expires, or the connection breaks.
Disconnect(k) == Open(k) /\ Leave(k)

-----------------------------------------------------------------------------
(* The browser *)

\* refreshSeries: a snapshot replaces the series; a bar older than the last is skipped.
Drawn(bars, frame) ==
    IF frame.type = "snapshot" /\ frame.bars # {} THEN frame.bars
    ELSE LET fresh == {b \in frame.bars : \A old \in bars : old.start <= b.start}
         IN  {old \in bars : \A b \in fresh : b.start # old.start} \cup fresh

\* onmessage: an update that is not newer than the last frame is ignored.
Receive(k) ==
    LET frame == Head(wire[k])
    IN  /\ wire[k] # <<>>
        /\ wire' = [wire EXCEPT ![k] = Tail(@)]
        /\ IF frame.type = "update" /\ frame.sequence <= chart[k].last THEN UNCHANGED chart
           ELSE chart' = [chart EXCEPT ![k] =
                            [last |-> IF frame.sequence > @.last THEN frame.sequence ELSE @.last,
                             bars |-> Drawn(@.bars, frame)]]
        /\ UNCHANGED <<feedVars, registered, queue, socket>>

-----------------------------------------------------------------------------

Feed ==
    \/ Initialize
    \/ \E stamp \in 0..(clock + Ahead) :
          IngestTick(stamp) \/ RejectTick(stamp) \/ Resnapshot(stamp)
    \/ StoreTick
    \/ PublishTick
    \/ FailWorker
    \/ Crash
    \/ Tick

Serve(k) ==
    \/ Authenticate(k)
    \/ TakeItem(k)
    \/ ReadSnapshot(k)
    \/ SendSnapshot(k)
    \/ SendUpdate(k)
    \/ CloseTold(k)

Next ==
    \/ Feed
    \/ \E k \in Consumers :
          \/ Connect(k)
          \/ Serve(k)
          \/ SendStatus(k)
          \/ Disconnect(k)
          \/ Receive(k)

\* The event loop runs its handlers; a browser that does not read is disconnected by the
\* server's keep-alive, one that does not authenticate by the timeout of five seconds.
Fairness ==
    \A k \in Consumers : WF_vars(Serve(k)) /\ WF_vars(Receive(k))

Spec == Init /\ [][Next]_vars
FairSpec == Spec /\ Fairness

-----------------------------------------------------------------------------
(* Properties *)

\* The ticks a bar of the replay must hold: the history up to the last initialization
\* and the ticks stored since.
Known(start, tf) ==
    {s \in start..(start + Length[tf] - 1) : s < worker.seededAt \/ s \in worker.heard}

Folds(ticks, seconds) ==
    /\ ToSet(ticks) = seconds
    /\ \A i, j \in 1..Len(ticks) : i < j => ticks[i] < ticks[j]

\* The engine was seeded in the first second of a week: see SeededConsistently.
SeededAtTheBoundary == ~authoritative /\ worker.seededAt % Length[Widest] = 0

Folded ==
    \A tf \in Timeframes, start \in 0..MaxClock :
        start % Length[tf] = 0 /\ Known(start, tf) # {} =>
            /\ \E r \in rows[tf] : r.start = start
            /\ \A r \in rows[tf] : r.start = start => Folds(r.ticks, Known(start, tf))

\* Whatever rolls over, fails, restarts or is missed, a stored bar of the replay is the
\* fold of the history and the stored ticks of its bucket, each once and in order: the
\* engine rebuilt by a restart in the middle of a bar goes on where the history ends.
BarsAreTheirTicks ==
    ~authoritative /\ ~SeededAtTheBoundary => Folded

\* Two ticks that pass the gap check were read at most a bar apart: their timestamps are
\* Gap apart, the first may be ahead of its read and the second behind.  The defaults (5 s,
\* 5 s and 2 s) are far within a minute; config.py also admits values that are not.
ReadsFitABar == Gap + Stale + Ahead <= Length[Base]

\* Between two ticks stored from the broker no bar is missing and every closed bar is
\* complete, although only the last two bars are read with a tick, as of another time than
\* the tick's: the gap check covers what that misses.
NoHoleWhileQuoted ==
    authoritative /\ ReadsFitABar => \A s, t \in worker.heard :
        \A start \in Bucket(s, Base)..(Bucket(t, Base) - 1) : start % Length[Base] = 0 =>
            [start |-> start, ticks |-> Seconds(start, start + Length[Base]), closed |-> TRUE]
                \in rows[Base]

\* A closed bar is final: no later tick rewrites it (initialize may).
ClosedBarsAreFinal ==
    [][worker.phase = "storing" /\ ~SeededAtTheBoundary =>
          \A tf \in Timeframes : \A r \in rows[tf] : r.closed => r \in rows'[tf]]_vars

\* What the handler of k has still to serve.
Items(k) == (IF socket[k].taken = Nothing THEN <<>> ELSE <<socket[k].taken>>) \o queue[k]

\* A consumer is either told to reconnect or holds, without a gap, every update since the
\* last it served: no queue is forgotten by the bus in silence.
ToldOrComplete ==
    \A k \in Consumers : Open(k) =>
        \/ Reconnect \in ToSet(Items(k))
        \/ /\ k \in registered
           /\ Len(Items(k)) = sequence - socket[k].served
           /\ \A i \in 1..Len(Items(k)) : Items(k)[i].number = socket[k].served + i

\* A consumer that is told to reconnect does leave, and frees its slot.
ToldConsumersLeave ==
    \A k \in Consumers :
        (Open(k) /\ Reconnect \in ToSet(Items(k))) ~> ~Open(k)

(* What the repository says and the code does not do *)

\* service.py: the seed of the engine is "finite and consistent across timeframes".
SeededConsistently == ~authoritative => Folded

\* docs/06-market-data.md: the sequence deduplicates updates, and nothing is silently
\* missing.  An update that the browser drops for its sequence adds nothing to the chart.
OnlyDuplicatesAreDropped ==
    \A k \in Consumers : wire[k] # <<>> =>
        LET frame == Head(wire[k])
        IN  frame.type = "update" /\ frame.sequence <= chart[k].last
                => Drawn(chart[k].bars, frame) = chart[k].bars
=============================================================================
