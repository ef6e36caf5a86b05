# A verification project for AIGoldTrader

AIGoldTrader is a decision-support system for trading gold (XAUUSD): a FastAPI
backend with PostgreSQL that ingests quotes and news, detects market structure,
turns it into trade candidates, evaluates their risk for a paper account, and
lets AI agents comment on them; and a Next.js front end. No order is ever sent.

This directory holds TLA+ models of the parts whose correctness depends on
concurrency, on time and on failure, the TLC configurations that check them, and
proofs that the TLAPS proof system checks. Every definition is a translation of
the source at the lines `PROJECT.json` ("map") gives for it.

## 1. Inventory

| Component | State | Operations | Works with |
|---|---|---|---|
| Kill switch (`services/risk/kill_switch.py`) | `kill_switch_records` (append-only), `data_health_records` | activate, clear, automatic triggers | risk evaluation, administrators |
| Risk evaluation (`api/risk.py`, `services/risk/engine.py`, `repository.py`) | `risk_decisions` | evaluate a candidate | kill switch, lifecycle, portfolio, policy |
| Portfolio (`services/risk/portfolio.py`) | `risk_reservations` | live reservations, reserve, release | risk evaluation, strategy persistence |
| Account authority (`services/risk/account_state.py`, `account_resolver.py`) | paper states, account snapshots | resolve a reference, bootstrap a state, refresh a snapshot | risk evaluation |
| Pure policy (`policy_core.py`, `sizing.py`, `fingerprint.py`) | none | decide from a snapshot; identify what a decision depends on | risk evaluation, backtesting |
| Strategy persistence (`api/strategy.py`, `services/strategy/repository.py`, `lifecycle.py`) | candidates, evaluations, lifecycle transitions | analyse and persist; end the predecessor candidate | portfolio, risk evaluation |
| Refresh sessions (`api/auth.py`, `services/refresh_sessions.py`) | `refresh_sessions` | login, refresh, logout, reject a reused token | front-end auth coordinator |
| AI budget, orchestrator, executor (`services/ai/`) | one budget per request, worker processes | reserve, authorize, settle; fund and run agents; run one call in a process | AI providers |
| Market feed (`services/market_data/`) | candle engine, quotes, stored candles, subscriber queues | poll, aggregate, store, publish, resnapshot | MT5, websockets |
| Market websocket and chart (`api/market.py`, `frontend/src/features/chart/`) | one handler per socket; the series on the screen | subscribe, snapshot, forward updates, leave | market feed |
| News (`services/news/`) | vintages of calendar events | poll calendars, place an event in its regime, judge its effect | risk evaluation (blackouts), strategy |
| Analysis engine (`services/analysis/`) | swings, trends, events, levels, zones, window extrema | take one closed candle | strategy, backtesting |
| Strategy engine (`services/strategy/`) | none | six playbooks from a context to a plan | strategy persistence, backtesting |
| Backtesting (`services/backtesting/`) | one run: clock, engine, recorded events | admit a data set, replay it, judge its risk, simulate its trades | analysis, news, strategy, pure policy |
| Front-end auth coordinator (`frontend/src/lib/auth-coordinator.ts`) | access token, session epoch per tab; Web Lock, broadcast channel | bootstrap, refresh, login, logout | refresh sessions |

How they interact: a websocket or a request triggers an analysis, the strategy
transaction stores a candidate and ends the one before it; a user asks for a risk
evaluation, which takes the account's advisory lock, the candidate's row and, on
its way, the kill switch's rows and locks, decides, reserves and commits as one
PostgreSQL transaction. Processes share nothing but the database. An AI analysis
request lives in one event loop and shares only its budget and a limiter with its
worker processes.

What is hard here, and what a test hardly reaches, is listed line by line under
"hazards" in `PROJECT.json`: transactions of two processes around one row or one
lock, at two isolation levels; clocks that disagree; a cache of decisions that is
trusted without looking at the limits again; a token presented twice at once;
workers that hang, are killed, or get further than their parent knows.

What makes each component correct:

- *kill switch*: "latest timestamp" means "last action"; a streak of stale quotes
  trips exactly at its threshold; an evaluation that trips it decides on ACTIVE;
  transactions do not wait for each other for ever;
- *risk evaluation*: what is reserved stays within the account's limits; an ended
  candidate gets nothing; an approval of before an activation is not revived;
- *refresh sessions*: a login is worth one unspent token; a revocation is final
  and complete;
- *AI analysis*: the books of the budget balance; what was observed to start is
  charged; no agent starves another; every request is answered;
- *market feed*: a bar is the aggregate of its ticks whatever restarts in between; a
  consumer gets every update or is told to reconnect, and then does;
- *auth coordinator*: no late result overwrites a newer session; the tabs agree with the
  cookie once everything is quiet; an honest browser is not taken for a thief;
- *analysis, strategy, backtest*: structure is earned by closed candles; a decision uses
  nothing that was not known; a simulated trade could have been made, and its books add up;
- *account authority*: the account is the caller's and the only one of its name; what is
  read after a refresh is fresh and is the state.

## 2. Modules

| Module | Models | EXTENDS / INSTANCE |
|---|---|---|
| `KillSwitchRegister` | the abstract promise: one switch, one streak per source, atomic steps | |
| `KillSwitch` | the ledger, its clocks, the locks, the transactions of evaluations and administrators | INSTANCE `KillSwitchRegister` |
| `KillSwitchProofs` | theorems | `KillSwitch`, TLAPS |
| `PureRisk` | the risk policy: what blocks a plan, the windows around news, the losses that trip the switch | |
| `AccountAuthority` | whose account a reference names, its paper state, the refresh of its snapshot, the symbol's specification | `PureRisk` |
| `RiskEvaluation` | evaluations, reservations, the decision cache, the strategy transaction, the switch as evaluations see it | `AccountAuthority` |
| `MCRiskEvaluation` | instances for TLC | `RiskEvaluation` |
| `RiskEvaluationProofs` | theorems, those about `AccountAuthority` included | `RiskEvaluation`, TLAPS |
| `SessionFamilies` | the abstract promise: a login opens a family with one session that can be refreshed | |
| `RefreshSessions` | sessions, login, refresh, logout, reuse detection | INSTANCE `SessionFamilies` |
| `MCRefreshSessions` | symmetry | `RefreshSessions` |
| `RefreshSessionsProofs` | theorems | `RefreshSessions`, TLAPS |
| `AuthTabs` | the tabs of a browser over one cookie | INSTANCE `SessionFamilies` |
| `MCAuthTabs` | symmetry | `AuthTabs` |
| `AuthTabsProofs` | theorems | `AuthTabs`, `DataInduction`, TLAPS |
| `AnalysisGates` | what must hold of an analysis's input before a provider is called | |
| `AnalysisBudget` | the budget, the funding passes, the limiter, the life of a worker, the answer | `AnalysisGates` |
| `MCAnalysisBudget` | the canonical order of three agents | `AnalysisBudget` |
| `AnalysisBudgetProofs` | theorems | `AnalysisBudget`, TLAPS |
| `CandleEngine` | the candle engine and what a provider's history holds, as operators | |
| `MarketFeed` | the worker, the bus, the websocket handler, the browser's connection | `CandleEngine` |
| `MCMarketFeed` | lengths of the timeframes and the charts | `MarketFeed` |
| `MarketFeedProofs` | theorems | `MarketFeed`, `DataInduction`, TLAPS |
| `DataInduction` | lemmas: induction over the numbers as a fact about sets, recursive functions, quotients and remainders, extrema of sets of numbers | TLAPS |
| `MarketStructure` | the analysis engine, one closed candle at a time | |
| `NewsContext` | the news context at a time | `MarketStructure` |
| `StrategySetup` | patterns and the six playbooks, from a context to a plan | `NewsContext` |
| `RunAdmission` | the manifest and the data a backtest admits | `StrategySetup` |
| `Backtest` | the replay clock, the risk of its plans, the simulation of its trades | `RunAdmission`, `PureRisk` |
| `MCBacktest` | data sets for TLC | `Backtest` |
| `BacktestProofs` | theorems | `Backtest`, `DataInduction`, TLAPS |

### KillSwitch

`ledger` is the committed `kill_switch_records` in commit order, `failures` the
committed counts of `data_health_records`, `switchLock` the advisory lock
`kill_switch_action`, `rowLock` the `FOR UPDATE` locks, and `txn[w]` what the open
transaction of worker `w` has done but not committed. `CountHealth` is the upsert,
lock and count of a quote; `Activate` and `ClearSwitch` are the functions of that
name (`clear` is renamed) including the idempotent return; `ReadState` is the
re-read of `engine.py:118`; `Commit` and `Rollback` end the transaction and free its
locks. A stamp is `EffectiveNow(now)` for an arbitrary `now`: the clocks of the
hosts are not trusted to agree. `ImplementsRegister` is the refinement: the register's
`state` is what a reader of the committed ledger sees.

### RiskEvaluation

`work[w]` walks through the locks in the order of the code: account, candidate,
data-health row and kill-switch lock, then the decision with its writes and the
commit (`Decide`). The locks of the reservation rows are merged into `Decide`: their
writers hold the account lock, except the strategy transaction, whose collision with
them is modelled by `Collides`. Risk is in quanta; `Fits` and `Granted` are the capacity
rules of `policy_core.py`; `Sizable` stands for `calculate_position_size`. What a request
finds is a situation: the caller and the reference, the stored accounts, states,
snapshots and specifications, the quote and the calendar. `Inputs` puts it through
`AccountAuthority` (a refused situation has no input, and the request aborts) and
`BuildLivePureInput`; `Finding` judges the input with `PureRisk` and keeps the
`Observation` (nothing to object to, a fact that blocks, a loss that trips the switch), whether the
quote counts towards the stale streak, and whether a release ahead halves the risk.
Nothing in the program changes the economics of an account, so a situation is a constant;
what a refresh adds is a snapshot that another situation starts from. In PAPER mode the now of an
evaluation is the clock and the account is refreshed, unless the refresh fails, which
`api/risk.py:157` swallows (`Observed` has both stores); in the other modes now may be any instant of
`AsOf`, which the caller names (`api/risk.py:76-79`), and nothing is refreshed.
`Fingerprint` names what the cached decision depends on. The strategy transaction is
REPEATABLE READ: `BeginAnalysis` fixes what it can see and `EndCandidate` releases only
that; a row it saw and that was rewritten since makes PostgreSQL refuse it
(`conflict`).

### RefreshSessions

`sessions` are the rows (a family is named by the login's session), `authority[u]`
the per-user advisory lock, `request[r]` a refresh or logout from the resolution of its
token (`Begin`) through `Acquire`, the decision under the lock on the re-read row
(`DecideRefresh`, `DecideLogout`), to its commit. `targets` are the rows an `UPDATE ...
WHERE active` found when it started; at commit the ones still unspent are
revoked, which is how READ COMMITTED re-checks rows. `Login` takes no lock, as in
the code. `Abort` is the five-second lock timeout and any other failure.

`ImplementsFamilies` refines the rows to `SessionFamilies`, in which a family is a
user and the one session that can be refreshed, or over.

### AuthTabs

The server is `SessionFamilies`; `jar` is the refresh cookie that the tabs of a browser
share, `queue` the Web Lock `aigold-auth-mutation`, first come, first served. `tab[t]` is the
coordinator of a tab with its epoch, status, token in memory, refresh under way and one business
call of the API client; `inbox[t]` holds the broadcasts it has not handled, for any time. Each
request under the lock is a step that may answer or lose its answer; an answer is dropped when
the epoch has moved on. A document may close at any time, with a request in flight.

### MarketStructure, NewsContext, StrategySetup, RunAdmission, Backtest

`engine` is the object of `AnalysisEngine`: `Feed` is one closed candle through
swings, breaks, liquidity, zones and windows in the order of the code. `NewsAt` and `Evaluate` are
pure. `data` is the data set with its manifest, chosen among admitted and refused ones
(`Admitted` is every validator of `domain.py`, `replay.py` and `risk_replay.py`); `journal` is the
list of strategy events the replay records. The environment appends one candle after another, so every state
is a run with that `stop_at`. `Approved` puts a plan before `PureRisk` and the sizing on the fixed
baseline account; `Simulate` and `Metrics` are computed from the state. Times are bars and prices small
integers; data of the future is in `data` from the start, as it is in the files a run reads.
`Close` requires `NextTime < Cutoff(data)`: `primary_events` ends at the cutoff. The engine drops its oldest events beyond
`MaxObjects`, and with them a CHOCH or the swing of an event may go; `StructureIsEarned` says what holds of the
events kept, whatever the cap is: an MSS without its CHOCH is the oldest kept and the list is full,
and a trend against the last event is justified by the latest swings or by candles, not by events that may be gone.

### AnalysisBudget

`used` and `reserved` are the fields of `AnalysisBudget`; `call[a]` joins a reservation
and its worker: `begun` is what the worker has announced in its pipe, `started` what
the parent has read. `Fund`, `FundRetry` and `Launch` are the two-phase funding,
`Synthesize` the meta controller's turn, and the executor's exits are `GiveUp` (before a
worker), `Deliver` and `Reject` (an answer, or what is none) and `Terminate` (deadline or cancellation). All of the
parent runs in one event loop and never suspends inside a budget operation, so an
operation is one step. `Admit` puts the input through `AnalysisGates` before anything is funded,
`free` counts the limiter's free slots, `stuck` and `dead` the workers that survived their kill with a slot and those of them that
have died since, which a later call reaps before it takes one. `report` is the status the request ends with.
The request has the executor to itself in the model; `active_provider_process_count`, which reaps without
the limiter, is called by tests only.

### MarketFeed

`worker` is the task of `MarketService.run`: `Initialize` is one pass of `initialize`,
`IngestTick`, `StoreTick` and `PublishTick` are `ingest` up to the commit, the commit, and what
follows it without an await; `RejectTick` drops a tick, `Resnapshot` and `FailWorker` are the two
`except` branches, `Crash` the end of the process. `rows` are the committed candles,
`queue[k]` and `registered` the bus, `socket[k]` the handler of a websocket with the item its
consumer task has taken, `wire[k]` the frames under way and `chart[k]` what the browser
shows and its `lastSequence`. A bar is the sequence of the ticks folded into it
(`CandleEngine`), one per second, so that a tick lost, doubled or out of order shows; prices are
left out. `authoritative` chooses the provider: the replay's bars come out of the engine, an
MT5 bar out of the broker's history, whole, as of the second it is read. The clock of the service
and the times of the ticks are two things: `Offered(stamp)` yields any tick that `ingest` does not
refuse for its time, from `Stale` seconds behind the clock to `Ahead` before it; the gap check
(`GapFound`) compares ticks with each other, while `LastTwo` reads as of the clock.

## 3. Runs

| Run | Expect | What it shows | Bounds |
|---|---|---|---|
| `KillSwitch` | pass | safety, refinement of the register and termination of two concurrent transactions | 2 workers, 1 source, threshold 2, clocks 0..1, 4 records, streaks up to 4 |
| `RiskEvaluation_capacity` | pass | unique rows; the limits hold through cached approvals | PAPER mode, 2 evaluations, 1 account, 3 candidates on both sides, one plan that expires, TTL 1, 4 decisions |
| `RiskEvaluation_lifecycle` | pass | ended candidates get nothing, no revival, every evaluation ends | BACKTEST mode, callers' instants one ahead of the clock, 2 evaluations on 2 accounts, 1 candidate, 1 transition, 2 switch records, 2 decisions |
| `RiskEvaluation_ended` | violation | finding 1 below | as above, PAPER mode and a clock 0..1 |
| `RefreshSessions` | pass | one unspent session per family; revocations are complete and final; refinement of `SessionFamilies` | 2 requests, 1 user, 3 sessions, grace 0, lifetime 2, clock 0..2 |
| `AnalysisBudget` | pass | balanced books and slots, fair funding, truthful answers, termination | 3 agents and the meta controller, 1 retry, 4 attempts, 7 tokens of 2 per attempt, 2 slots, 2 ready agents make an answer PARTIAL |
| `AnalysisBudget_ceiling` | violation | finding 2 below | as above |
| `MarketFeed` | pass | bars are their ticks, no hole between two stored ticks, final bars, told or complete, told consumers leave | minute of 2 s, week of 4 s, clock 1..4, ticks up to 1 s late, gap 1 s, 2 ticks per process, 1 outage, 1 chart, queue of 1, 1 frame on the wire |
| `MarketFeed_sequence` | violation | finding 3 below | as above, no outage |
| `AuthTabs` | pass | nothing restored, no honest browser replays, tabs agree at rest and nobody waits for a refresh when the lock is free, retries keep their user | 2 tabs, 2 users, 3 sessions, 4 acts of users and the world |
| `Backtest` | pass | structure is earned, fates match history, decisions know no future, trades are executable | 14 admitted and 7 refused data sets, up to 30 candles with 4 to 6 shapes each |
| `Backtest_prefix` | violation | finding 4 below | one of these data sets: a range traded from both sides |

Why the bounds suffice. The kill switch's hazards need two transactions and two
clocks; four records let a clear, an activation and both of their
races happen, and a streak may run past its threshold. For capacity, three
candidates of risk up to 2 on an account of 3 are the least with which two approvals
exclude a third and a cached one returns after the others have changed; time 0..1 with a TTL of
1 lets a plan, a decision and a reservation expire. In the lifecycle run two accounts reserve for
one candidate, so that the strategy transaction may see one of them and miss the other.
Three sessions are a login, its
successor and either a third generation or a second family; clock 2 passes the grace
period and ends the lifetime. Four attempts for four callers with a retry each is a
budget that suffices for the base attempts of the agents and starves either the
retries or the meta controller; 7 tokens make the tokens, not the attempts, the
tighter limit. In the market feed the clock crosses a minute inside a week and a
minute that ends the week, the history reaches back into the first bar, one outage may fall on any step of
the worker, and a queue of one overflows between two steps of the handler, whose task holds one item more; two ticks
stored by one process are what a hole lies between, and a restart gives two more; consumers
share nothing but their number, so one chart shows what a consumer can see. The replay's
properties leave out an engine seeded in the first second of a week: it is seeded with
a minute of the week before, and its first tick stores bars of one minute over the complete ones
(`SeededConsistently` in `MarketFeed.tla` states what is then false).
`NoHoleWhileQuoted` has the condition `ReadsFitABar`: the gap, the stale limit and the future tolerance
together fit a bar of the base timeframe. The run meets it with equality (1 + 1 + 0 in a minute of 2 s), and
with one second more TLC finds a bar that stays partial, so the bound is exact. The defaults are
5, 5 and 2 seconds in a minute of 60; the settings also admit values far beyond it (`config.py:71`: 300), with
which bars between two ticks may go unread.
Two tabs and two users are the least with which a late answer meets another's sign-in; four acts
let a sign-in, a sign-out, a lost answer and a call meet in any order. The data sets of `Backtest` lead each
of the six playbooks to a plan, in both directions, then go on with every candle of a set
around the plan's prices (a retest, a stop, a target, both at once, a gap through the stop, a quiet one), with
late quotes, a moved, a released and a revised event, a closure, a coarse trend that turns, and
a usable end before the last candle; two more take any candles from nothing. That is 148,913
states. The situations of `RiskEvaluation` hold every block code of the policy by itself, both sides
of each boundary, and the references that are refused; they lead to at most five findings (`Findings`), so
that the runs stay small. The lifecycle run needs no clock of its own: a caller's instant ahead of it
expires what a later clock would.
Deadlock is checked in every run but `AuthTabs` and `Backtest`, which may stop (nobody acts, the data ends); `Rest` is the stutter of an instance that
has used up its bounds, so TLC reports a deadlock only when locks cause it.

### Fairness

Strong fairness of an evaluation's or transaction's next step (`KillSwitch`,
`RiskEvaluation`): PostgreSQL queues waiters, so a lock that is free again and again
is granted, and a request that is not waiting runs. `AnalysisBudget`: the event loop
is weakly fair to the orchestrator, the monotonic deadline passes, and
`asyncio.wait`/`wait_for` with that deadline then end each open call. `MarketFeed`: the event loop
is weakly fair to each handler, and frames arrive (a browser that stops reading is cut
off by the server's keep-alive); nothing is assumed of the worker or of new clients.
Nothing is assumed
of worker processes, of clients or of the clock of `RefreshSessions`. `AuthTabs` and `Backtest` state safety
only: that nobody waits while the lock is free is part of `TabsAgreeAtRest`.

### Findings

1. `EndedHoldsNothing`: the strategy transaction reads before it locks and is
   REPEATABLE READ (`api/strategy.py:50`), so the release that is to happen "in the same transaction"
   misses a reservation committed in between. The reservation holds risk until it expires. The
   evaluation side is safe: `EndedGetsNothing` holds and is proved.
2. `CeilingHolds`: a worker killed at the deadline may have begun an attempt the
   parent had not read; the attempt is refunded and can be granted again.
3. `OnlyDuplicatesAreDropped`: frames are stamped with the sequence of the moment they are
   sent (`api/market.py:181`), so an update may carry the sequence of a frame sent before
   it, and the browser drops it as a duplicate.
4. `PrefixInvariance`: the simulation settles plans in the order they were made, each against all
   candles of the run (`simulation.py:61-113`), so a plan that was still waiting for its price when a run
   was cut off may fill in a longer run and exclude trades the shorter one had closed.
   `CURRENT_BATCH.md:67`, `:75-76` and `:543` say that an outcome is visible only after its time and that
   the future cannot change the result of a prefix. `OnlyPendingRevised` proves that this is the only way it can.

Remarks that no run states as a disagreement:

- `persist_risk_decision` keeps an expired row of the same id, whatever was decided now, and the reservation
  is written under it (`risk/repository.py:258`): an active reservation may belong to a decision stored as
  BLOCKED, against `portfolio.py:371-375`. `ReservationMatchesDecision` in `RiskEvaluation.tla` says so.
- Outside PAPER mode a caller's `as_of` ahead of the clock makes reservations that are live look expired
  (`api/risk.py:79`), and the limits of the account can be exceeded; `WithinCapacity` is about PAPER mode. What holds in
  every mode is that an approval is within the limits as of the instant it names (`ApprovalsFitAlways`).
- `simulation.py:51` reads candles up to `stop_at`, which may lie beyond the replay's own cutoff.
- `CURRENT_BATCH.md` says that strategy invalidation cancels an unfilled plan, and that a lower
  timeframe decides between stop and target within one candle. The simulation does neither.
- A pattern that failed can later be confirmed (`patterns.py`). A swing stays a confirmed
  key level after the liquidity at its price was swept. The identities of key levels never equal an
  entry's or a stop's, so `structural_plan` excludes nothing by them.
- The risk replay counts cancelled events among the blackouts. A weekly loss blocks and never trips
  the kill switch. The safety state may read POST_NEWS_SPREAD_BLOCKED while a blackout decides the codes.
- Rounding down to the tick may make `entry_lower` zero, which the validator of a plan refuses by raising.
- In PAPER mode ACCOUNT_STALE can block only when the refresh of the account has failed (`OnlyAFailedRefreshIsStale`).
  `update_paper_account_state` and `validate_resource_usage` have no caller.

## 4. Proofs

TLAPS proves, for every value of the constants under the named assumptions of the modules:

- `KillSwitchProofs`. The inductive invariant `Inv` adds to the types who holds
  which lock in which step, and that a transaction with a pending record holds the
  advisory lock and its record is later than the ledger's last and differs from
  it in state. From this follow `LatestIsLast`, `ActionsAlternate`,
  `TrippingEvaluationSeesActive`, and the step-by-step refinement
  `ImplementsRegister`: a commit is `Trip`, `Clear`, `StaleQuote`, `HealthyQuote` or a stutter.
  `ActionsAlternate` alone is not inductive, since it says nothing about the
  record that is about to be committed.
- `RiskEvaluationProofs`. `IInv` states that stored rows are unique by decision and by
  active candidate, that an evaluation past a lock holds it, and that under the
  candidate's lock the transitions it counted are the current ones.
  `EndedGetsNothing` follows because an evaluation that counted a transition is
  blocked, and a cached approval has a fingerprint without one; `NoRevivalAcrossActivation`
  because the fingerprint contains the switch record.
- `RiskEvaluationProofs`, account authority, from `AuthorityAssumption` and a store of the right shape. `RefreshKeepsStore`:
  a refresh, the bootstrap of a first paper state included, keeps one state per account and one
  account per version; the new state is the newest snapshot under its own version, so every
  snapshot of that version agrees with it. `RefreshedIsFresh`: what is read afterwards is not older than the
  limit. `RefreshedShowsState`: it shows the state, if no snapshot is from the future of the request.
  `OnlyAFailedRefreshIsStale` applies this to every situation of an evaluation: an old snapshot is judged only
  if it was there before, too old, and the refresh failed.
- `RefreshSessionsProofs`. `IInv` ties a request past `Acquire` to the user's lock,
  a decided rotation to a token that is still unspent, and the targets of a
  revocation to all unspent sessions of the families concerned. Hence
  `OneUnspentPerFamily`, `RevokedFamilyStaysOver` and the action property
  `RevocationIsComplete`. `ImplementsFamilies` follows step by step: one unspent session per family makes
  `Current` its session, a login opens, a rotation moves on, and whatever else writes only takes
  unspent sessions away, which ends families (`LossEnds`). It needs that a family's name is a row of the
  family itself (`Families`) and that nulls are no identifiers (`NullsAssumption`, `NoFamilyAssumption`).

- `RiskEvaluationProofs`, capacity. `WithinCapacity` alone is not inductive: a cached approval is reserved
  again without a look at the limits. `CInv` adds that every stored decision that grants risk is
  `Affordable` next to whatever its fingerprint admits, which is why the fingerprint has to hold
  the totals: an approval fits as of the now of its evaluation (`ApprovalsFit`, in every mode), and in
  PAPER mode no evaluation is ahead of the clock, so that it fits as of the clock too. `Risk` is a recursive sum over a set: `RiskUnfolds` shows that its function exists, and from
  there the sum of two sets of rows, of a set without a row and of a subset follow.
- `AnalysisBudgetProofs`. `IInv` joins `BooksBalance`, `SlotsAccounted`, `FairFunding` and
  `AnswerIsTruthful` with what a call may look like in each stage of the request (`Stages`) and which calls a
  funding pass has reached (`Passes`). Sums over agents are unfolded one agent at a time.
- `AuthTabsProofs`. `IInv` says that only the first request has the lock (`Line`), that every session is of a family that was
  opened (`Sessions`), that the cookie is the newest of its family unless an answer was lost (`HonestCookie`), and, tab by
  tab (`Rest`), that what a tab holds is the cookie's or news of its end is on its way. `Waiting` adds that whoever waits is queued.
  The requests of a closed document leave the queue (`Without`): the rest keep their order
  (`WithoutThins`). The proof found a step the model had left out, now in `CallRejected`: a call rejected
  while a refresh of its tab is under way joins it.
- `MarketFeedProofs`. `EngineAt(e, K, m)` says that the engine has folded exactly the seconds `K`, up to
  `m`, into the bars of every timeframe that are still open; it holds of an engine built from the
  history (`SeedKnows`, by induction over the fold), and a tick keeps it. `RowsFold` carries it to the
  stored rows: `BarsAreTheirTicks`. `NoHoleWhileQuoted` rests on the gap check: the quote is within the tolerances
  of the read before it, a tick that passes the check is at most the gap later, so that two reads are at most
  a bar of the base timeframe apart (`ReadsFitABar`), and the last two bars of the broker cover the way; a bar that
  has closed by one read is never read short again (`Settled`). For `ClosedBarsAreFinal`, a closed row holds every second of its bucket that was
  ever known (`ClosedRows`), and ticks in order are determined by their seconds (`TicksAreUnique`).
  `ToldOrComplete` needs `Owed` for each consumer: what it has taken, what is queued and what it served join up.
- `DataInduction`. The library states induction with an operator parameter, which the provers cannot
  instantiate; `SetInduction` states it of the set of numbers for which a fact holds. That suffices to
  show that a recursive function exists and equals its own equation up to any number (`Recursion`, for
  a rule given as a function), that it keeps what its rule keeps (`RecursionKeeps`), and then to reason about
  what it computes. `MinOfNaturals`, `FiniteExtrema` and `ExtremaOfTwo` say what the CHOOSE of `Min` and `Max` returns.
- `BacktestProofs`, from `StructureAssumption`, `StrategyAssumption` and `CostsAssumption`
  (the ranges the validators of the three configurations admit) and
  `DataSetsAssumption` (a data set has the shape of `ReplayInputs`): for any number of data sets, candles and events, any
  windows and any cap on the objects kept. The induction is over `ClockInv` (`ClockRuns`): the candles are in order with
  nothing but the data set's missing bars between them and end by the cutoff, and the last event is what the engine decides now.
  None of the properties is inductive without it: they speak of the candles the engine no longer looks at.
  - `BacktestTypes`: the bars between two candles are missing in the data set; `ReconcileContinuity` admits a
    governed one only inside a gap the manifest declares as expected.
  - `FatesAreHistory`: a new candle is later than all before, and `Feed` either takes a level or zone to
    `LevelAfter` or `ZoneAfter` of it or adds one confirmed at its close; the cap only drops some. So the first deciding
    candle stays the first (`LevelFateStep`, `ZoneFateStep`).
  - `NoLookAhead`: a data set and its blinded copy agree on `VisibleCoarse`, `LatestKnown`, `ObservedBy`, `QuoteAt` and
    `RiskNewsAt` at the event's time, and the decision and the verdict read nothing else. That
    the coarse bars reach as far as the clock needs `Admitted`.
  - `StructureEarned`: `Earned` adds to the property what makes it inductive. The latest swing of a side is the extremum of
    the candles from its own to its confirmation and, unless it is the broken one, no candle has closed beyond it
    since; hence no candle breaks both sides of a scope (`OneSided`). The swing of an event is the latest
    of its side and broken, or the latest was confirmed after the event; hence no second break. The chain and the
    trend are stated by position, so that the cap keeps them (`ChainCapped`, `TrendCapped`).
  - `TradesExecutable`: each settled event leaves trades that are `Honest`, with every closed one over before the next is
    planned (`OnePosition`); the account is the sum of the trades, its peak and its drawdowns those of the balances
    so far (`Booked`), and the counter of a streak knows the current and the longest run of wins (`Knows`).
  - `OnlyPendingRevised`: as long as no waiting plan has been filled, the simulations of a run and of the run one candle
    longer have their account occupied until the same time, or until the end of each (`Near`), and so settle each event alike.

Only model-checked: liveness (`TransactionsEnd`, `EvaluationsEnd`, `RequestEnds`, `ToldConsumersLeave`),
which is out of this prover's reach. Every safety invariant and action property of a passing run is proved.

## 5. Not modelled, and why

See "components" in `PROJECT.json`. HTTP, prompts, parsing, configuration and screens keep no shared
state of their own; migrations are run once by an operator; the polling of calendars is one
task without shared writers.

- *AI.* What agents conclude, the assembly of their input (whose reads are separate statements of a READ COMMITTED
  transaction), other requests at the same limiter.
- *Analysis, news, strategy.* The indicators but the true range, which is a constant; triangles, wedges and
  flags; `pattern_lookback` and the expiry of patterns; the volatility-extreme regimes and MUTED; the
  weights of revisions in a group's bias; scores and texts. The code keeps windows of at least 150
  and 300 bars, which no data set fills, and 32 objects, which none reaches.
- *Backtest.* Fingerprints, resource limits, and the runner: a run is stored once, at its end, so a
  cancellation never meets it. Windows shorter than a bar do not exist in bars.
- *Risk.* Decimal rounding, texts, the order of reasons, audit records. A decision records only the observation
  of its situation, not each fact. Half a quantum of risk cannot be said, so only the
  capacity run has a release ahead. The read endpoints, which reserve nothing.
- *Strategy persistence.* The new candidate of the strategy transaction and its locks on it.
- *Front end.* The recovery without Web Locks (pages outside a secure context) and `fetchMe`, which no
  screen calls; the chart's back-off, watchdog and first REST page.

Abstractions inside the models: money and volume are small integers; tokens stand for every resource of
the budget.

## 6. Plan

Done: everything above. What is left, most useful first:

1. The directional limit through the decision cache: the fingerprint holds the total exposure
   only, so a cached approval may exceed the limit of a side (`portfolio.py:384`).
2. Lock order of the strategy transaction against evaluations, with the row locks of
   reservations as steps of their own (`strategy/repository.py:102`).
3. `MarketFeed`: an abstract channel that delivers in order or tells of its end, as a refinement;
   the gap between initialization and first tick (`market_data/service.py:189`); the chart after a
   reconnection, with the REST page.
4. The assembler of an analysis's input, whose contexts are read one after the other.
5. Triangles, wedges and flags, and the lifetime of patterns.
