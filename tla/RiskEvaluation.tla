---------------------------- MODULE RiskEvaluation ----------------------------
(***************************************************************************)
(* POST /risk/evaluate from its first lock to its commit, together with    *)
(* the two other writers of what it reads: the strategy transaction that   *)
(* ends a candidate and releases its reservations, and the administrator   *)
(* who trips or clears the kill switch.                                    *)
(*                                                                         *)
(* Evaluations of one account are serialized by its advisory lock, those   *)
(* of one candidate by its row; every lock lives to the end of the         *)
(* transaction.  Their reads are READ COMMITTED.  The strategy transaction *)
(* is REPEATABLE READ: it sees the reservations of its first query, made   *)
(* long before it locks the candidate, and PostgreSQL refuses it a row     *)
(* that changed in between.                                                *)
(*                                                                         *)
(* Only XAUUSD is traded, so the risk reserved on the symbol is the risk   *)
(* reserved on the account.  The ledger of the kill switch is the subject  *)
(* of KillSwitch.tla; here a switch is a state and the identity of the     *)
(* record it was read from.                                                *)
(***************************************************************************)
EXTENDS AccountAuthority, FiniteSetsExt

CONSTANTS
    TradingMode,         \* settings.trading_mode
    AsOf,                \* instants a request may name as its own: body.as_of
    Workers,             \* concurrent evaluations
    Accounts,            \* canonical account ids
    Candidates,          \* trade candidates with a plan
    Direction,           \* Direction[c]: side of the plan of c
    PlanExpiry,          \* PlanExpiry[c]: plan.expires_at
    Requests,            \* requested risk, in quanta of risk
    Situations,          \* what a request may find: see BuildLivePureInput
    Sizable,             \* risks from which calculate_position_size makes a valid volume
    MinRisk,             \* RiskPolicy.min_risk_per_trade_pct
    MaxRisk,             \* RiskPolicy.max_risk_per_trade_pct
    MaxAccountRisk,      \* RiskPolicy.max_account_risk_pct
    MaxSymbolRisk,       \* RiskPolicy.max_symbol_risk_pct
    MaxDirectionalRisk,  \* RiskPolicy.max_directional_risk_pct
    MaxConcurrent,       \* RiskPolicy.max_concurrent_trades
    TTL,                 \* RiskPolicy.reservation_ttl_seconds
    MaxTime,             \* bound on the clock
    MaxTransitions,      \* bound on the lifecycle transitions of a candidate
    MaxSwitches,         \* bound on the kill-switch records
    MaxDecisions,        \* bound on the decisions ever stored
    HealthRow,           \* the data-health row of the market-data source
    SwitchAction,        \* the advisory lock 'kill_switch_action'
    Nobody               \* no holder

Lock == Accounts \cup Candidates \cup {HealthRow, SwitchAction}

\* The settings refuse to start in LIVE mode.
ASSUME ModeAssumption == TradingMode \in {"PAPER", "BACKTEST", "SEMI_AUTO"} /\ AsOf \subseteq Nat

\* Kinds of lock never coincide; RiskPolicy.validate_policy orders the limits.
ASSUME LocksAssumption ==
    /\ Accounts \cap Candidates = {}
    /\ {HealthRow, SwitchAction} \cap (Accounts \cup Candidates) = {}
    /\ HealthRow # SwitchAction
    /\ Nobody \notin Workers
ASSUME PolicyAssumption ==
    /\ {MinRisk, MaxRisk, MaxAccountRisk, MaxSymbolRisk, MaxDirectionalRisk,
        MaxConcurrent, TTL} \subseteq Nat \ {0}
    /\ MinRisk <= MaxRisk /\ MaxRisk <= MaxAccountRisk
    /\ MaxSymbolRisk <= MaxAccountRisk /\ MaxDirectionalRisk <= MaxAccountRisk
ASSUME InputsAssumption ==
    /\ Requests \subseteq Nat \ {0}
    /\ PlanExpiry \in [Candidates -> Nat]
    /\ MaxTime \in Nat /\ {MaxTransitions, MaxSwitches, MaxDecisions} \subseteq Nat

VARIABLES
    clock,         \* UTC clock of the hosts
    switch,        \* latest committed kill-switch record
    transitions,   \* transitions[c]: committed lifecycle transitions of c
    reservations,  \* committed risk_reservations
    decisions,     \* committed risk_decisions
    holder,        \* holder[l]: the evaluation that holds lock l
    work,          \* work[w]: the evaluation w is running
    analysis       \* the strategy transaction

vars == <<clock, switch, transitions, reservations, decisions, holder, work, analysis>>

SwitchState == {"UNKNOWN", "ACTIVE", "INACTIVE"}
Switch == [state : SwitchState, id : Nat]

\* What an evaluation finds when it gathers its context: nothing to object to,
\* a fact that blocks it, or a loss that also trips the kill switch.
Observation == {"SAFE", "UNFIT", "BREACH"}

\* compute_risk_dependency_fingerprint: what a decision depends on.  The count of
\* transitions stands for the status too, every transition being terminal.
DecisionId ==
    [account : Accounts, cand : Candidates, transitions : Nat, switch : Switch,
     observed : Observation, expired : BOOLEAN, exposure : Nat, target : Nat]

\* A decision that approves no risk is BLOCKED.
Decision == [id : DecisionId, risk : Nat, expires : Nat]
Reservation ==
    [decision : DecisionId, account : Accounts, cand : Candidates, risk : Nat,
     status : {"ACTIVE", "RELEASED"}, until : Nat]

\* seen: the switch as re-read after the automatic triggers; lifecycle: the
\* transitions counted under the row lock of the candidate.
Step == {"account", "candidate", "context", "decide"}
Idle == [step |-> "idle"]
Evaluation ==
    [step : Step, account : Accounts, cand : Candidates, target : Nat, now : Nat,
     lifecycle : Nat, observed : Observation, trips : BOOLEAN, seen : Switch]

\* visible: accounts with an ACTIVE reservation of the candidate in the snapshot;
\* conflict: such a reservation has been rewritten since.
Analysis ==
    [step : {"analysing"}, cand : Candidates, visible : SUBSET Accounts, conflict : BOOLEAN]

TypeOK ==
    /\ clock \in Nat
    /\ switch \in Switch
    /\ transitions \in [Candidates -> Nat]
    /\ reservations \subseteq Reservation
    /\ decisions \subseteq Decision
    /\ holder \in [Lock -> Workers \cup {Nobody}]
    /\ work \in [Workers -> Evaluation \cup {Idle}]
    /\ analysis \in Analysis \cup {Idle}

-----------------------------------------------------------------------------
(* The context *)

\* pure_quote_from_live: the last quote, if there is one.
PureQuoteFromLive(quotes) ==
    IF quotes = {} THEN [available |-> FALSE]
    ELSE LET q == CHOOSE q \in quotes : TRUE
         IN  [available |-> TRUE, time |-> q.time, spread |-> q.ask - q.bid]

\* pure_news_from_live: without a calendar that is up to date, nothing is known.
PureNewsFromLive(news) ==
    IF news.calendar = "AVAILABLE" THEN [available |-> TRUE, events |-> news.events]
    ELSE [available |-> FALSE, events |-> {}]

\* A snapshot with its age is the account of the policy.
AccountOf(r) ==
    [x \in DOMAIN r.economics \cup {"at"} |-> IF x = "at" THEN r.at ELSE r.economics[x]]

\* Whoever may only look on is refused before an account is looked up.
Authorized(s) ==
    IF s.caller.role = "VIEWER" THEN {} ELSE ResolveCanonicalAccount(s.store, s.ref, s.caller)

\* In PAPER mode the account is observed anew first, by any reference to it.  An
\* exception there is swallowed, and what was stored before is judged.
Observed(s, account) ==
    IF TradingMode = "PAPER"
    THEN {s.store, RefreshPaperAccountSnapshot(s.store, account, 0, AccountFreshness)}
    ELSE {s.store}

\* The snapshots an evaluation of the account may come to judge.
Judged(s, account) ==
    UNION {AuthoritativeAccountSnapshot(store, account.id) : store \in Observed(s, account)}

\* A situation is [caller, ref, store, quotes, news, specs, market]: the request, and
\* what is stored and known; its times are relative to the now of the evaluation.
BuildLivePureInput(s, snapshot, spec) ==
    [at |-> 0, quote |-> PureQuoteFromLive(s.quotes), newsRisk |-> TRUE,
     news |-> PureNewsFromLive(s.news), account |-> AccountSnapshot(AccountOf(snapshot)),
     spec |-> spec]

\* evaluate_risk up to the engine.  An account that is not the caller's, has never
\* been observed, or a symbol without a specification refuses the request.
Inputs(s) ==
    {BuildLivePureInput(s, r, spec) :
        r \in UNION {Judged(s, a) : a \in Authorized(s)},
        spec \in AuthoritativeSymbolSpec(s.specs, s.market, 0)}

ASSUME SituationsAssumption ==
    \A s \in Situations :
        Store(s.store) /\ \A f \in Inputs(s) : PureRiskEvaluationInput(f)

Observe(f) ==
    IF LossTrips(f) THEN "BREACH" ELSE IF BlockedCodes(f) # {} THEN "UNFIT" ELSE "SAFE"

\* What an evaluation makes of its input; of the news, only what is ahead counts.
Finding(f) ==
    [observed |-> Observe(f), stale |-> QuoteIsStale(f),
     news |-> IF NewsState(f) = "PRE" THEN "PRE" ELSE "CALM"]

Findings == {Finding(f) : f \in UNION {Inputs(s) : s \in Situations}}

-----------------------------------------------------------------------------
(* Reservations *)

Active(a, c) ==
    {r \in reservations : r.account = a /\ r.cand = c /\ r.status = "ACTIVE"}

\* get_active_reservations: the ones that still count at now.
Live(a, now) ==
    {r \in reservations : r.account = a /\ r.status = "ACTIVE" /\ r.until > now}

Risk(rows) == MapThenSumSet(LAMBDA r : r.risk, rows)

\* Fault: a withdrawn reservation gets a status the schema does not know.
WithdrawnRows(rows) == {[r EXCEPT !.status = "WITHDRAWN"] : r \in rows}

Released(rows) == {[r EXCEPT !.status = "RELEASED"] : r \in rows}

\* release_candidate_reservations.
Release(rows) == (reservations \ rows) \cup Released(rows)

\* Fault: a second row is inserted beside the active one.
ReserveBeside(d, a, c, risk, until) ==
    (reservations \ {r \in reservations : r.decision = d})
        \cup {[decision |-> d, account |-> a, cand |-> c, risk |-> risk,
               status |-> "ACTIVE", until |-> until]}

\* create_reservation: the row that already carries the decision is reactivated
\* and supersedes the active row of the candidate; without one, the active row is
\* rewritten for the new decision, or a row is inserted.
Reserve(d, a, c, risk, until) ==
    LET exact == {r \in reservations : r.decision = d}
        row == [decision |-> d, account |-> a, cand |-> c, risk |-> risk,
                status |-> "ACTIVE", until |-> until]
        superseded == IF exact = {} THEN {} ELSE Released(Active(a, c) \ exact)
    IN  (reservations \ (exact \cup Active(a, c))) \cup superseded \cup {row}

-----------------------------------------------------------------------------
(* The decision *)

\* portfolio_snapshot_from_live: the one live row of the candidate itself is the
\* row of the retry and does not count.
Effective(a, c, now) ==
    LET own == {r \in Live(a, now) : r.cand = c}
    IN  IF Cardinality(own) = 1 THEN Live(a, now) \ own ELSE Live(a, now)

Duplicated(rows) == \E r, s \in rows : r # s /\ r.cand = s.cand

\* _portfolio_capacity: the limits leave room for one more trade of that risk.
Fits(a, c, now, risk) ==
    LET rows == Effective(a, c, now)
        side == {r \in rows : Direction[r.cand] = Direction[c]}
    IN  /\ ~Duplicated(rows)
        /\ Cardinality(rows) < MaxConcurrent
        /\ Risk(rows) + risk <= MaxAccountRisk
        /\ Risk(rows) + risk <= MaxSymbolRisk
        /\ Risk(side) + risk <= MaxDirectionalRisk

\* The target, the cap per trade or what the tightest limit leaves, if that is not
\* below the minimum and makes a valid volume.
Granted(a, c, now, target) ==
    LET risk == Max({r \in 0..Min({target, MaxRisk}) : Fits(a, c, now, r)})
    IN  IF Fits(a, c, now, MinRisk) /\ risk \in Sizable THEN risk ELSE 0

\* The conditions that block whatever room is left.
Blocked(e) ==
    \/ e.seen.state # "INACTIVE"
    \/ e.lifecycle > 0
    \/ e.observed # "SAFE"
    \/ PlanExpiry[e.cand] <= e.now

\* Fault: the fingerprint ignores what other candidates have reserved.
FingerprintWithoutExposure(e) ==
    [account |-> e.account, cand |-> e.cand, transitions |-> e.lifecycle, switch |-> e.seen,
     observed |-> e.observed, expired |-> PlanExpiry[e.cand] <= e.now,
     exposure |-> 0,
     target |-> e.target]

\* Fault: the fingerprint ignores the kill switch.
FingerprintWithoutSwitch(e) ==
    [account |-> e.account, cand |-> e.cand, transitions |-> e.lifecycle, switch |-> [state |-> "INACTIVE", id |-> 0],
     observed |-> e.observed, expired |-> PlanExpiry[e.cand] <= e.now,
     exposure |-> Risk({r \in Live(e.account, e.now) : r.cand # e.cand}),
     target |-> e.target]

Fingerprint(e) ==
    [account |-> e.account, cand |-> e.cand, transitions |-> e.lifecycle, switch |-> e.seen,
     observed |-> e.observed, expired |-> PlanExpiry[e.cand] <= e.now,
     exposure |-> Risk({r \in Live(e.account, e.now) : r.cand # e.cand}),
     target |-> e.target]

\* A fresh decision; only an approval is cut short by the expiry of the plan.
Fresh(e) ==
    LET risk == IF Blocked(e) THEN 0 ELSE Granted(e.account, e.cand, e.now, e.target)
    IN  [id |-> Fingerprint(e), risk |-> risk,
         expires |-> IF risk = 0 THEN e.now + TTL ELSE Min({PlanExpiry[e.cand], e.now + TTL})]

\* find_existing_decision: the unexpired decision of the same fingerprint.
Cached(e) == {d \in decisions : d.id = Fingerprint(e) /\ d.expires > e.now}

\* A cached approval reserves no longer than it lives itself.
Until(e) ==
    IF Cached(e) = {} THEN e.now + TTL
    ELSE Min({e.now + TTL, (CHOOSE d \in Cached(e) : TRUE).expires})

Verdict(e) == IF Cached(e) = {} THEN Fresh(e) ELSE CHOOSE d \in Cached(e) : TRUE
-----------------------------------------------------------------------------
(* The evaluation *)

Take(w, locks) == holder' = [l \in Lock |-> IF l \in locks THEN w ELSE holder[l]]
Free(locks) == \A l \in locks : holder[l] = Nobody

\* Fault: the end of a transaction keeps the lock of the data-health row.
EndKeepingHealthRow(w) ==
    /\ holder' = [l \in Lock |-> IF holder[l] = w /\ l # HealthRow THEN Nobody ELSE holder[l]]
    /\ work' = [work EXCEPT ![w] = Idle]

\* Commit and rollback alike free every lock of the transaction.
End(w) ==
    /\ holder' = [l \in Lock |-> IF holder[l] = w THEN Nobody ELSE holder[l]]
    /\ work' = [work EXCEPT ![w] = Idle]

Init ==
    /\ clock = 0
    /\ switch \in [state : {"UNKNOWN", "INACTIVE"}, id : {0}]
    /\ transitions = [c \in Candidates |-> 0]
    /\ reservations = {}
    /\ decisions = {}
    /\ holder = [l \in Lock |-> Nobody]
    /\ work = [w \in Workers |-> Idle]
    /\ analysis = Idle

\* The now of an evaluation is fixed before it waits for anything: the clock, or outside
\* PAPER mode whatever instant the caller names.
BeginEvaluation(w, a, c, target, now) ==
    /\ work[w] = Idle
    /\ TradingMode = "PAPER" => now = clock
    /\ Cardinality(decisions) + Cardinality({v \in Workers : work[v] # Idle}) < MaxDecisions
    /\ work' = [work EXCEPT ![w] =
                  [step |-> "account", account |-> a, cand |-> c, target |-> target,
                   now |-> now, lifecycle |-> 0, observed |-> "SAFE", trips |-> FALSE,
                   seen |-> [state |-> "UNKNOWN", id |-> 0]]]
    /\ UNCHANGED <<clock, switch, transitions, reservations, decisions, holder, analysis>>

LockAccount(w) ==
    /\ work[w].step = "account"
    /\ Free({work[w].account})
    /\ Take(w, {work[w].account})
    /\ work' = [work EXCEPT ![w].step = "candidate"]
    /\ UNCHANGED <<clock, switch, transitions, reservations, decisions, analysis>>

\* Fault: the lifecycle is read without the row lock (for_update=False).
ResolveUnlocked(w) ==
    /\ work[w].step = "candidate"
    /\ work' = [work EXCEPT ![w].step = "context", ![w].lifecycle = transitions[work[w].cand]]
    /\ UNCHANGED <<clock, switch, transitions, reservations, decisions, holder, analysis>>

\* resolve_candidate_current_lifecycle(for_update=True).
ResolveCandidate(w) ==
    LET c == work[w].cand
    IN  /\ work[w].step = "candidate"
        /\ Free({c})
        /\ Take(w, {c})
        /\ work' = [work EXCEPT ![w].step = "context", ![w].lifecycle = transitions[c]]
        /\ UNCHANGED <<clock, switch, transitions, reservations, decisions, analysis>>

Tripped == IF switch.state = "ACTIVE" THEN switch
           ELSE [state |-> "ACTIVE", id |-> switch.id + 1]

\* The automatic triggers, then the state of the switch as they leave it.  A loss
\* always trips it, a quote that is not safe at the end of a streak; unless it is a
\* loss, the streak is counted in the data-health row first.
GatherContext(w, found, trips) ==
    LET locks == (IF found.observed = "BREACH" THEN {} ELSE {HealthRow})
                   \cup (IF trips THEN {SwitchAction} ELSE {})
    IN  /\ work[w].step = "context"
        /\ found.observed = "BREACH" => trips
        /\ trips => (found.observed = "BREACH" \/ found.stale) /\ Tripped.id <= MaxSwitches
        /\ Free(locks)
        /\ Take(w, locks)
        /\ work' = [work EXCEPT ![w].step = "decide", ![w].observed = found.observed,
                                ![w].target = TargetRisk(found.news, @), ![w].trips = trips,
                                ![w].seen = IF trips THEN Tripped ELSE switch]
        /\ UNCHANGED <<clock, switch, transitions, reservations, decisions, analysis>>

\* An evaluation rewrites the reservation that the strategy transaction saw.
Collides(e) ==
    analysis.step = "analysing" /\ analysis.cand = e.cand /\ e.account \in analysis.visible

\* The live reservations are locked and read, the decision made or found again, its
\* reservation written or withdrawn, and everything committed.  A decision whose
\* identity is already stored is left as it is, expired or not.
Decide(w) ==
    LET e == work[w]
        d == Verdict(e)
    IN  /\ e.step = "decide"
        /\ reservations' = IF d.risk = 0 THEN Release(Active(e.account, e.cand))
                           ELSE Reserve(d.id, e.account, e.cand, d.risk, Until(e))
        /\ decisions' = IF \E x \in decisions : x.id = d.id THEN decisions
                        ELSE decisions \cup {d}
        /\ switch' = IF e.trips THEN e.seen ELSE switch
        /\ analysis' = IF Collides(e) THEN [analysis EXCEPT !.conflict = TRUE] ELSE analysis
        /\ End(w)
        /\ UNCHANGED <<clock, transitions>>

\* A request that fails, at any point, leaves nothing behind.
AbortEvaluation(w) ==
    /\ work[w] # Idle
    /\ End(w)
    /\ UNCHANGED <<clock, switch, transitions, reservations, decisions, analysis>>

-----------------------------------------------------------------------------
(* The other writers *)

\* current() opens its snapshot, then analyses for seconds.
BeginAnalysis(c) ==
    /\ analysis = Idle
    /\ analysis' = [step |-> "analysing", cand |-> c,
                    visible |-> {a \in Accounts : Active(a, c) # {}}, conflict |-> FALSE]
    /\ UNCHANGED <<clock, switch, transitions, reservations, decisions, holder, work>>

\* _persist_projection locks the predecessor, records its transition, releases the
\* reservations its snapshot shows and commits.
EndCandidate ==
    LET c == analysis.cand
    IN  /\ analysis.step = "analysing"
        /\ transitions[c] < MaxTransitions
        /\ Free({c})
        /\ ~analysis.conflict
        /\ transitions' = [transitions EXCEPT ![c] = @ + 1]
        /\ reservations' = Release(UNION {Active(a, c) : a \in analysis.visible})
        /\ analysis' = Idle
        /\ UNCHANGED <<clock, switch, decisions, holder, work>>

\* No transition is due, the request fails, or a rewritten reservation makes
\* PostgreSQL refuse to serialize it.
AbandonAnalysis ==
    /\ analysis.step = "analysing"
    /\ analysis' = Idle
    /\ UNCHANGED <<clock, switch, transitions, reservations, decisions, holder, work>>

\* The kill-switch endpoints; asking for the state it is in does nothing.
SetSwitch(state) ==
    /\ Free({SwitchAction})
    /\ switch.state # state
    /\ switch.id < MaxSwitches
    /\ switch' = [state |-> state, id |-> switch.id + 1]
    /\ UNCHANGED <<clock, transitions, reservations, decisions, holder, work, analysis>>

Tick ==
    /\ clock < MaxTime
    /\ clock' = clock + 1
    /\ UNCHANGED <<switch, transitions, reservations, decisions, holder, work, analysis>>

-----------------------------------------------------------------------------

Advance(w) ==
    \/ LockAccount(w)
    \/ ResolveCandidate(w)
    \/ \E found \in Findings, trips \in BOOLEAN : GatherContext(w, found, trips)
    \/ Decide(w)

Next ==
    \/ \E w \in Workers :
          \/ \E a \in Accounts, c \in Candidates, t \in Requests, now \in AsOf \cup {clock} :
                BeginEvaluation(w, a, c, t, now)
          \/ Advance(w)
          \/ AbortEvaluation(w)
    \/ \E c \in Candidates : BeginAnalysis(c)
    \/ EndCandidate
    \/ AbandonAnalysis
    \/ \E state \in {"ACTIVE", "INACTIVE"} : SetSwitch(state)
    \/ Tick

\* PostgreSQL queues the waiters of a lock, so a step that waits is not passed over
\* for ever; the other steps only need the request to run.
Fairness == \A w \in Workers : SF_vars(Advance(w))

Spec == Init /\ [][Next]_vars
FairSpec == Spec /\ Fairness
-----------------------------------------------------------------------------
(* Properties *)

\* The unique indexes of risk_reservations never refuse a row: an account holds one
\* active reservation per candidate and a decision owns one reservation, over every
\* supersession, release and reactivation.
UniqueRows ==
    \A r, s \in reservations :
        \/ r.decision = s.decision
        \/ r.status = "ACTIVE" /\ s.status = "ACTIVE" /\ r.account = s.account /\ r.cand = s.cand
        => r = s

\* In PAPER mode what counts against an account never exceeds its limit nor that of the
\* symbol, although a cached approval is reserved again without looking at the limits:
\* its fingerprint pins the risk reserved for the other candidates.  In the other modes
\* the instant the caller names decides which reservations still count, and an instant
\* ahead of the clock overlooks live ones.
WithinCapacity ==
    TradingMode = "PAPER" =>
        \A a \in Accounts :
            Risk(Live(a, clock)) <= MaxAccountRisk /\ Risk(Live(a, clock)) <= MaxSymbolRisk

\* In every mode an approval, made now or found again, leaves the account within its
\* limits as of the now of the evaluation.
ApprovalsFit ==
    [][\A w \in Workers : work[w].step = "decide" /\ work'[w] = Idle =>
          \A r \in reservations' \ reservations, now \in {work[w].now} :
             r.status = "ACTIVE" =>
                /\ Risk(Live(r.account, now)') <= MaxAccountRisk
                /\ Risk(Live(r.account, now)') <= MaxSymbolRisk]_vars

\* No step makes, rewrites or reactivates an active reservation of a candidate whose
\* end is committed, however the evaluation and the strategy transaction interleave.
EndedGetsNothing ==
    [][\A r \in reservations' : r.status = "ACTIVE" /\ transitions[r.cand] > 0
          => r \in reservations]_vars

\* Risk is only reserved for a decision made under the very switch record that the
\* evaluation re-read: a decision from before an activation is never revived after
\* the switch has been cleared.
NoRevivalAcrossActivation ==
    [][\A w \in Workers : work[w].step = "decide" /\ work'[w] = Idle =>
          \A r \in reservations' \ reservations :
              r.status = "ACTIVE" =>
                  r.decision.switch = work[w].seen /\ work[w].seen.state = "INACTIVE"]_vars

\* Every evaluation ends, the two it may wait for included.
EvaluationsEnd == \A w \in Workers : work[w] # Idle ~> work[w] = Idle

(* What the repository says and the code does not do *)

\* create_reservation: an approval corresponds to one reservation of the same risk.  It
\* fails when an evaluation meets an expired decision of its own fingerprint; no run.
ReservationMatchesDecision ==
    \A r \in reservations : r.status = "ACTIVE" =>
        \E d \in decisions : d.id = r.decision /\ d.risk = r.risk

\* repository.py: the lock on the predecessor serializes its end with evaluations, so
\* that no reservation of it survives.
EndedHoldsNothing ==
    \A r \in reservations : r.status = "ACTIVE" => transitions[r.cand] = 0
=============================================================================
