------------------------------ MODULE KillSwitch ------------------------------
(***************************************************************************)
(* services/risk/kill_switch.py with its two callers: the administrator    *)
(* endpoints of api/risk.py and the automatic triggers that every risk     *)
(* evaluation runs.                                                        *)
(*                                                                         *)
(* The switch has no row that is updated: each action appends a record to  *)
(* kill_switch_records and the state of the switch is the record with the  *)
(* greatest timestamp.  Timestamps come from the clock of whichever worker *)
(* acts, so they are arbitrary here: what makes "greatest timestamp" mean  *)
(* "last action" is the advisory lock, held to the end of the transaction, *)
(* together with the bump past the previous record.  Reads and writes are  *)
(* PostgreSQL READ COMMITTED: a transaction sees what is committed and its *)
(* own pending rows.                                                       *)
(***************************************************************************)
EXTENDS Naturals, Sequences, FiniteSets

CONSTANTS
    Workers,      \* concurrent requests (of one or of several processes)
    Sources,      \* (provider, source) pairs with a data-health row
    Threshold,    \* RiskPolicy.data_health_consecutive_failures
    MaxClock,     \* bound: worker clocks read 0..MaxClock
    MaxRecords,   \* bound on the records ever written
    MaxFailures,  \* bound on a stale streak
    Nobody,       \* no lock holder
    NoRecord      \* no pending row

ASSUME ThresholdAssumption == Threshold \in Nat \ {0}
ASSUME BoundsAssumption == MaxClock \in Nat /\ MaxRecords \in Nat /\ MaxFailures \in Nat
VARIABLES
    ledger,       \* committed kill_switch_records, in commit order
    failures,     \* committed data_health_records.consecutive_failures
    switchLock,   \* holder of the advisory lock 'kill_switch_action'
    rowLock,      \* holder of each data_health_records row lock
    txn           \* what each worker's transaction has done so far

vars == <<ledger, failures, switchLock, rowLock, txn>>

SwitchState == {"UNKNOWN", "ACTIVE", "INACTIVE"}
Record == [state : {"ACTIVE", "INACTIVE"}, at : Nat]
ASSUME NullsAssumption == Nobody \notin Workers /\ NoRecord \notin Record

Operation == {"evaluate", "activate", "clear"}
Step == {"idle", "count", "trip", "clear", "read", "commit"}

\* breach: the loss or drawdown fact; stale: the quote fact; count: the
\* consecutive_failures this transaction wrote; seen: the state it re-read.
Transaction ==
    [step : Step, op : Operation, source : Sources, breach : BOOLEAN, stale : BOOLEAN,
     count : Nat, pending : Record \cup {NoRecord}, seen : SwitchState]

TypeOK ==
    /\ ledger \in Seq(Record)
    /\ failures \in [Sources -> Nat]
    /\ switchLock \in Workers \cup {Nobody}
    /\ rowLock \in [Sources -> Workers \cup {Nobody}]
    /\ txn \in [Workers -> Transaction]

-----------------------------------------------------------------------------
(* Reading the switch *)

\* ORDER BY coalesce(cleared_at, activated_at) DESC, activated_at DESC LIMIT 1.
\* Every record carries the same stamp in the columns it fills.
Latest(rows) ==
    rows[CHOOSE i \in DOMAIN rows : \A j \in DOMAIN rows : rows[j].at <= rows[i].at]

\* get_state: an empty table is UNKNOWN, on which the policy fails closed.
State(rows) == IF rows = <<>> THEN "UNKNOWN" ELSE Latest(rows).state

\* Fault: the switch is read as committed, without the transaction's own rows.
VisibleCommitted(w) == ledger

\* The rows worker w's own statements see.
Visible(w) ==
    IF txn[w].pending = NoRecord THEN ledger ELSE Append(ledger, txn[w].pending)

\* Fault: the clock is trusted.
RawNow(now) == now

\* The stamp of a new record: now, moved past the record it follows.
EffectiveNow(now) ==
    IF ledger # <<>> /\ now <= Latest(ledger).at THEN Latest(ledger).at + 1 ELSE now

-----------------------------------------------------------------------------

Busy == {w \in Workers : txn[w].step # "idle"}

\* Bounds the instance: every open transaction may still write one record.
Room(s) ==
    /\ Len(ledger) + Cardinality(Busy) < MaxRecords
    /\ failures[s] + Cardinality(Busy) < MaxFailures

\* The table is empty, or migration 0008 has put the INACTIVE bootstrap row in it.
Init ==
    /\ ledger \in {<<>>, <<[state |-> "INACTIVE", at |-> 0]>>}
    /\ failures = [s \in Sources |-> 0]
    /\ switchLock = Nobody
    /\ rowLock = [s \in Sources |-> Nobody]
    /\ \E s \in Sources :
         txn = [w \in Workers |->
                  [step |-> "idle", op |-> "clear", source |-> s, breach |-> FALSE,
                   stale |-> FALSE, count |-> 0, pending |-> NoRecord, seen |-> "UNKNOWN"]]

Open(w, op, s, breach, stale, step) ==
    /\ txn[w].step = "idle"
    /\ Room(s)
    /\ txn' = [txn EXCEPT ![w] =
                 [step |-> step, op |-> op, source |-> s, breach |-> breach, stale |-> stale,
                  count |-> 0, pending |-> NoRecord, seen |-> "UNKNOWN"]]
    /\ UNCHANGED <<ledger, failures, switchLock, rowLock>>

\* POST /risk/evaluate reaches evaluate_automatic_triggers.  A loss or drawdown
\* breach activates and returns before the data-health row is looked at.
BeginEvaluation(w, s, breach, stale) ==
    Open(w, "evaluate", s, breach, stale, IF breach THEN "trip" ELSE "count")

\* POST /risk/kill-switch/activate and /clear.
BeginActivation(w, s) == Open(w, "activate", s, FALSE, FALSE, "trip")
BeginClearing(w, s) == Open(w, "clear", s, FALSE, FALSE, "clear")

\* Fault: a streak must exceed the threshold to trip the switch.
CountHealthLate(w) ==
    LET s == txn[w].source
        count == IF txn[w].stale THEN failures[s] + 1 ELSE 0
    IN  /\ txn[w].step = "count"
        /\ rowLock[s] = Nobody
        /\ rowLock' = [rowLock EXCEPT ![s] = w]
        /\ txn' = [txn EXCEPT ![w].count = count,
                              ![w].step = IF txn[w].stale /\ count > Threshold
                                          THEN "trip" ELSE "read"]
        /\ UNCHANGED <<ledger, failures, switchLock>>

\* Fault: a healthy quote takes one failure back instead of forgetting the streak.
CountHealthDecaying(w) ==
    LET s == txn[w].source
        count == IF txn[w].stale THEN failures[s] + 1 ELSE failures[s] - 1
    IN  /\ txn[w].step = "count"
        /\ rowLock[s] = Nobody
        /\ rowLock' = [rowLock EXCEPT ![s] = w]
        /\ txn' = [txn EXCEPT ![w].count = count,
                              ![w].step = IF txn[w].stale /\ count >= Threshold
                                          THEN "trip" ELSE "read"]
        /\ UNCHANGED <<ledger, failures, switchLock>>

\* Upsert the data-health row, lock it FOR UPDATE, count or forget the streak.
CountHealth(w) ==
    LET s == txn[w].source
        count == IF txn[w].stale THEN failures[s] + 1 ELSE 0
    IN  /\ txn[w].step = "count"
        /\ rowLock[s] = Nobody
        /\ rowLock' = [rowLock EXCEPT ![s] = w]
        /\ txn' = [txn EXCEPT ![w].count = count,
                              ![w].step = IF txn[w].stale /\ count >= Threshold
                                          THEN "trip" ELSE "read"]
        /\ UNCHANGED <<ledger, failures, switchLock>>

AfterAction(w) == IF txn[w].op = "evaluate" THEN "read" ELSE "commit"

\* Fault: activation does not wait for the advisory lock.
ActivateUnlocked(w, now) ==
    /\ txn[w].step = "trip"
    /\ txn' = [txn EXCEPT
                 ![w].step = AfterAction(w),
                 ![w].pending = IF State(ledger) = "ACTIVE" THEN NoRecord
                                ELSE [state |-> "ACTIVE", at |-> EffectiveNow(now)]]
    /\ UNCHANGED <<ledger, failures, switchLock, rowLock>>

\* activate: under the advisory lock, a no-op when already ACTIVE.
Activate(w, now) ==
    /\ txn[w].step = "trip"
    /\ switchLock = Nobody
    /\ switchLock' = w
    /\ txn' = [txn EXCEPT
                 ![w].step = AfterAction(w),
                 ![w].pending = IF State(ledger) = "ACTIVE" THEN NoRecord
                                ELSE [state |-> "ACTIVE", at |-> EffectiveNow(now)]]
    /\ UNCHANGED <<ledger, failures, rowLock>>

\* clear: under the advisory lock, a no-op when already INACTIVE.
ClearSwitch(w, now) ==
    /\ txn[w].step = "clear"
    /\ switchLock = Nobody
    /\ switchLock' = w
    /\ txn' = [txn EXCEPT
                 ![w].step = "commit",
                 ![w].pending = IF State(ledger) = "INACTIVE" THEN NoRecord
                                ELSE [state |-> "INACTIVE", at |-> EffectiveNow(now)]]
    /\ UNCHANGED <<ledger, failures, rowLock>>

\* The evaluation re-reads the switch after its triggers (engine.py:118).
ReadState(w) ==
    /\ txn[w].step = "read"
    /\ txn' = [txn EXCEPT ![w].step = "commit", ![w].seen = State(Visible(w))]
    /\ UNCHANGED <<ledger, failures, switchLock, rowLock>>

\* Fault: a transaction that ends keeps the advisory lock, as a session lock would be.
ReleaseRowLocks(w) ==
    /\ rowLock' = [s \in Sources |-> IF rowLock[s] = w THEN Nobody ELSE rowLock[s]]
    /\ txn' = [txn EXCEPT ![w].step = "idle", ![w].pending = NoRecord]
    /\ UNCHANGED switchLock

\* Both kinds of lock live to the end of the transaction.
ReleaseLocks(w) ==
    /\ switchLock' = IF switchLock = w THEN Nobody ELSE switchLock
    /\ rowLock' = [s \in Sources |-> IF rowLock[s] = w THEN Nobody ELSE rowLock[s]]
    /\ txn' = [txn EXCEPT ![w].step = "idle", ![w].pending = NoRecord]

Commit(w) ==
    /\ txn[w].step = "commit"
    /\ ledger' = Visible(w)
    /\ failures' = IF rowLock[txn[w].source] = w
                   THEN [failures EXCEPT ![txn[w].source] = txn[w].count] ELSE failures
    /\ ReleaseLocks(w)

\* Any later error of the request, or the loss of its connection, rolls back
\* the trigger together with the decision.
Rollback(w) ==
    /\ txn[w].step # "idle"
    /\ ReleaseLocks(w)
    /\ UNCHANGED <<ledger, failures>>

-----------------------------------------------------------------------------

Advance(w) ==
    \/ CountHealth(w)
    \/ \E now \in 0..MaxClock : Activate(w, now) \/ ClearSwitch(w, now)
    \/ ReadState(w)
    \/ Commit(w)

\* No request is left to come once a bound is reached: the instance may rest,
\* so that a deadlock found by TLC is one of the locks.
Rest ==
    /\ Busy = {}
    /\ \A s \in Sources : ~Room(s)
    /\ UNCHANGED vars

Next ==
    \/ \E w \in Workers :
          \/ \E s \in Sources :
                \/ \E breach, stale \in BOOLEAN : BeginEvaluation(w, s, breach, stale)
                \/ BeginActivation(w, s)
                \/ BeginClearing(w, s)
          \/ Advance(w)
          \/ Rollback(w)
    \/ Rest

\* PostgreSQL grants a lock to its waiters in turn, hence strong fairness for
\* the steps that wait; the others only need the request to keep running.
Fairness == \A w \in Workers : SF_vars(Advance(w))

Spec == Init /\ [][Next]_vars
FairSpec == Spec /\ Fairness

-----------------------------------------------------------------------------
(* Properties *)

\* The record that reads as the latest is the one written last, whatever the
\* clocks of the workers said (the bumps in activate and clear).
LatestIsLast == ledger # <<>> => Latest(ledger) = ledger[Len(ledger)]

\* No action is recorded twice: two workers that activate, or that clear, at
\* the same time leave one record (the idempotent returns of both functions).
ActionsAlternate ==
    \A i \in 1..(Len(ledger) - 1) : ledger[i].state # ledger[i + 1].state

\* An evaluation whose own facts trip the switch re-reads it as ACTIVE, so the
\* decision of the same request is blocked (engine.py:118-119).
TrippingEvaluationSeesActive ==
    \A w \in Workers :
        /\ txn[w].step = "commit" /\ txn[w].op = "evaluate"
        /\ txn[w].breach \/ (txn[w].stale /\ txn[w].count >= Threshold)
        => txn[w].seen = "ACTIVE"

\* The switch behaves as the register of KillSwitchRegister: locks, clocks and
\* rollbacks never show, and a streak that reaches the threshold trips the
\* switch in the very commit that records it.
Register == INSTANCE KillSwitchRegister WITH state <- State(ledger), failures <- failures
ImplementsRegister == Register!RSpec

\* Every transaction ends: the row lock is always taken before the advisory
\* lock, so the two kinds of lock cannot make transactions wait for each other.
TransactionsEnd == \A w \in Workers : txn[w].step # "idle" ~> txn[w].step = "idle"
=============================================================================
