--------------------------- MODULE KillSwitchProofs ---------------------------
(***************************************************************************)
(* For any number of workers, sources and records, and for any clocks: the *)
(* ledger read by timestamp is the ledger read by commit order, and the    *)
(* transactions of KillSwitch implement the register of KillSwitchRegister.*)
(***************************************************************************)
EXTENDS KillSwitch, TLAPS

\* The pending row of a transaction, and the lock that makes it safe to append.
PendingExtends(w) ==
    txn[w].pending # NoRecord =>
        /\ switchLock = w
        /\ txn[w].step \in {"read", "commit"}
        /\ ledger # <<>> =>
              /\ ledger[Len(ledger)].at < txn[w].pending.at
              /\ ledger[Len(ledger)].state # txn[w].pending.state

\* Timestamps grow along the ledger.
Increasing ==
    \A i, j \in DOMAIN ledger : i < j => ledger[i].at < ledger[j].at

LedgerInv ==
    /\ TypeOK
    /\ Increasing
    /\ ActionsAlternate
    /\ \A w \in Workers : PendingExtends(w)

-----------------------------------------------------------------------------
(* Reading by timestamp *)

\* On an increasing ledger the greatest timestamp is the last one.
LEMMA LatestOfIncreasing ==
    ASSUME NEW rows \in Seq(Record), rows # <<>>,
           \A i, j \in DOMAIN rows : i < j => rows[i].at < rows[j].at
    PROVE  Latest(rows) = rows[Len(rows)]
<1>1. Len(rows) \in DOMAIN rows /\ \A j \in DOMAIN rows : j <= Len(rows)
  OBVIOUS
<1>2. \A j \in DOMAIN rows : rows[j].at \in Nat
  <2>1. \A j \in DOMAIN rows : rows[j] \in Record
    OBVIOUS
  <2>2. QED
    BY <2>1 DEF Record
<1>3. \A j \in DOMAIN rows : rows[j].at <= rows[Len(rows)].at
  BY <1>1, <1>2
<1>4. ASSUME NEW i \in DOMAIN rows, \A j \in DOMAIN rows : rows[j].at <= rows[i].at
      PROVE  i = Len(rows)
  <2>1. CASE i < Len(rows)
    <3>1. rows[i].at < rows[Len(rows)].at
      BY <1>1, <2>1
    <3>2. rows[Len(rows)].at <= rows[i].at
      BY <1>1, <1>4
    <3>3. QED
      BY <1>1, <1>2, <3>1, <3>2
  <2>2. QED
    BY <1>1, <1>4, <2>1
<1>5. (CHOOSE i \in DOMAIN rows : \A j \in DOMAIN rows : rows[j].at <= rows[i].at) = Len(rows)
  BY <1>1, <1>3, <1>4
<1>6. QED
  BY <1>5 DEF Latest

LEMMA LatestInLedger ==
    ASSUME TypeOK, Increasing
    PROVE  LatestIsLast
BY LatestOfIncreasing DEF TypeOK, Increasing, LatestIsLast

\* The state read by timestamp is the state written last.
LEMMA StateOfIncreasing ==
    ASSUME NEW rows \in Seq(Record),
           \A i, j \in DOMAIN rows : i < j => rows[i].at < rows[j].at
    PROVE  State(rows) = IF rows = <<>> THEN "UNKNOWN" ELSE rows[Len(rows)].state
BY LatestOfIncreasing DEF State

-----------------------------------------------------------------------------
(* Type correctness *)

LEMMA VisibleType ==
    ASSUME TypeOK, NEW w \in Workers
    PROVE  Visible(w) \in Seq(Record)
BY DEF TypeOK, Visible, Transaction

LEMMA StateType ==
    ASSUME NEW rows \in Seq(Record),
           \A i, j \in DOMAIN rows : i < j => rows[i].at < rows[j].at
    PROVE  State(rows) \in SwitchState
<1>1. rows # <<>> => rows[Len(rows)] \in Record
  OBVIOUS
<1>2. QED
  BY <1>1, StateOfIncreasing DEF Record, SwitchState

LEMMA EffectiveNowExtends ==
    ASSUME LedgerInv, NEW now \in 0..MaxClock
    PROVE  /\ EffectiveNow(now) \in Nat
           /\ ledger # <<>> => ledger[Len(ledger)].at < EffectiveNow(now)
<1>1. ledger # <<>> => ledger[Len(ledger)] \in Record
  BY DEF LedgerInv, TypeOK
<1>2. ledger # <<>> => ledger[Len(ledger)].at \in Nat
  BY <1>1 DEF Record
<1>3. ledger # <<>> => Latest(ledger).at = ledger[Len(ledger)].at
  BY LatestInLedger DEF LedgerInv, LatestIsLast
<1>4. now \in Nat
  BY BoundsAssumption
<1>5. QED
  BY <1>2, <1>3, <1>4 DEF EffectiveNow

\* What the two writing steps put into a transaction.
LEMMA NewRecordExtends ==
    ASSUME LedgerInv, NEW now \in 0..MaxClock, NEW st \in {"ACTIVE", "INACTIVE"},
           State(ledger) # st
    PROVE  LET r == [state |-> st, at |-> EffectiveNow(now)]
           IN  /\ r \in Record
               /\ ledger # <<>> => ledger[Len(ledger)].at < r.at /\ ledger[Len(ledger)].state # r.state
<1>1. ledger # <<>> => State(ledger) = ledger[Len(ledger)].state
  BY StateOfIncreasing DEF LedgerInv, TypeOK, Increasing
<1>2. QED
  BY <1>1, EffectiveNowExtends DEF Record

LEMMA InitLedger == Init => LedgerInv
<1> SUFFICES ASSUME Init PROVE LedgerInv
  OBVIOUS
<1>1. TypeOK
  <2>1. ledger \in Seq(Record)
    <3>1. [state |-> "INACTIVE", at |-> 0] \in Record
      BY DEF Record
    <3>2. <<[state |-> "INACTIVE", at |-> 0]>> \in Seq(Record) /\ <<>> \in Seq(Record)
      BY <3>1
    <3>3. QED
      BY <3>2 DEF Init
  <2>2. txn \in [Workers -> Transaction]
    BY DEF Init, Transaction, Step, Operation, SwitchState
  <2>3. QED
    BY <2>1, <2>2 DEF Init, TypeOK
<1>2. Increasing /\ ActionsAlternate
  BY DEF Init, Increasing, ActionsAlternate
<1>3. ASSUME NEW w \in Workers PROVE PendingExtends(w)
  BY DEF Init, PendingExtends
<1>4. QED
  BY <1>1, <1>2, <1>3 DEF LedgerInv

\* Steps that leave the ledger alone: only the acting worker's row can disturb
\* PendingExtends, and nobody else's lock may vanish.
LEMMA LedgerFrame ==
    ASSUME LedgerInv, TypeOK', UNCHANGED ledger, NEW w \in Workers,
           PendingExtends(w)',
           \A v \in Workers \ {w} : txn'[v] = txn[v],
           \A v \in Workers \ {w} : switchLock = v => switchLock' = v
    PROVE  LedgerInv'
<1>1. Increasing' /\ ActionsAlternate'
  BY DEF LedgerInv, Increasing, ActionsAlternate
<1>2. ASSUME NEW v \in Workers PROVE PendingExtends(v)'
  BY DEF LedgerInv, PendingExtends
<1>3. QED
  BY <1>1, <1>2 DEF LedgerInv

\* A later record of the other state keeps the ledger increasing and alternating.
LEMMA AppendIncreasing ==
    ASSUME NEW rows \in Seq(Record), NEW r \in Record,
           \A i, j \in DOMAIN rows : i < j => rows[i].at < rows[j].at,
           rows # <<>> => rows[Len(rows)].at < r.at
    PROVE  \A i, j \in DOMAIN Append(rows, r) : i < j => Append(rows, r)[i].at < Append(rows, r)[j].at
<1>1. \A i \in DOMAIN rows : rows[i] \in Record
  OBVIOUS
<1>2. \A i \in DOMAIN rows : rows[i].at \in Nat
  BY <1>1 DEF Record
<1>3. r.at \in Nat
  BY DEF Record
<1>4. \A i \in DOMAIN rows : rows[i].at <= rows[Len(rows)].at
  BY <1>2
<1>5. \A i \in DOMAIN rows : rows[i].at < r.at
  BY <1>2, <1>3, <1>4
<1>6. QED
  BY <1>5

LEMMA AppendAlternates ==
    ASSUME NEW rows \in Seq(Record), NEW r \in Record,
           \A i \in 1..(Len(rows) - 1) : rows[i].state # rows[i + 1].state,
           rows # <<>> => rows[Len(rows)].state # r.state
    PROVE  \A i \in 1..(Len(Append(rows, r)) - 1) :
               Append(rows, r)[i].state # Append(rows, r)[i + 1].state
OBVIOUS

LEMMA NextLedger == LedgerInv /\ [Next]_vars => LedgerInv'
<1> SUFFICES ASSUME LedgerInv, [Next]_vars PROVE LedgerInv'
  OBVIOUS
<1>0. \A w \in Workers : w # Nobody
  BY NullsAssumption
<1>1. ASSUME NEW w \in Workers, NEW s \in Sources, NEW op \in Operation, NEW step \in Step,
             NEW breach \in BOOLEAN, NEW stale \in BOOLEAN, Open(w, op, s, breach, stale, step)
      PROVE  LedgerInv'
  <2>1. TypeOK'
    BY <1>1 DEF LedgerInv, TypeOK, Open, Transaction, SwitchState
  <2>2. PendingExtends(w)'
    BY <1>1 DEF LedgerInv, TypeOK, Open, PendingExtends
  <2>3. QED
    BY <1>1, <2>1, <2>2, LedgerFrame DEF LedgerInv, TypeOK, Open
<1>2. ASSUME NEW w \in Workers, CountHealth(w)
      PROVE  LedgerInv'
  <2>1. TypeOK'
    BY <1>2 DEF LedgerInv, TypeOK, CountHealth, Transaction, Step
  <2>2. PendingExtends(w)'
    BY <1>2 DEF LedgerInv, TypeOK, CountHealth, PendingExtends
  <2>3. QED
    BY <1>2, <2>1, <2>2, LedgerFrame DEF LedgerInv, TypeOK, CountHealth
<1>3. ASSUME NEW w \in Workers, NEW now \in 0..MaxClock, Activate(w, now) \/ ClearSwitch(w, now)
      PROVE  LedgerInv'
  <2> DEFINE r(st) == [state |-> st, at |-> EffectiveNow(now)]
  <2>1. \A st \in {"ACTIVE", "INACTIVE"} : State(ledger) # st =>
            /\ r(st) \in Record
            /\ ledger # <<>> => ledger[Len(ledger)].at < r(st).at /\ ledger[Len(ledger)].state # r(st).state
    BY NewRecordExtends
  <2> DEFINE written(st) == IF State(ledger) = st THEN NoRecord ELSE r(st)
  <2>2. PICK st \in {"ACTIVE", "INACTIVE"}, step \in {"read", "commit"} :
            /\ txn' = [txn EXCEPT ![w].step = step, ![w].pending = written(st)]
            /\ switchLock = Nobody
            /\ switchLock' = w
            /\ UNCHANGED <<ledger, failures, rowLock>>
    <3>1. CASE Activate(w, now)
      BY <3>1 DEF Activate, AfterAction
    <3>2. CASE ClearSwitch(w, now)
      BY <3>2 DEF ClearSwitch
    <3>3. QED
      BY <1>3, <3>1, <3>2
  <2>3. written(st) \in Record \cup {NoRecord}
    BY <2>1
  <2>a. written(st) # NoRecord /\ ledger # <<>> =>
            ledger[Len(ledger)].at < written(st).at /\ ledger[Len(ledger)].state # written(st).state
    BY <2>1
  <2> HIDE DEF r, written
  <2>4. TypeOK'
    <3>1. txn[w] \in Transaction
      BY DEF LedgerInv, TypeOK
    <3>2. [txn[w] EXCEPT !.step = step, !.pending = written(st)] \in Transaction
      BY <2>3, <3>1 DEF Transaction, Step
    <3>3. txn' = [txn EXCEPT ![w] = [txn[w] EXCEPT !.step = step, !.pending = written(st)]]
      BY <2>2
    <3>4. QED
      BY <2>2, <3>2, <3>3 DEF LedgerInv, TypeOK
  <2>5. PendingExtends(w)'
    BY <2>a, <2>2 DEF PendingExtends, LedgerInv, TypeOK
  <2>6. \A v \in Workers \ {w} : txn'[v] = txn[v]
    BY <2>2 DEF LedgerInv, TypeOK
  <2>7. QED
    BY <1>0, <2>2, <2>4, <2>5, <2>6, LedgerFrame
<1>4. ASSUME NEW w \in Workers, ReadState(w)
      PROVE  LedgerInv'
  <2>1. State(Visible(w)) \in SwitchState
    <3>1. \A i, j \in DOMAIN Visible(w) : i < j => Visible(w)[i].at < Visible(w)[j].at
      <4>1. CASE txn[w].pending = NoRecord
        BY <4>1 DEF Visible, LedgerInv, Increasing
      <4>2. CASE txn[w].pending # NoRecord
        BY <4>2, AppendIncreasing DEF Visible, LedgerInv, TypeOK, PendingExtends, Transaction, Increasing
      <4>3. QED
        BY <4>1, <4>2
    <3>2. QED
      BY <3>1, StateType, VisibleType DEF LedgerInv
  <2>2. TypeOK'
    BY <1>4, <2>1 DEF LedgerInv, TypeOK, ReadState, Transaction, Step
  <2>3. PendingExtends(w)'
    BY <1>4 DEF LedgerInv, TypeOK, ReadState, PendingExtends
  <2>4. QED
    BY <1>4, <2>2, <2>3, LedgerFrame DEF LedgerInv, TypeOK, ReadState
<1>5. ASSUME NEW w \in Workers, Commit(w)
      PROVE  LedgerInv'
  <2>1. TypeOK'
    <3>1. ledger' \in Seq(Record)
      BY <1>5, VisibleType DEF LedgerInv, Commit
    <3>2. failures' \in [Sources -> Nat] /\ txn' \in [Workers -> Transaction]
      BY <1>5 DEF LedgerInv, TypeOK, Commit, ReleaseLocks, Transaction, Step
    <3>3. QED
      BY <1>5, <3>1, <3>2 DEF LedgerInv, TypeOK, Commit, ReleaseLocks
  <2>2. txn'[w].pending = NoRecord /\ \A v \in Workers \ {w} : txn'[v] = txn[v]
    BY <1>5 DEF LedgerInv, TypeOK, Commit, ReleaseLocks
  <2>3. \A v \in Workers \ {w} : switchLock = v => switchLock' = v
    BY <1>5 DEF Commit, ReleaseLocks
  <2>4. CASE txn[w].pending = NoRecord
    <3>1. UNCHANGED ledger
      BY <1>5, <2>4 DEF Commit, Visible
    <3>2. PendingExtends(w)'
      BY <2>2 DEF PendingExtends
    <3>3. QED
      BY <2>1, <2>2, <2>3, <3>1, <3>2, LedgerFrame
  <2>5. CASE txn[w].pending # NoRecord
    <3>1. ledger' = Append(ledger, txn[w].pending) /\ switchLock = w
      BY <1>5, <2>5 DEF Commit, Visible, LedgerInv, PendingExtends
    <3>2. Increasing'
      BY <2>5, <3>1, AppendIncreasing DEF LedgerInv, TypeOK, PendingExtends, Transaction, Increasing
    <3>3. ActionsAlternate'
      BY <2>5, <3>1, AppendAlternates DEF LedgerInv, TypeOK, PendingExtends, Transaction, ActionsAlternate
    <3>4. ASSUME NEW v \in Workers PROVE PendingExtends(v)'
      <4>1. txn'[v].pending = NoRecord
        BY <2>2, <3>1 DEF LedgerInv, PendingExtends
      <4>2. QED
        BY <4>1 DEF PendingExtends
    <3>5. QED
      BY <2>1, <3>2, <3>3, <3>4 DEF LedgerInv
  <2>6. QED
    BY <2>4, <2>5
<1>6. ASSUME NEW w \in Workers, Rollback(w)
      PROVE  LedgerInv'
  <2>1. TypeOK'
    BY <1>6 DEF LedgerInv, TypeOK, Rollback, ReleaseLocks, Transaction, Step
  <2>2. PendingExtends(w)'
    BY <1>6 DEF LedgerInv, TypeOK, Rollback, ReleaseLocks, PendingExtends
  <2>3. QED
    BY <1>6, <2>1, <2>2, LedgerFrame DEF LedgerInv, TypeOK, Rollback, ReleaseLocks
<1>7. CASE UNCHANGED vars
  BY <1>7 DEF vars, LedgerInv, TypeOK, Increasing, ActionsAlternate, PendingExtends
<1>8. QED
  <2>1. ASSUME NEW w \in Workers, NEW s \in Sources,
               \/ \E breach, stale \in BOOLEAN : BeginEvaluation(w, s, breach, stale)
               \/ BeginActivation(w, s)
               \/ BeginClearing(w, s)
        PROVE  LedgerInv'
    BY <1>1, <2>1 DEF BeginEvaluation, BeginActivation, BeginClearing, Operation, Step
  <2>2. QED
    BY <1>2, <1>3, <1>4, <1>5, <1>6, <1>7, <2>1 DEF Next, Advance, Rest

-----------------------------------------------------------------------------
(* Triggers *)

\* The facts of the evaluation ask for an activation.
Tripped(w) == txn[w].breach \/ (txn[w].stale /\ txn[w].count >= Threshold)

VisibleState(w) == IF txn[w].pending = NoRecord THEN State(ledger) ELSE txn[w].pending.state

\* A counted row is still what the transaction counted from.
CountHeld(w) ==
    \A s \in Sources : rowLock[s] = w =>
        /\ s = txn[w].source
        /\ txn[w].op = "evaluate" /\ ~txn[w].breach
        /\ txn[w].step \in {"trip", "read", "commit"}
        /\ txn[w].count = IF txn[w].stale THEN failures[s] + 1 ELSE 0

\* An evaluation writes a record exactly when its facts ask for one.
TriggerHeld(w) ==
    /\ txn[w].step = "count" => txn[w].op = "evaluate" /\ ~txn[w].breach
    /\ txn[w].step = "clear" => txn[w].op = "clear"
    /\ txn[w].op = "evaluate" =>
          /\ txn[w].step = "trip" \/ txn[w].pending # NoRecord => Tripped(w)
          /\ txn[w].step \in {"read", "commit"} /\ Tripped(w) =>
                 switchLock = w /\ VisibleState(w) = "ACTIVE"
          /\ txn[w].step = "commit" /\ Tripped(w) => txn[w].seen = "ACTIVE"

Inv ==
    /\ LedgerInv
    /\ \A w \in Workers : CountHeld(w) /\ TriggerHeld(w)

LEMMA StateOfVisible ==
    ASSUME LedgerInv, NEW w \in Workers
    PROVE  State(Visible(w)) = VisibleState(w)
<1>1. CASE txn[w].pending = NoRecord
  BY <1>1 DEF Visible, VisibleState
<1>2. CASE txn[w].pending # NoRecord
  <2> DEFINE rows == Append(ledger, txn[w].pending)
  <2>1. txn[w].pending \in Record /\ ledger \in Seq(Record)
    BY <1>2 DEF LedgerInv, TypeOK, Transaction
  <2>2. \A i, j \in DOMAIN rows : i < j => rows[i].at < rows[j].at
    BY <1>2, <2>1, AppendIncreasing DEF LedgerInv, PendingExtends, Increasing
  <2>3. rows \in Seq(Record) /\ rows # <<>> /\ rows[Len(rows)] = txn[w].pending
    BY <2>1
  <2> HIDE DEF rows
  <2>4. State(rows) = txn[w].pending.state
    BY <2>2, <2>3, StateOfIncreasing
  <2>5. QED
    BY <1>2, <2>4 DEF Visible, VisibleState, rows
<1>3. QED
  BY <1>1, <1>2

\* A step that leaves the committed tables alone disturbs at most its worker.
LEMMA TriggerFrame ==
    ASSUME Inv, LedgerInv', UNCHANGED <<ledger, failures>>, NEW w \in Workers,
           CountHeld(w)', TriggerHeld(w)',
           \A v \in Workers \ {w} : txn'[v] = txn[v],
           \A v \in Workers \ {w} : switchLock = v => switchLock' = v,
           \A v \in Workers \ {w}, s \in Sources : rowLock'[s] = v => rowLock[s] = v
    PROVE  Inv'
<1>1. ASSUME NEW v \in Workers \ {w} PROVE CountHeld(v)' /\ TriggerHeld(v)'
  BY DEF Inv, CountHeld, TriggerHeld, Tripped, VisibleState
<1>2. QED
  BY <1>1 DEF Inv

LEMMA InitInv == Init => Inv
<1> SUFFICES ASSUME Init, NEW w \in Workers PROVE CountHeld(w) /\ TriggerHeld(w)
  BY InitLedger DEF Inv
<1>1. w # Nobody
  BY NullsAssumption
<1>2. QED
  BY <1>1 DEF Init, CountHeld, TriggerHeld

\* A commit either publishes the worker's record or leaves the switch as it was.
LEMMA CommitState ==
    ASSUME Inv, NEW w \in Workers, Commit(w)
    PROVE  State(ledger') = VisibleState(w)
BY StateOfVisible DEF Inv, Commit

LEMMA NextInv == Inv /\ [Next]_vars => Inv'
<1> SUFFICES ASSUME Inv, [Next]_vars PROVE Inv'
  OBVIOUS
<1> USE NextLedger DEF Inv
<1>0. LedgerInv' /\ TypeOK /\ \A w \in Workers : w # Nobody
  BY NullsAssumption DEF LedgerInv
<1>1. ASSUME NEW w \in Workers, NEW s \in Sources, NEW breach \in BOOLEAN, NEW stale \in BOOLEAN,
             \/ BeginEvaluation(w, s, breach, stale)
             \/ BeginActivation(w, s)
             \/ BeginClearing(w, s)
      PROVE  Inv'
  <2>1. CountHeld(w)' /\ TriggerHeld(w)'
    BY <1>0, <1>1, ThresholdAssumption
       DEF TypeOK, Open, BeginEvaluation, BeginActivation, BeginClearing, CountHeld, TriggerHeld, Tripped
  <2>2. QED
    BY <1>0, <1>1, <2>1, TriggerFrame DEF TypeOK, Open, BeginEvaluation, BeginActivation, BeginClearing
<1>2. ASSUME NEW w \in Workers, CountHealth(w)
      PROVE  Inv'
  <2> DEFINE n == IF txn[w].stale THEN failures[txn[w].source] + 1 ELSE 0
             step == IF txn[w].stale /\ n >= Threshold THEN "trip" ELSE "read"
  <2>1. txn[w].op = "evaluate" /\ ~txn[w].breach /\ txn[w].pending = NoRecord
    BY <1>0, <1>2 DEF CountHealth, TriggerHeld, LedgerInv, PendingExtends
  <2>2. /\ txn' = [txn EXCEPT ![w].count = n, ![w].step = step]
        /\ rowLock' = [rowLock EXCEPT ![txn[w].source] = w]
        /\ UNCHANGED <<ledger, failures, switchLock>>
    BY <1>2 DEF CountHealth
  <2>3. txn[w] \in Transaction /\ txn[w].source \in Sources
    BY <1>0 DEF TypeOK, Transaction
  <2>4. /\ txn'[w].count = n /\ txn'[w].step = step
        /\ \A f \in {"op", "source", "breach", "stale", "pending", "seen"} : txn'[w][f] = txn[w][f]
    BY <1>0, <2>2, <2>3 DEF TypeOK, Transaction
  <2>5. step \in {"trip", "read"} /\ (step = "trip" <=> txn[w].stale /\ n >= Threshold)
    OBVIOUS
  <2>6. \A s \in Sources : rowLock'[s] = w => s = txn[w].source
    <3>1. \A s \in Sources : rowLock[s] # w
      BY <1>2 DEF CountHealth, CountHeld
    <3>2. QED
      BY <1>0, <2>2, <3>1 DEF TypeOK
  <2>7. CountHeld(w)'
    BY <2>1, <2>2, <2>4, <2>5, <2>6 DEF CountHeld
  <2> HIDE DEF n, step
  <2>8. TriggerHeld(w)'
    BY <2>1, <2>4, <2>5 DEF TriggerHeld, Tripped
  <2>9. QED
    BY <1>0, <1>2, <2>7, <2>8, TriggerFrame DEF TypeOK, CountHealth
<1>3. ASSUME NEW w \in Workers, NEW now \in 0..MaxClock, Activate(w, now)
      PROVE  Inv'
  <2>1. CountHeld(w)'
    BY <1>0, <1>3 DEF TypeOK, Activate, AfterAction, CountHeld
  <2>2. [state |-> "ACTIVE", at |-> EffectiveNow(now)] \in Record
    BY EffectiveNowExtends DEF Record
  <2>3. VisibleState(w)' = "ACTIVE"
    BY <1>0, <1>3, <2>2, NullsAssumption DEF TypeOK, Activate, VisibleState
  <2>4. txn[w].op = "evaluate" => Tripped(w)
    BY <1>3 DEF Activate, TriggerHeld
  <2>5. TriggerHeld(w)'
    BY <1>0, <1>3, <2>3, <2>4 DEF TypeOK, Activate, AfterAction, TriggerHeld, Tripped
  <2>6. QED
    BY <1>0, <1>3, <2>1, <2>5, TriggerFrame DEF TypeOK, Activate
<1>4. ASSUME NEW w \in Workers, NEW now \in 0..MaxClock, ClearSwitch(w, now)
      PROVE  Inv'
  <2>1. CountHeld(w)' /\ TriggerHeld(w)'
    BY <1>0, <1>4 DEF TypeOK, ClearSwitch, CountHeld, TriggerHeld
  <2>2. QED
    BY <1>0, <1>4, <2>1, TriggerFrame DEF TypeOK, ClearSwitch
<1>5. ASSUME NEW w \in Workers, ReadState(w)
      PROVE  Inv'
  <2>1. CountHeld(w)'
    BY <1>0, <1>5 DEF TypeOK, ReadState, CountHeld
  <2>2. txn'[w].seen = VisibleState(w) /\ VisibleState(w)' = VisibleState(w)
    BY <1>0, <1>5, StateOfVisible DEF TypeOK, ReadState, VisibleState
  <2>3. TriggerHeld(w)'
    BY <1>0, <1>5, <2>2 DEF TypeOK, ReadState, TriggerHeld, Tripped
  <2>4. QED
    BY <1>0, <1>5, <2>1, <2>3, TriggerFrame DEF TypeOK, ReadState
<1>6. ASSUME NEW w \in Workers, Commit(w)
      PROVE  Inv'
  <2>1. txn'[w].step = "idle" /\ txn'[w].pending = NoRecord
    BY <1>0, <1>6 DEF TypeOK, Commit, ReleaseLocks
  <2>2. \A s \in Sources : rowLock'[s] # w
    BY <1>0, <1>6 DEF Commit, ReleaseLocks
  <2>3. CountHeld(w)' /\ TriggerHeld(w)'
    BY <2>1, <2>2 DEF CountHeld, TriggerHeld
  <2>4. ASSUME NEW v \in Workers \ {w} PROVE CountHeld(v)' /\ TriggerHeld(v)'
    <3>1. txn'[v] = txn[v] /\ (switchLock = v => switchLock' = v)
      BY <1>0, <1>6 DEF TypeOK, Commit, ReleaseLocks
    <3>2. \A s \in Sources : rowLock'[s] = v => rowLock[s] = v /\ failures'[s] = failures[s]
      BY <1>0, <1>6 DEF TypeOK, Commit, ReleaseLocks, Transaction
    <3>3. CountHeld(v)'
      BY <3>1, <3>2 DEF CountHeld
    <3>4. switchLock = v => VisibleState(v)' = VisibleState(v)
      <4>1. switchLock = v => txn[w].pending = NoRecord
        BY <1>0 DEF LedgerInv, PendingExtends
      <4>2. QED
        BY <1>6, <3>1, <4>1 DEF Commit, Visible, VisibleState
    <3>5. TriggerHeld(v)'
      BY <3>1, <3>4 DEF TriggerHeld, Tripped
    <3>6. QED
      BY <3>3, <3>5
  <2>5. QED
    BY <1>0, <2>3, <2>4
<1>7. ASSUME NEW w \in Workers, Rollback(w)
      PROVE  Inv'
  <2>1. txn'[w].step = "idle" /\ txn'[w].pending = NoRecord
    BY <1>0, <1>7 DEF TypeOK, Rollback, ReleaseLocks
  <2>2. CountHeld(w)' /\ TriggerHeld(w)'
    BY <1>0, <1>7, <2>1 DEF Rollback, ReleaseLocks, CountHeld, TriggerHeld
  <2>3. QED
    BY <1>0, <1>7, <2>2, TriggerFrame DEF TypeOK, Rollback, ReleaseLocks
<1>8. CASE UNCHANGED vars
  BY <1>0, <1>8 DEF vars, CountHeld, TriggerHeld, Tripped, VisibleState
<1>9. QED
  BY <1>1, <1>2, <1>3, <1>4, <1>5, <1>6, <1>7, <1>8 DEF Next, Advance, Rest

-----------------------------------------------------------------------------
(* Theorems *)

THEOREM Invariance == Spec => []Inv
BY InitInv, NextInv, PTL DEF Spec

\* Type correctness of the tables, the locks and the transactions.
THEOREM TypeCorrect == Spec => []TypeOK
<1>1. Inv => TypeOK
  BY DEF Inv, LedgerInv
<1>2. QED
  BY <1>1, Invariance, PTL

\* get_state, which orders by timestamp, returns the record committed last,
\* however the clocks of the workers differ.
THEOREM LatestIsLastAlways == Spec => []LatestIsLast
<1>1. Inv => LatestIsLast
  BY LatestInLedger DEF Inv, LedgerInv
<1>2. QED
  BY <1>1, Invariance, PTL

\* Concurrent activations, and concurrent clearings, record one action.
THEOREM ActionsAlternateAlways == Spec => []ActionsAlternate
<1>1. Inv => ActionsAlternate
  BY DEF Inv, LedgerInv
<1>2. QED
  BY <1>1, Invariance, PTL

\* An evaluation whose facts trip the switch decides with the switch ACTIVE.
THEOREM TrippingSeesActiveAlways == Spec => []TrippingEvaluationSeesActive
<1>1. Inv => TrippingEvaluationSeesActive
  BY DEF Inv, TriggerHeld, Tripped, TrippingEvaluationSeesActive
<1>2. QED
  BY <1>1, Invariance, PTL

LEMMA InitRegister == Init => Register!RInit
<1> SUFFICES ASSUME Init PROVE Register!RInit
  OBVIOUS
<1>1. State(ledger) \in {"UNKNOWN", "INACTIVE"}
  <2>1. ledger # <<>> => ledger[Len(ledger)].state = "INACTIVE"
    BY DEF Init
  <2>2. State(ledger) = IF ledger = <<>> THEN "UNKNOWN" ELSE ledger[Len(ledger)].state
    BY InitLedger, StateOfIncreasing DEF LedgerInv, TypeOK, Increasing
  <2>3. QED
    BY <2>1, <2>2
<1>2. QED
  BY <1>1 DEF Init, Register!RInit

\* A commit is one step of the register: a trip, a clearing, a stale quote that
\* may trip, a healthy quote, or nothing visible.
LEMMA CommitRegister ==
    ASSUME Inv, NEW w \in Workers, Commit(w)
    PROVE  Register!RNext \/ UNCHANGED Register!rvars
<1> DEFINE s == txn[w].source
<1>0. s \in Sources /\ txn[w] \in Transaction /\ failures \in [Sources -> Nat]
  BY DEF Inv, LedgerInv, TypeOK, Transaction
<1>1. State(ledger') = VisibleState(w)
  BY CommitState
<1>2. CASE rowLock[s] # w
  <2>1. UNCHANGED failures
    BY <1>2 DEF Commit
  <2>2. CASE txn[w].pending = NoRecord
    BY <1>1, <2>1, <2>2 DEF VisibleState, Register!rvars
  <2>3. CASE txn[w].pending # NoRecord
    <3>1. State(ledger') \in {"ACTIVE", "INACTIVE"}
      BY <1>0, <1>1, <2>3 DEF VisibleState, Transaction, Record
    <3>2. QED
      BY <2>1, <3>1 DEF Register!RNext, Register!Trip, Register!Clear
  <2>4. QED
    BY <2>2, <2>3
<1>3. CASE rowLock[s] = w
  <2>1. /\ txn[w].op = "evaluate" /\ ~txn[w].breach
        /\ txn[w].count = IF txn[w].stale THEN failures[s] + 1 ELSE 0
    BY <1>0, <1>3 DEF Inv, CountHeld
  <2>2. failures' = [failures EXCEPT ![s] = txn[w].count]
    BY <1>3 DEF Commit
  <2>3. txn[w].pending # NoRecord => Tripped(w)
    BY <2>1 DEF Inv, TriggerHeld
  <2>4. Tripped(w) => VisibleState(w) = "ACTIVE"
    BY <2>1 DEF Inv, TriggerHeld, Commit
  <2>5. Tripped(w) <=> txn[w].stale /\ failures[s] + 1 >= Threshold
    BY <2>1 DEF Tripped
  <2>6. State(ledger') = IF Tripped(w) THEN "ACTIVE" ELSE State(ledger)
    BY <1>1, <2>3, <2>4 DEF VisibleState
  <2>7. CASE txn[w].stale
    <3>1. Register!StaleQuote(s)
      BY <2>1, <2>2, <2>5, <2>6, <2>7 DEF Register!StaleQuote
    <3>2. QED
      BY <1>0, <3>1 DEF Register!RNext
  <2>8. CASE ~txn[w].stale
    <3>1. Register!HealthyQuote(s)
      BY <2>1, <2>2, <2>5, <2>6, <2>8 DEF Register!HealthyQuote
    <3>2. QED
      BY <1>0, <3>1 DEF Register!RNext
  <2>9. QED
    BY <1>0, <2>7, <2>8 DEF Transaction
<1>4. QED
  BY <1>2, <1>3

LEMMA NextRegister == Inv /\ [Next]_vars => [Register!RNext]_(Register!rvars)
<1> SUFFICES ASSUME Inv, [Next]_vars PROVE Register!RNext \/ UNCHANGED Register!rvars
  OBVIOUS
<1>1. CASE \E w \in Workers : Commit(w)
  BY <1>1, CommitRegister
<1>2. CASE UNCHANGED <<ledger, failures>>
  BY <1>2 DEF Register!rvars
<1>3. QED
  BY <1>1, <1>2 DEF Next, Advance, Rest, vars, BeginEvaluation, BeginActivation, BeginClearing,
     Open, CountHealth, Activate, ClearSwitch, ReadState, Rollback

\* The lock-protected ledger implements the atomic register.
THEOREM ImplementsRegisterAlways == Spec => ImplementsRegister
BY InitRegister, NextRegister, Invariance, PTL DEF Spec, ImplementsRegister, Register!RSpec
=============================================================================
