------------------------- MODULE RiskEvaluationProofs -------------------------
(***************************************************************************)
(* Proofs about RiskEvaluation, for every number of evaluations, accounts  *)
(* and candidates and for every policy: what the locks, the two unique     *)
(* indexes and the fingerprint guarantee, and that no limit on the risk    *)
(* reserved is ever passed.  A sum of risks is defined by a fold over a    *)
(* set; it is unfolded here, by induction over the size of the set, into   *)
(* the number of quanta of risk that the rows hold.                        *)
(***************************************************************************)
EXTENDS RiskEvaluation, DataInduction, FiniteSetTheorems, TLAPS

\* The part of TypeOK that owes nothing to a sum of risks.
Typed ==
    /\ clock \in Nat
    /\ switch \in Switch
    /\ transitions \in [Candidates -> Nat]
    /\ holder \in [Lock -> Workers \cup {Nobody}]
    /\ work \in [Workers -> Evaluation \cup {Idle}]

\* A row has the columns of a reservation, whatever they hold.
IsRow(r) ==
    r = [decision |-> r.decision, account |-> r.account, cand |-> r.cand, risk |-> r.risk,
         status |-> r.status, until |-> r.until]

\* An evaluation past a lock holds it, and the lifecycle it read under the lock of
\* its candidate is still the committed one.
Holding ==
    \A w \in Workers :
        work[w] # Idle /\ work[w].step \in {"context", "decide"} =>
            /\ holder[work[w].cand] = w
            /\ work[w].lifecycle = transitions[work[w].cand]

\* No stored approval was made for an ended candidate, nor unless the switch was
\* known to be inactive.
Sound(d) == d.risk # 0 => d.id.transitions = 0 /\ d.id.switch.state = "INACTIVE"

IInv ==
    /\ Typed
    /\ Holding
    /\ \A r \in reservations : IsRow(r)
    /\ \A d \in decisions : Sound(d)
    /\ UniqueRows

-----------------------------------------------------------------------------
(* What an evaluation may rely on after it has observed its account, for every *)
(* store, clock and freshness limit: the rows stay consistent, the newest      *)
(* snapshot is fresh, and it shows the state of the account.                   *)

LEMMA SnapshotType ==
  ASSUME NEW e \in Economics
  PROVE  AccountSnapshot(e) \in Economics
BY SMT DEF AccountSnapshot, Economics

LEMMA SnapshotIdempotent ==
  ASSUME NEW e \in Economics
  PROVE  AccountSnapshot(AccountSnapshot(e)) = AccountSnapshot(e)
<1> DEFINE d == AccountSnapshot(e)
<1>1. d \in Economics
  BY SnapshotType
<1>2. d.equity <= d.peak
  BY SMT DEF AccountSnapshot, Economics
<1>3. AccountSnapshot(d) = [d EXCEPT !.peak = d.peak]
  <2> HIDE DEF d
  <2> QED
    BY <1>1, <1>2, SMT DEF AccountSnapshot, Economics
<1>4. [d EXCEPT !.peak = d.peak] = d
  <2> HIDE DEF d
  <2> QED
    BY <1>1, SMT DEF Economics
<1> QED
  BY <1>3, <1>4

LEMMA PaperStateType ==
  ASSUME NEW store, Store(store), NEW account \in Account
  PROVE  /\ PaperState(store, account) \in PaperAccountState
         /\ PaperState(store, account).account = account.id
<1> DEFINE latest == Newest(store.snapshots, account.id)
           start == IF account.starting = 0 THEN DefaultBalance ELSE account.starting
<1>1. CASE StatesOf(store, account.id) # {}
  BY <1>1 DEF PaperState, StatesOf, Store
<1>2. CASE StatesOf(store, account.id) = {} /\ latest # {}
  <2>1. (CHOOSE r \in latest : TRUE) \in latest
    BY <1>2
  <2>2. (CHOOSE r \in latest : TRUE) \in Snapshot
    BY <2>1 DEF Newest, Store
  <2> QED
    BY <1>2, <2>2 DEF PaperState, Bootstrap, PaperAccountState, Snapshot, Account
<1>3. CASE StatesOf(store, account.id) = {} /\ latest = {}
  <2>1. start \in Nat
    BY AuthorityAssumption DEF Account
  <2>2. [equity |-> start, peak |-> start, daily |-> 0, weekly |-> 0, losses |-> 0,
         lastLoss |-> LongAgo, cooldown |-> LongAgo, openRisk |-> 0] \in Economics
    BY <2>1, AuthorityAssumption DEF Economics
  <2> QED
    BY <1>3, <2>2 DEF PaperState, Bootstrap, PaperAccountState, Account
<1> QED
  BY <1>1, <1>2, <1>3

\* The rows a refresh leaves: the state it went by, and an observation unless one
\* of the snapshots would do.
LEMMA RefreshedRows ==
  ASSUME NEW store, Store(store), NEW account \in Account, NEW now \in Int, NEW maxAge \in Nat
  PROVE  LET state == PaperState(store, account)
             after == RefreshPaperAccountSnapshot(store, account, now, maxAge)
         IN /\ after.accounts = store.accounts
            /\ after.states = store.states \cup {state}
            /\ Reusable(state, store.snapshots, now, maxAge)
                 => after.snapshots = store.snapshots
            /\ ~Reusable(state, store.snapshots, now, maxAge)
                 => after.snapshots = store.snapshots \cup {SnapshotOf(state, now)}
            /\ DOMAIN after = DOMAIN store
            /\ SnapshotOf(state, now) \in Snapshot
<1>1. PaperState(store, account) \in PaperAccountState
  BY PaperStateType
<1>2. SnapshotOf(PaperState(store, account), now) \in Snapshot
  BY <1>1, SnapshotType DEF SnapshotOf, Snapshot, PaperAccountState
<1> QED
  BY <1>2 DEF RefreshPaperAccountSnapshot, Store

\* A state and what has been seen of its account agree.
LEMMA StateAgrees ==
  ASSUME NEW store, Store(store), NEW account \in Account, NEW r \in store.snapshots
  PROVE  SameVersion(r, PaperState(store, account))
<1> DEFINE latest == Newest(store.snapshots, account.id)
           state == PaperState(store, account)
<1>1. CASE StatesOf(store, account.id) # {}
  BY <1>1 DEF PaperState, StatesOf, Store, Consistent
<1>2. CASE StatesOf(store, account.id) = {} /\ latest # {}
  <2> DEFINE l == CHOOSE l \in latest : TRUE
  <2>1. l \in latest
    BY <1>2
  <2>2. l \in store.snapshots /\ l.account = account.id
    BY <2>1 DEF Newest
  <2>3. SameVersion(r, l)
    BY <2>2 DEF Store, Consistent
  <2>4. state = [account |-> account.id, version |-> l.version, economics |-> l.economics]
    BY <1>2 DEF PaperState, Bootstrap
  <2> QED
    BY <2>2, <2>3, <2>4 DEF SameVersion
<1>3. CASE StatesOf(store, account.id) = {} /\ latest = {}
  <2>1. state.account = account.id
    BY PaperStateType
  <2>2. r.account # account.id
    BY <1>3 DEF Store
  <2> QED
    BY <2>1, <2>2 DEF SameVersion
<1> QED
  BY <1>1, <1>2, <1>3

\* Two observations of one state, or one and an older snapshot, agree.
LEMMA SnapshotAgrees ==
  ASSUME NEW r, NEW state \in PaperAccountState, NEW now, SameVersion(r, state)
  PROVE  SameVersion(r, SnapshotOf(state, now)) /\ SameVersion(SnapshotOf(state, now), r)
<1>1. AccountSnapshot(SnapshotOf(state, now).economics) = AccountSnapshot(state.economics)
  BY SnapshotIdempotent DEF SnapshotOf, PaperAccountState
<1> QED
  BY <1>1 DEF SameVersion, SnapshotOf

---------------------------------------------------------------------------
(* The refresh *)

\* refresh_paper_account_snapshot, the first-row bootstrap of
\* get_or_create_paper_state included, leaves the tables as consistent as it
\* finds them: one state per account, and one account of it per version.
THEOREM RefreshKeepsStore ==
  ASSUME NEW store, Store(store), NEW account \in Account, NEW now \in Int, NEW maxAge \in Nat
  PROVE  Store(RefreshPaperAccountSnapshot(store, account, now, maxAge))
<1> DEFINE state == PaperState(store, account)
           seen == SnapshotOf(state, now)
           after == RefreshPaperAccountSnapshot(store, account, now, maxAge)
<1>1. /\ after.accounts = store.accounts
      /\ after.states = store.states \cup {state}
      /\ after.snapshots \in {store.snapshots, store.snapshots \cup {seen}}
      /\ seen \in Snapshot
  BY RefreshedRows
<1>2. state \in PaperAccountState /\ state.account = account.id
  BY PaperStateType
<1>3. after \in [accounts : SUBSET Account, states : SUBSET PaperAccountState,
                snapshots : SUBSET Snapshot]
  BY <1>1, <1>2 DEF Store, RefreshPaperAccountSnapshot
<1>4. \A r \in store.snapshots : SameVersion(r, state)
  BY StateAgrees
<1>5. \A p, q \in after.states : p.account = q.account => p = q
  <2>1. \A p \in store.states : p.account = account.id => p = state
    BY DEF PaperState, StatesOf, Store, Consistent
  <2> QED
    BY <1>1, <1>2, <2>1 DEF Store, Consistent
<1>6. SameVersion(seen, seen) /\ SameVersion(seen, state)
  <2>1. SameVersion(state, state)
    BY DEF SameVersion
  <2> QED
    BY <1>2, <2>1, SnapshotAgrees DEF SameVersion
<1>7. \A r \in store.snapshots : SameVersion(r, seen) /\ SameVersion(seen, r)
  BY <1>2, <1>4, SnapshotAgrees
<1>8. \A p \in store.states : SameVersion(seen, p)
  <2>1. ASSUME NEW p \in store.states, p.account = account.id PROVE p = state
    BY <2>1 DEF PaperState, StatesOf, Store, Consistent
  <2>2. seen.account = account.id
    BY <1>2 DEF SnapshotOf
  <2> QED
    BY <1>6, <2>1, <2>2 DEF SameVersion
<1>9. Consistent(after)
  <2>1. \A r \in store.snapshots : \A s \in store.snapshots \cup store.states : SameVersion(r, s)
    BY DEF Store, Consistent
  <2> HIDE DEF state, seen, after
  <2> QED
    BY <1>1, <1>4, <1>5, <1>6, <1>7, <1>8, <2>1 DEF Consistent
<1>10. \A r \in after.snapshots : Newest(after.snapshots, r.account) # {}
  <2>1. \A r \in store.snapshots : Newest(store.snapshots, r.account) # {}
    BY DEF Store
  <2>2. CASE after.snapshots = store.snapshots
    BY <2>1, <2>2
  <2>3. CASE after.snapshots = store.snapshots \cup {seen}
    <3> SUFFICES ASSUME NEW r \in after.snapshots
                 PROVE  \E l \in after.snapshots : l \in Newest(after.snapshots, r.account)
      OBVIOUS
    <3>1. CASE \E s \in store.snapshots : s.account = r.account
      <4>1. PICK l : l \in Newest(store.snapshots, r.account)
        BY <2>1, <3>1
      <4>2. \A x \in after.snapshots : x.at \in Int
        BY <1>3 DEF Snapshot
      <4>3. l \in store.snapshots /\ l.account = r.account
        BY <4>1 DEF Newest
      <4>4. CASE seen.account = r.account /\ l.at <= seen.at
        <5>1. \A x \in store.snapshots : x.account = r.account => x.at <= l.at
          BY <4>1 DEF Newest
        <5>2. \A x \in after.snapshots : x.account = r.account => x.at <= seen.at
          <6> HIDE DEF seen, after
          <6> QED
            BY <1>1, <2>3, <4>2, <4>3, <4>4, <5>1
        <5> QED
          BY <2>3, <4>4, <5>2 DEF Newest
      <4>5. CASE ~(seen.account = r.account /\ l.at <= seen.at)
        <5>1. \A x \in store.snapshots : x.account = r.account => x.at <= l.at
          BY <4>1 DEF Newest
        <5>2. \A x \in after.snapshots : x.account = r.account => x.at <= l.at
          <6> HIDE DEF seen, after
          <6> QED
            BY <1>1, <2>3, <4>2, <4>3, <4>5, <5>1
        <5> QED
          BY <2>3, <4>3, <5>2 DEF Newest
      <4> QED
        BY <4>4, <4>5
    <3>2. CASE \A s \in store.snapshots : s.account # r.account
      <4>1. r = seen /\ seen.at \in Int
        BY <1>1, <2>3, <3>2 DEF Snapshot
      <4> QED
        BY <2>3, <3>2, <4>1 DEF Newest
    <3> QED
      BY <3>1, <3>2
  <2> QED
    BY <1>1, <2>2, <2>3
<1> QED
  BY <1>3, <1>9, <1>10 DEF Store

\* What get_authoritative_account_snapshot reads after the refresh is never older
\* than the policy allows.
THEOREM RefreshedIsFresh ==
  ASSUME NEW store, Store(store), NEW account \in Account, NEW now \in Int, NEW maxAge \in Nat,
         NEW r \in AuthoritativeAccountSnapshot(
                     RefreshPaperAccountSnapshot(store, account, now, maxAge), account.id)
  PROVE  now - r.at <= maxAge
<1> DEFINE state == PaperState(store, account)
           seen == SnapshotOf(state, now)
           after == RefreshPaperAccountSnapshot(store, account, now, maxAge)
<1>1. r \in Newest(after.snapshots, account.id)
  BY DEF AuthoritativeAccountSnapshot
<1>2. state.account = account.id
  BY PaperStateType
<1>3. Store(after)
  BY RefreshKeepsStore
<1>4. r.at \in Int
  BY <1>1, <1>3 DEF Newest, Store, Snapshot
<1>5. CASE Reusable(state, store.snapshots, now, maxAge)
  <2>1. after.snapshots = store.snapshots
    BY <1>5, RefreshedRows
  <2> QED
    BY <1>2, <1>5, <2>1 DEF Reusable, AuthoritativeAccountSnapshot
<1>6. CASE ~Reusable(state, store.snapshots, now, maxAge)
  <2>1. seen \in after.snapshots
    BY <1>6, RefreshedRows
  <2>2. seen.account = account.id /\ seen.at = now
    BY <1>2 DEF SnapshotOf
  <2>3. now <= r.at
    BY <1>1, <2>1, <2>2 DEF Newest
  <2> QED
    BY <1>4, <2>3
<1> QED
  BY <1>5, <1>6

\* And it shows the state of the account, provided no snapshot of it is from the
\* future of the request.
THEOREM RefreshedShowsState ==
  ASSUME NEW store, Store(store), NEW account \in Account, NEW now \in Int, NEW maxAge \in Nat,
         \A s \in store.snapshots : s.at < now,
         NEW r \in AuthoritativeAccountSnapshot(
                     RefreshPaperAccountSnapshot(store, account, now, maxAge), account.id)
  PROVE  LET state == PaperState(store, account)
         IN /\ r.account = account.id /\ r.version = state.version
            /\ AccountSnapshot(r.economics) = AccountSnapshot(state.economics)
<1> DEFINE state == PaperState(store, account)
           seen == SnapshotOf(state, now)
           after == RefreshPaperAccountSnapshot(store, account, now, maxAge)
<1>1. r \in Newest(after.snapshots, account.id)
  BY DEF AuthoritativeAccountSnapshot
<1>2. state \in PaperAccountState /\ state.account = account.id
  BY PaperStateType
<1>3. r.account = account.id
  BY <1>1 DEF Newest
<1>4. CASE Reusable(state, store.snapshots, now, maxAge)
  <2>1. after.snapshots = store.snapshots
    BY <1>4, RefreshedRows
  <2>2. r.version = state.version
    BY <1>2, <1>4, <2>1 DEF Reusable, AuthoritativeAccountSnapshot
  <2>3. SameVersion(r, state)
    BY <1>1, <2>1, StateAgrees DEF Newest
  <2> QED
    BY <1>2, <1>3, <2>2, <2>3 DEF SameVersion
<1>5. CASE ~Reusable(state, store.snapshots, now, maxAge)
  <2>1. after.snapshots = store.snapshots \cup {seen}
    BY <1>5, RefreshedRows
  <2>2. seen.account = account.id /\ seen.at = now
    BY <1>2 DEF SnapshotOf
  <2>3. now <= r.at
    BY <1>1, <2>1, <2>2 DEF Newest
  <2>4. r = seen
    <3>1. \A s \in store.snapshots : s.at \in Int
      BY DEF Store, Snapshot
    <3> QED
      BY <1>1, <2>1, <2>3, <3>1 DEF Newest
  <2> QED
    BY <1>2, <1>3, <2>4, SnapshotIdempotent DEF SnapshotOf, PaperAccountState
<1> QED
  BY <1>4, <1>5

-----------------------------------------------------------------------------

\* An evaluation made now or found again carries the fingerprint of the evaluation,
\* and approves only a live candidate under an inactive switch.
LEMMA VerdictFacts ==
    ASSUME NEW e \in Evaluation, \A d \in decisions : Sound(d)
    PROVE  /\ Verdict(e).id = Fingerprint(e)
           /\ Verdict(e).risk # 0 => e.lifecycle = 0 /\ e.seen.state = "INACTIVE"
           /\ Sound(Verdict(e))
<1>. DEFINE F == Fingerprint(e)
            risk == IF Blocked(e) THEN 0 ELSE Granted(e.account, e.cand, e.now, e.target)
            until == IF risk = 0 THEN e.now + TTL ELSE Min({PlanExpiry[e.cand], e.now + TTL})
<1>1. F.transitions = e.lifecycle /\ F.switch = e.seen
  BY DEF Fingerprint
<1>2. e.lifecycle \in Nat
  BY DEF Evaluation
<1>3. CASE Cached(e) # {}
  <2>1. Verdict(e) \in Cached(e)
    BY <1>3 DEF Verdict
  <2>2. Verdict(e) \in decisions /\ Verdict(e).id = F
    BY <2>1 DEF Cached
  <2>. QED  BY <2>2, <1>1 DEF Sound
<1>4. CASE Cached(e) = {}
  <2>1. Verdict(e) = [id |-> F, risk |-> risk, expires |-> until]
    BY <1>4 DEF Verdict, Fresh
  <2>. HIDE DEF F, risk, until
  <2>2. Verdict(e).id = F /\ Verdict(e).risk = risk
    BY <2>1
  <2>3. risk # 0 => ~Blocked(e)
    BY DEF risk
  <2>4. risk # 0 => e.lifecycle = 0 /\ e.seen.state = "INACTIVE"
    BY <2>3, <1>2 DEF Blocked
  <2>. QED  BY <2>2, <2>4, <1>1 DEF Sound, F
<1>. QED  BY <1>3, <1>4

\* UniqueRows as a property of any set of rows.
Distinct(rows) ==
    \A r, s \in rows :
        \/ r.decision = s.decision
        \/ r.status = "ACTIVE" /\ s.status = "ACTIVE" /\ r.account = s.account /\ r.cand = s.cand
        => r = s

\* Releasing rows keeps their columns, activates nothing and gives no decision to a
\* second row.
LEMMA ReleasedFacts ==
    ASSUME NEW rows, \A r \in rows : IsRow(r),
           \A r, s \in rows : r.decision = s.decision => r = s
    PROVE  /\ \A q \in Released(rows) :
                 /\ IsRow(q) /\ q.status = "RELEASED"
                 /\ \E r \in rows : q.decision = r.decision
           /\ \A p, q \in Released(rows) : p.decision = q.decision => p = q
<1>1. ASSUME NEW r \in rows
      PROVE  LET q == [r EXCEPT !.status = "RELEASED"]
             IN  IsRow(q) /\ q.status = "RELEASED" /\ q.decision = r.decision
  <2>1. IsRow(r)
    OBVIOUS
  <2>2. [r EXCEPT !.status = "RELEASED"] =
          [decision |-> r.decision, account |-> r.account, cand |-> r.cand, risk |-> r.risk,
           status |-> "RELEASED", until |-> r.until]
    BY <2>1 DEF IsRow
  <2>. QED  BY <2>2 DEF IsRow
<1>2. \A q \in Released(rows) : \E r \in rows : q = [r EXCEPT !.status = "RELEASED"]
  BY DEF Released
<1>3. ASSUME NEW p \in Released(rows), NEW q \in Released(rows), p.decision = q.decision
      PROVE  p = q
  <2>1. PICK r \in rows : p = [r EXCEPT !.status = "RELEASED"]
    BY <1>2
  <2>2. PICK s \in rows : q = [s EXCEPT !.status = "RELEASED"]
    BY <1>2
  <2>3. r.decision = s.decision
    BY <1>1, <1>3, <2>1, <2>2
  <2>4. r = s
    BY <2>3
  <2>. QED  BY <2>1, <2>2, <2>4
<1>4. ASSUME NEW q \in Released(rows)
      PROVE  /\ IsRow(q) /\ q.status = "RELEASED"
             /\ \E r \in rows : q.decision = r.decision
  <2>1. PICK r \in rows : q = [r EXCEPT !.status = "RELEASED"]
    BY <1>2
  <2>. QED  BY <1>1, <2>1
<1>. QED  BY <1>3, <1>4

\* Withdrawing reservations keeps the two indexes and activates nothing.
LEMMA ReleaseFacts ==
    ASSUME NEW rows \in SUBSET reservations, \A r \in reservations : IsRow(r), UniqueRows
    PROVE  /\ \A r \in Release(rows) : IsRow(r)
           /\ Distinct(Release(rows))
           /\ \A r \in Release(rows) : r.status = "ACTIVE" => r \in reservations
<1>1. \A q \in Released(rows) :
         /\ IsRow(q) /\ q.status = "RELEASED"
         /\ \E r \in rows : q.decision = r.decision
  BY ReleasedFacts DEF UniqueRows
<1>2. \A p, q \in Released(rows) : p.decision = q.decision => p = q
  BY ReleasedFacts DEF UniqueRows
<1>3. \A p \in Released(rows), q \in reservations \ rows : p.decision # q.decision
  BY <1>1 DEF UniqueRows
<1>. QED  BY <1>1, <1>2, <1>3 DEF Release, Distinct, UniqueRows

\* Reserving for a decision keeps the two indexes and activates one row, the one of
\* that decision.
LEMMA ReserveFacts ==
    ASSUME NEW d, NEW a, NEW c, NEW risk, NEW until,
           \A r \in reservations : IsRow(r), UniqueRows
    PROVE  LET rows == Reserve(d, a, c, risk, until)
           IN  /\ \A r \in rows : IsRow(r)
               /\ Distinct(rows)
               /\ \A r \in rows : r.status = "ACTIVE" =>
                     \/ r \in reservations
                     \/ r.decision = d /\ r.account = a /\ r.cand = c
<1>. DEFINE exact == {r \in reservations : r.decision = d}
            row == [decision |-> d, account |-> a, cand |-> c, risk |-> risk,
                    status |-> "ACTIVE", until |-> until]
            gone == Active(a, c) \ exact
            superseded == IF exact = {} THEN {} ELSE Released(gone)
            kept == reservations \ (exact \cup Active(a, c))
<1>1. Reserve(d, a, c, risk, until) = kept \cup superseded \cup {row}
  BY DEF Reserve
<1>2. gone \subseteq reservations
  BY DEF Active
<1>3. /\ \A q \in superseded :
            /\ IsRow(q) /\ q.status = "RELEASED"
            /\ \E r \in gone : q.decision = r.decision
      /\ \A p, q \in superseded : p.decision = q.decision => p = q
  BY <1>2, ReleasedFacts DEF UniqueRows
<1>4. /\ IsRow(row) /\ row.decision = d /\ row.account = a /\ row.cand = c
      /\ row.status = "ACTIVE"
  BY DEF IsRow
<1>5. \A q \in kept : q \in reservations /\ q.decision # d
  OBVIOUS
<1>6. \A q \in kept : q.status = "ACTIVE" => q.account # a \/ q.cand # c
  BY DEF Active
<1>7. \A q \in superseded : q.decision # d
  BY <1>2, <1>3
<1>8. \A p \in superseded, q \in kept : p.decision # q.decision
  BY <1>2, <1>3, <1>5 DEF UniqueRows, Active
<1>. HIDE DEF kept, superseded, row, gone, exact
<1>9. Distinct(kept \cup superseded \cup {row})
  <2>1. \A p, q \in kept \cup superseded \cup {row} : p.decision = q.decision => p = q
    BY <1>3, <1>4, <1>5, <1>7, <1>8 DEF UniqueRows
  <2>2. ASSUME NEW p \in kept \cup superseded \cup {row},
               NEW q \in kept \cup superseded \cup {row},
               p.status = "ACTIVE", q.status = "ACTIVE", p.account = q.account, p.cand = q.cand
        PROVE  p = q
    <3>1. p \notin superseded /\ q \notin superseded
      BY <2>2, <1>3
    <3>2. CASE p = row \/ q = row
      BY <2>2, <3>1, <3>2, <1>4, <1>6
    <3>3. CASE p \in kept /\ q \in kept
      BY <2>2, <3>3, <1>5 DEF UniqueRows
    <3>. QED  BY <3>1, <3>2, <3>3
  <2>. QED  BY <2>1, <2>2 DEF Distinct
<1>. QED  BY <1>1, <1>3, <1>4, <1>5, <1>9
-----------------------------------------------------------------------------
(* The invariant *)

LEMMA Initially == Init => IInv
<1>. SUFFICES ASSUME Init PROVE IInv
  OBVIOUS
<1>1. Typed
  BY InputsAssumption DEF Init, Typed, Switch, SwitchState
<1>2. Holding
  BY DEF Init, Holding
<1>. QED  BY <1>1, <1>2 DEF Init, IInv, UniqueRows

\* A step that only moves evaluation w on, or takes locks that are free for it,
\* keeps what the others hold.
LEMMA Moving ==
    ASSUME IInv, NEW w \in Workers, NEW locks \in SUBSET Lock, NEW e \in Evaluation,
           Free(locks), Take(w, locks), work' = [work EXCEPT ![w] = e],
           e.step \in {"context", "decide"} =>
               /\ e.cand \in locks \/ holder[e.cand] = w
               /\ e.lifecycle = transitions[e.cand],
           UNCHANGED <<clock, switch, transitions, reservations, decisions>>
    PROVE  IInv'
<1>1. holder \in [Lock -> Workers \cup {Nobody}] /\ work \in [Workers -> Evaluation \cup {Idle}]
  BY DEF IInv, Typed
<1>2. \A l \in Lock : holder'[l] = IF l \in locks THEN w ELSE holder[l]
  BY DEF Take
<1>3. holder' \in [Lock -> Workers \cup {Nobody}]
  BY <1>1 DEF Take
<1>4. work' \in [Workers -> Evaluation \cup {Idle}] /\ work'[w] = e
        /\ \A v \in Workers \ {w} : work'[v] = work[v]
  BY <1>1
<1>5. Typed'
  BY <1>3, <1>4 DEF IInv, Typed
<1>6. ASSUME NEW v \in Workers, work'[v] # Idle, work'[v].step \in {"context", "decide"}
      PROVE  holder'[work'[v].cand] = v /\ work'[v].lifecycle = transitions'[work'[v].cand]
  <2>1. work'[v] \in Evaluation /\ work'[v].cand \in Lock
    BY <1>4, <1>6 DEF Evaluation, Lock
  <2>2. CASE v = w
    BY <2>1, <2>2, <1>2, <1>4, <1>6
  <2>3. CASE v # w
    <3>1. holder[work[v].cand] = v /\ work[v].lifecycle = transitions[work[v].cand]
      BY <1>4, <1>6, <2>3 DEF IInv, Holding
    <3>2. work[v].cand \notin locks
      BY <3>1, LocksAssumption DEF Free
    <3>. QED  BY <1>2, <1>4, <2>1, <2>3, <3>1, <3>2
  <2>. QED  BY <2>2, <2>3
<1>. QED  BY <1>5, <1>6 DEF IInv, Holding, UniqueRows, Sound, IsRow

\* A step that ends evaluation w keeps what the others hold.
LEMMA Ending ==
    ASSUME IInv, NEW w \in Workers, End(w), UNCHANGED transitions
    PROVE  Holding' /\ holder' \in [Lock -> Workers \cup {Nobody}]
             /\ work' \in [Workers -> Evaluation \cup {Idle}]
<1>1. holder \in [Lock -> Workers \cup {Nobody}] /\ work \in [Workers -> Evaluation \cup {Idle}]
  BY DEF IInv, Typed
<1>2. \A l \in Lock : holder'[l] = IF holder[l] = w THEN Nobody ELSE holder[l]
  BY DEF End
<1>3. holder' \in [Lock -> Workers \cup {Nobody}]
  BY <1>1 DEF End
<1>4. work'[w] = Idle /\ \A v \in Workers \ {w} : work'[v] = work[v]
  BY <1>1 DEF End
<1>5. work' \in [Workers -> Evaluation \cup {Idle}]
  BY <1>1 DEF End
<1>6. ASSUME NEW v \in Workers, work'[v] # Idle, work'[v].step \in {"context", "decide"}
      PROVE  holder'[work'[v].cand] = v /\ work'[v].lifecycle = transitions'[work'[v].cand]
  <2>1. v # w /\ work'[v] = work[v]
    BY <1>4, <1>6
  <2>2. holder[work[v].cand] = v /\ work[v].lifecycle = transitions[work[v].cand]
    BY <1>6, <2>1 DEF IInv, Holding
  <2>3. work[v] \in Evaluation /\ work[v].cand \in Lock
    BY <1>1, <1>6, <2>1 DEF Evaluation, Lock
  <2>. QED  BY <1>2, <2>1, <2>2, <2>3
<1>. QED  BY <1>3, <1>5, <1>6 DEF Holding

\* What Decide writes: both indexes kept, every new decision sound, and a row only
\* activated for a live candidate under the inactive switch that was read.
LEMMA Deciding ==
    ASSUME IInv, NEW w \in Workers, Decide(w)
    PROVE  /\ \A r \in reservations' : IsRow(r)
           /\ Distinct(reservations')
           /\ \A d \in decisions' : Sound(d)
           /\ \A r \in reservations' \ reservations : r.status = "ACTIVE" =>
                 /\ r.cand = work[w].cand
                 /\ transitions[r.cand] = 0
                 /\ r.decision.switch = work[w].seen
                 /\ work[w].seen.state = "INACTIVE"
<1>. DEFINE e == work[w]
            d == Verdict(e)
<1>1. e \in Evaluation /\ e # Idle /\ e.step = "decide"
  BY DEF Decide, IInv, Typed, Idle
<1>2. /\ d.id = Fingerprint(e)
      /\ d.risk # 0 => e.lifecycle = 0 /\ e.seen.state = "INACTIVE"
      /\ Sound(d)
  BY <1>1, VerdictFacts DEF IInv
<1>3. e.lifecycle = transitions[e.cand]
  BY <1>1 DEF IInv, Holding
<1>4. Fingerprint(e).switch = e.seen
  BY DEF Fingerprint
<1>5. \A x \in decisions' : x \in decisions \/ x = d
  BY DEF Decide
<1>6. CASE d.risk = 0
  <2>1. reservations' = Release(Active(e.account, e.cand))
    BY <1>6 DEF Decide
  <2>2. Active(e.account, e.cand) \in SUBSET reservations
    BY DEF Active
  <2>. HIDE DEF d, e
  <2>3. /\ \A r \in reservations' : IsRow(r)
        /\ Distinct(reservations')
        /\ \A r \in reservations' : r.status = "ACTIVE" => r \in reservations
    BY <2>1, <2>2, ReleaseFacts DEF IInv
  <2>. QED  BY <1>2, <1>5, <2>3 DEF IInv
<1>7. CASE d.risk # 0
  <2>1. reservations' = Reserve(d.id, e.account, e.cand, d.risk, Until(e))
    BY <1>7 DEF Decide
  <2>. HIDE DEF d, e
  <2>2. /\ \A r \in reservations' : IsRow(r)
        /\ Distinct(reservations')
        /\ \A r \in reservations' : r.status = "ACTIVE" =>
              \/ r \in reservations
              \/ r.decision = d.id /\ r.account = e.account /\ r.cand = e.cand
    BY <2>1, ReserveFacts DEF IInv
  <2>3. \A r \in reservations' \ reservations : r.status = "ACTIVE" =>
              /\ r.cand = e.cand
              /\ transitions[r.cand] = 0
              /\ r.decision.switch = e.seen
              /\ e.seen.state = "INACTIVE"
    BY <1>2, <1>3, <1>4, <1>7, <2>2
  <2>. QED  BY <1>2, <1>5, <2>2, <2>3 DEF IInv, e
<1>. QED  BY <1>6, <1>7
-----------------------------------------------------------------------------
(* Every step *)

LEMMA Preserved == IInv /\ [Next]_vars => IInv'
<1>. SUFFICES ASSUME IInv, [Next]_vars PROVE IInv'
  OBVIOUS
<1>. USE DEF IInv
<1>1. ASSUME NEW w \in Workers, NEW a \in Accounts, NEW c \in Candidates, NEW t \in Requests,
             NEW now \in AsOf \cup {clock}, BeginEvaluation(w, a, c, t, now)
      PROVE  IInv'
  <2>. DEFINE e == [step |-> "account", account |-> a, cand |-> c, target |-> t, now |-> now,
                    lifecycle |-> 0, observed |-> "SAFE", trips |-> FALSE,
                    seen |-> [state |-> "UNKNOWN", id |-> 0]]
  <2>1. e \in Evaluation
    BY ModeAssumption, InputsAssumption
       DEF Typed, Evaluation, Step, Observation, Switch, SwitchState
  <2>2. work' = [work EXCEPT ![w] = e] /\ e.step \notin {"context", "decide"}
    BY <1>1 DEF BeginEvaluation
  <2>3. {} \in SUBSET Lock /\ Free({}) /\ Take(w, {})
    BY <1>1 DEF BeginEvaluation, Free, Take, Typed
  <2>4. UNCHANGED <<clock, switch, transitions, reservations, decisions>>
    BY <1>1 DEF BeginEvaluation
  <2>. HIDE DEF e
  <2>. QED  BY <2>1, <2>2, <2>3, <2>4, Moving
<1>2. ASSUME NEW w \in Workers, LockAccount(w)
      PROVE  IInv'
  <2>. DEFINE e == [work[w] EXCEPT !.step = "candidate"]
  <2>1. work[w] \in Evaluation
    BY <1>2 DEF LockAccount, Typed, Idle
  <2>2. e \in Evaluation /\ e.step = "candidate" /\ {work[w].account} \in SUBSET Lock
    BY <2>1 DEF Evaluation, Step, Lock
  <2>3. /\ work' = [work EXCEPT ![w] = e]
        /\ Free({work[w].account}) /\ Take(w, {work[w].account})
        /\ UNCHANGED <<clock, switch, transitions, reservations, decisions>>
    BY <1>2 DEF LockAccount
  <2>. HIDE DEF e
  <2>. QED  BY <2>2, <2>3, Moving
<1>3. ASSUME NEW w \in Workers, ResolveCandidate(w)
      PROVE  IInv'
  <2>. DEFINE c == work[w].cand
              e == [work[w] EXCEPT !.step = "context", !.lifecycle = transitions[c]]
  <2>1. work[w] \in Evaluation
    BY <1>3 DEF ResolveCandidate, Typed, Idle
  <2>2. c \in Candidates /\ transitions[c] \in Nat
    BY <2>1 DEF Evaluation, Typed
  <2>3. /\ e \in Evaluation /\ e.cand = c /\ e.lifecycle = transitions[c]
        /\ {c} \in SUBSET Lock
    BY <2>1, <2>2 DEF Evaluation, Step, Lock
  <2>4. /\ work' = [work EXCEPT ![w] = e] /\ Free({c}) /\ Take(w, {c})
        /\ UNCHANGED <<clock, switch, transitions, reservations, decisions>>
    BY <1>3 DEF ResolveCandidate
  <2>. HIDE DEF e, c
  <2>. QED  BY <2>3, <2>4, Moving
<1>4. ASSUME NEW w \in Workers, NEW found \in Findings, NEW trips \in BOOLEAN,
             GatherContext(w, found, trips)
      PROVE  IInv'
  <2>. DEFINE observed == found.observed
              target == TargetRisk(found.news, work[w].target)
              locks == (IF observed = "BREACH" THEN {} ELSE {HealthRow})
                         \cup (IF trips THEN {SwitchAction} ELSE {})
              seen == IF trips THEN Tripped ELSE switch
              e == [work[w] EXCEPT !.step = "decide", !.observed = observed,
                                   !.target = target, !.trips = trips, !.seen = seen]
  <2>1. work[w] \in Evaluation /\ work[w].step = "context" /\ work[w] # Idle
    BY <1>4 DEF GatherContext, Typed, Idle
  <2>2. seen \in Switch
    BY DEF Typed, Tripped, Switch, SwitchState
  <2>3. observed \in Observation
    BY DEF Findings, Finding, Observe, Observation
  <2>4. target \in Nat
    BY <2>1 DEF TargetRisk, Evaluation
  <2>5. /\ work' = [work EXCEPT ![w] = e] /\ Free(locks) /\ Take(w, locks)
        /\ UNCHANGED <<clock, switch, transitions, reservations, decisions>>
    BY <1>4 DEF GatherContext
  <2>. HIDE DEF observed, target
  <2>6. /\ e \in Evaluation /\ e.cand = work[w].cand /\ e.lifecycle = work[w].lifecycle
        /\ locks \in SUBSET Lock
    BY <2>1, <2>2, <2>3, <2>4 DEF Evaluation, Step, Lock
  <2>7. holder[work[w].cand] = w /\ work[w].lifecycle = transitions[work[w].cand]
    BY <2>1 DEF Holding
  <2>. HIDE DEF e, locks, seen
  <2>. QED  BY <2>6, <2>7, <2>5, Moving
<1>5. ASSUME NEW w \in Workers, Decide(w)
      PROVE  IInv'
  <2>1. End(w) /\ UNCHANGED <<clock, transitions>>
    BY <1>5 DEF Decide
  <2>2. Holding' /\ holder' \in [Lock -> Workers \cup {Nobody}]
          /\ work' \in [Workers -> Evaluation \cup {Idle}]
    BY <2>1, Ending
  <2>3. switch' \in Switch
    <3>1. work[w] \in Evaluation
      BY <1>5 DEF Decide, Typed, Idle
    <3>2. work[w].seen \in Switch
      BY <3>1 DEF Evaluation
    <3>. QED  BY <1>5, <3>2 DEF Decide, Typed
  <2>4. /\ \A r \in reservations' : IsRow(r)
        /\ Distinct(reservations')
        /\ \A d \in decisions' : Sound(d)
    BY <1>5, Deciding
  <2>5. UniqueRows'
    BY <2>4 DEF Distinct, UniqueRows
  <2>6. Typed'
    BY <2>1, <2>2, <2>3 DEF Typed
  <2>. QED  BY <2>2, <2>4, <2>5, <2>6 DEF Sound, IsRow
<1>6. ASSUME NEW w \in Workers, AbortEvaluation(w)
      PROVE  IInv'
  <2>1. End(w) /\ UNCHANGED <<clock, switch, transitions, reservations, decisions>>
    BY <1>6 DEF AbortEvaluation
  <2>2. Holding' /\ holder' \in [Lock -> Workers \cup {Nobody}]
          /\ work' \in [Workers -> Evaluation \cup {Idle}]
    BY <2>1, Ending
  <2>3. Typed'
    BY <2>1, <2>2 DEF Typed
  <2>. QED  BY <2>1, <2>2, <2>3 DEF UniqueRows, Sound, IsRow
<1>7. CASE EndCandidate
  <2>. DEFINE c == analysis.cand
              gone == UNION {Active(a, c) : a \in analysis.visible}
  <2>1. reservations' = Release(gone) /\ gone \in SUBSET reservations
    BY <1>7 DEF EndCandidate, Active
  <2>2. /\ \A r \in reservations' : IsRow(r)
        /\ Distinct(reservations')
    <3>. HIDE DEF gone
    <3>. QED  BY <2>1, ReleaseFacts
  <2>3. /\ transitions' = [transitions EXCEPT ![c] = @ + 1]
        /\ holder[c] = Nobody
        /\ UNCHANGED <<clock, switch, decisions, holder, work>>
    BY <1>7 DEF EndCandidate, Free
  <2>4. Typed'
    <3>. HIDE DEF c
    <3>1. transitions \in [Candidates -> Nat]
      BY DEF Typed
    <3>2. \A x \in Candidates : transitions'[x] \in Nat
      BY <2>3, <3>1
    <3>3. transitions' \in [Candidates -> Nat]
      BY <2>3, <3>1, <3>2
    <3>. QED  BY <2>3, <3>3 DEF Typed
  <2>5. Holding'
    <3>1. ASSUME NEW w \in Workers, work[w] # Idle, work[w].step \in {"context", "decide"}
          PROVE  work[w].cand # c
      BY <2>3, <3>1, LocksAssumption DEF Holding
    <3>2. ASSUME NEW w \in Workers, work[w] # Idle, work[w].step \in {"context", "decide"}
          PROVE  transitions'[work[w].cand] = transitions[work[w].cand]
      <4>1. work[w] \in Evaluation /\ work[w].cand \in Candidates
        BY <3>2 DEF Typed, Evaluation
      <4>. QED  BY <2>3, <3>1, <3>2, <4>1 DEF Typed
    <3>. QED  BY <2>3, <3>2 DEF Holding
  <2>6. UniqueRows'
    BY <2>2 DEF Distinct, UniqueRows
  <2>. QED  BY <2>2, <2>3, <2>4, <2>5, <2>6 DEF Sound, IsRow
<1>8. ASSUME NEW state \in {"ACTIVE", "INACTIVE"}, SetSwitch(state)
      PROVE  IInv'
  <2>1. switch' \in Switch
    BY <1>8 DEF SetSwitch, Typed, Switch, SwitchState
  <2>2. UNCHANGED <<clock, transitions, reservations, decisions, holder, work>>
    BY <1>8 DEF SetSwitch
  <2>. QED  BY <2>1, <2>2 DEF Typed, Holding, UniqueRows, Sound, IsRow
<1>9. CASE Tick
  <2>1. clock' \in Nat /\ UNCHANGED <<switch, transitions, reservations, decisions, holder, work>>
    BY <1>9 DEF Tick, Typed
  <2>. QED  BY <2>1 DEF Typed, Holding, UniqueRows, Sound, IsRow
<1>10. ASSUME UNCHANGED <<clock, switch, transitions, reservations, decisions, holder, work>>
       PROVE  IInv'
  BY <1>10 DEF Typed, Holding, UniqueRows, Sound, IsRow
<1>11. (\E c \in Candidates : BeginAnalysis(c)) \/ AbandonAnalysis \/ UNCHANGED vars
         => UNCHANGED <<clock, switch, transitions, reservations, decisions, holder, work>>
  BY DEF BeginAnalysis, AbandonAnalysis, vars
<1>. QED
  BY <1>1, <1>2, <1>3, <1>4, <1>5, <1>6, <1>7, <1>8, <1>9, <1>10, <1>11 DEF Next, Advance

\* The inductive invariant holds in every reachable state.
THEOREM Invariance == Spec => []IInv
<1>. QED  BY Initially, Preserved, PTL DEF Spec

\* The unique indexes never refuse a reservation (create_reservation and
\* release_candidate_reservations keep them, with no help from the database).
THEOREM UniqueRowsAlways == Spec => []UniqueRows
<1>1. IInv => UniqueRows
  BY DEF IInv
<1>. QED  BY <1>1, Invariance, PTL

\* What a step may add to the active reservations.
LEMMA Activating ==
    ASSUME IInv, Next, NEW r \in reservations' \ reservations, r.status = "ACTIVE"
    PROVE  /\ transitions[r.cand] = 0
           /\ \E w \in Workers :
                 /\ Decide(w)
                 /\ r.decision.switch = work[w].seen
                 /\ work[w].seen.state = "INACTIVE"
<1>1. ASSUME NEW w \in Workers, Decide(w)
      PROVE  /\ transitions[r.cand] = 0
             /\ r.decision.switch = work[w].seen
             /\ work[w].seen.state = "INACTIVE"
  BY <1>1, Deciding
<1>2. ~EndCandidate
  <2>. SUFFICES ASSUME EndCandidate PROVE FALSE
    OBVIOUS
  <2>. DEFINE gone == UNION {Active(a, analysis.cand) : a \in analysis.visible}
  <2>1. reservations' = Release(gone) /\ gone \in SUBSET reservations
    BY DEF EndCandidate, Active
  <2>. HIDE DEF gone
  <2>. QED  BY <2>1, ReleaseFacts DEF IInv
<1>3. reservations' # reservations
  OBVIOUS
<1>4. \A w \in Workers, found \in Findings, trips \in BOOLEAN : ~GatherContext(w, found, trips)
  BY <1>3 DEF GatherContext
<1>5. \E w \in Workers : Decide(w)
  BY <1>2, <1>3, <1>4 DEF Next, Advance, BeginEvaluation, LockAccount, ResolveCandidate,
     AbortEvaluation, BeginAnalysis, AbandonAnalysis, SetSwitch, Tick
<1>. QED  BY <1>1, <1>5

\* No reservation of an ended candidate is ever made or reactivated: what the row
\* lock of resolve_candidate_current_lifecycle is for.
THEOREM EndedGetsNothingAlways == Spec => EndedGetsNothing
<1>1. IInv /\ [Next]_vars =>
        [\A r \in reservations' : r.status = "ACTIVE" /\ transitions[r.cand] > 0
            => r \in reservations]_vars
  <2>. SUFFICES ASSUME IInv, Next, NEW r \in reservations', r.status = "ACTIVE",
                       transitions[r.cand] > 0, r \notin reservations
                PROVE  FALSE
    BY DEF vars
  <2>1. transitions[r.cand] = 0
    BY Activating
  <2>. QED  BY <2>1
<1>. QED  BY <1>1, Invariance, PTL DEF Spec, EndedGetsNothing

\* A cached approval is only reserved again under the switch record it was made
\* under: what the kill-switch part of the fingerprint is for.
THEOREM NoRevivalAcrossActivationAlways == Spec => NoRevivalAcrossActivation
<1>. DEFINE NoRevival ==
              \A w \in Workers : work[w].step = "decide" /\ work'[w] = Idle =>
                 \A r \in reservations' \ reservations :
                    r.status = "ACTIVE" =>
                       r.decision.switch = work[w].seen /\ work[w].seen.state = "INACTIVE"
<1>1. IInv /\ [Next]_vars => [NoRevival]_vars
  <2>. SUFFICES ASSUME IInv, Next, NEW w \in Workers, work[w].step = "decide",
                       work'[w] = Idle, NEW r \in reservations' \ reservations,
                       r.status = "ACTIVE"
                PROVE  r.decision.switch = work[w].seen /\ work[w].seen.state = "INACTIVE"
    OBVIOUS
  <2>1. PICK v \in Workers : /\ Decide(v)
                             /\ r.decision.switch = work[v].seen
                             /\ work[v].seen.state = "INACTIVE"
    BY Activating
  <2>2. work[w] # Idle
    BY DEF Idle
  <2>3. v = w
    BY <2>1, <2>2 DEF Decide, End, IInv, Typed
  <2>. QED  BY <2>1, <2>3
<1>. QED  BY <1>1, Invariance, PTL DEF Spec, NoRevivalAcrossActivation
-----------------------------------------------------------------------------
(* How risks add up *)

\* The quanta of risk of a set of rows, one by one: the risk of the set is their number.
Quanta(rows) == {p \in rows \X Nat : p[2] \in 1..p[1].risk}

\* A row adds as many quanta as its risk.
LEMMA QuantaAdd ==
    ASSUME NEW rows, NEW r \in rows, r.risk \in Nat, IsFiniteSet(Quanta(rows \ {r}))
    PROVE  /\ IsFiniteSet(Quanta(rows))
           /\ Cardinality(Quanta(rows)) = r.risk + Cardinality(Quanta(rows \ {r}))
<1>. DEFINE Block == {r} \X (1..r.risk)
            Rest == Quanta(rows \ {r})
<1>1. IsFiniteSet(1..r.risk) /\ Cardinality(1..r.risk) = r.risk
  BY FS_Interval
<1>2. IsFiniteSet({r}) /\ Cardinality({r}) = 1
  BY FS_Singleton
<1>3. IsFiniteSet(Block) /\ Cardinality(Block) = 1 * r.risk
  <2>1. /\ IsFiniteSet({r} \X (1..r.risk))
        /\ Cardinality({r} \X (1..r.risk)) = Cardinality({r}) * Cardinality(1..r.risk)
    BY <1>1, <1>2, FS_Product, Zenon
  <2>. QED  BY <1>1, <1>2, <2>1
<1>4. Quanta(rows) = Rest \cup Block
  <2>1. ASSUME NEW p \in Quanta(rows)
        PROVE  p \in Rest \cup Block
    <3>1. /\ p \in rows \X Nat /\ p[2] \in 1..p[1].risk /\ p = <<p[1], p[2]>>
          /\ p[1] \in rows
      BY <2>1 DEF Quanta
    <3>2. CASE p[1] = r
      BY <3>1, <3>2
    <3>3. CASE p[1] # r
      BY <3>1, <3>3 DEF Quanta
    <3>. QED  BY <3>2, <3>3
  <2>2. ASSUME NEW p \in Rest
        PROVE  p \in Quanta(rows)
    BY DEF Quanta
  <2>3. ASSUME NEW p \in Block
        PROVE  p \in Quanta(rows)
    BY DEF Quanta
  <2>. QED  BY <2>1, <2>2, <2>3
<1>5. Rest \cap Block = {}
  BY DEF Quanta
<1>6. IsFiniteSet(Rest) /\ Cardinality(Rest) \in Nat
  BY FS_CardinalityType
<1>. HIDE DEF Block, Rest
<1>7. /\ IsFiniteSet(Rest \cup Block)
      /\ Cardinality(Rest \cup Block) = Cardinality(Rest) + Cardinality(Block) - Cardinality({})
  <2>1. /\ IsFiniteSet(Rest \cup Block)
        /\ Cardinality(Rest \cup Block)
             = Cardinality(Rest) + Cardinality(Block) - Cardinality(Rest \cap Block)
    BY <1>3, <1>6, FS_Union, Zenon
  <2>. QED  BY <1>5, <2>1
<1>8. Cardinality({}) = 0 /\ 1 * r.risk = r.risk
  BY FS_EmptySet
<1>. QED  BY <1>3, <1>4, <1>6, <1>7, <1>8 DEF Rest

\* The recursive function that Risk is defined by exists, and is what its equation says.
LEMMA RiskUnfolds ==
    ASSUME NEW rows, IsFiniteSet(rows)
    PROVE  \E g : /\ g = [s \in SUBSET rows |->
                            IF s = {} THEN 0
                            ELSE (CHOOSE x \in s : TRUE).risk + g[s \ {CHOOSE x \in s : TRUE}]]
                  /\ Risk(rows) = g[rows]
<1>. DEFINE First(s) == CHOOSE x \in s : TRUE
            Unfold(g, s) == IF s = {} THEN 0 ELSE First(s).risk + g[s \ {First(s)}]
            Small(n) == {s \in SUBSET rows : Cardinality(s) <= n}
            Upto(g, n) == g = [s \in Small(n) |-> Unfold(g, s)]
            S == {n \in Nat : \E g : Upto(g, n)}
<1>1. \A s \in SUBSET rows : IsFiniteSet(s) /\ Cardinality(s) \in Nat
  BY FS_Subset, FS_CardinalityType
<1>2. \A n \in Nat : \A s \in Small(n + 1) : s # {} => s \ {First(s)} \in Small(n)
  <2>. SUFFICES ASSUME NEW n \in Nat, NEW s \in Small(n + 1), s # {}
                PROVE  s \ {First(s)} \in Small(n)
    OBVIOUS
  <2>1. First(s) \in s
    OBVIOUS
  <2>. HIDE DEF First
  <2>2. Cardinality(s \ {First(s)}) = Cardinality(s) - 1
    BY <1>1, <2>1, FS_RemoveElement
  <2>. QED  BY <1>1, <2>2
<1>3. \A n \in Nat : Small(n) \subseteq Small(n + 1)
  BY <1>1
<1>4. 0 \in S
  <2>. DEFINE g == [s \in Small(0) |-> 0]
  <2>1. \A s \in Small(0) : s = {}
    BY <1>1, FS_EmptySet
  <2>2. \A s \in Small(0) : Unfold(g, s) = g[s]
    BY <2>1
  <2>3. Upto(g, 0)
    <3>. HIDE DEF Unfold
    <3>. QED  BY <2>2
  <2>. HIDE DEF Upto, g
  <2>. QED  BY <2>3
<1>5. ASSUME NEW n \in Nat, n \in S
      PROVE  n + 1 \in S
  <2>1. PICK g : Upto(g, n)
    BY <1>5
  <2>. DEFINE h == [s \in Small(n + 1) |-> IF s \in Small(n) THEN g[s] ELSE Unfold(g, s)]
  <2>2. \A s \in Small(n) : s \in Small(n + 1) /\ h[s] = g[s]
    BY <1>3
  <2>3. \A s \in Small(n + 1) : Unfold(h, s) = Unfold(g, s)
    <3>. HIDE DEF h, Small, First
    <3>. QED  BY <1>2, <2>2
  <2>. HIDE DEF Unfold, Small
  <2>4. \A s \in Small(n) : g[s] = Unfold(g, s)
    BY <2>1
  <2>5. \A s \in Small(n + 1) : h[s] = Unfold(h, s)
    BY <2>3, <2>4
  <2>6. Upto(h, n + 1)
    BY <2>5
  <2>. HIDE DEF Upto, h
  <2>. QED  BY <2>6
<1>6. Cardinality(rows) \in S
  <2>1. Cardinality(rows) \in Nat
    BY <1>1
  <2>. HIDE DEF S
  <2>. QED  BY <1>4, <1>5, <2>1, SetInduction
<1>7. Small(Cardinality(rows)) = SUBSET rows
  BY <1>1, FS_Subset
<1>. DEFINE All(g) == g = [s \in SUBSET rows |-> Unfold(g, s)]
<1>8. \E g : All(g)
  <2>1. PICK g : Upto(g, Cardinality(rows))
    BY <1>6
  <2>2. All(g)
    <3>. HIDE DEF Small, Unfold
    <3>. QED  BY <1>7, <2>1
  <2>. HIDE DEF All
  <2>. QED  BY <2>2
<1>9. Risk(rows) = (CHOOSE g : All(g))[rows]
  BY DEF Risk, MapThenSumSet, MapThenFoldSet
<1>. QED  BY <1>8, <1>9

\* Rows with risks of their types, finitely many.
Summable(rows) == IsFiniteSet(rows) /\ \A r \in rows : r.risk \in Nat

\* The risk of a finite set of rows is the number of their quanta.
LEMMA RiskIsQuanta ==
    ASSUME NEW rows, Summable(rows)
    PROVE  IsFiniteSet(Quanta(rows)) /\ Risk(rows) = Cardinality(Quanta(rows))
<1>. DEFINE First(s) == CHOOSE x \in s : TRUE
            All(g) == g = [s \in SUBSET rows |->
                              IF s = {} THEN 0 ELSE First(s).risk + g[s \ {First(s)}]]
<1>1. PICK g : All(g) /\ Risk(rows) = g[rows]
  BY RiskUnfolds DEF Summable
<1>2. /\ g[{}] = 0
      /\ \A s \in SUBSET rows : s # {} => g[s] = First(s).risk + g[s \ {First(s)}]
  <2>1. \A s \in SUBSET rows : g[s] = IF s = {} THEN 0 ELSE First(s).risk + g[s \ {First(s)}]
    <3>. HIDE DEF First
    <3>. QED  BY <1>1
  <2>. HIDE DEF First
  <2>. QED  BY <2>1
<1>3. \A s \in SUBSET rows : s # {} => First(s) \in s
  OBVIOUS
<1>. HIDE DEF First, All
<1>. DEFINE Counts(s) == IsFiniteSet(Quanta(s)) /\ g[s] = Cardinality(Quanta(s))
            S == {n \in Nat : \A s \in SUBSET rows : Cardinality(s) = n => Counts(s)}
<1>4. \A s \in SUBSET rows : IsFiniteSet(s) /\ Cardinality(s) \in Nat
  BY FS_Subset, FS_CardinalityType DEF Summable
<1>5. 0 \in S
  <2>1. Quanta({}) = {}
    BY DEF Quanta
  <2>2. Counts({})
    BY <1>2, <2>1, FS_EmptySet
  <2>3. \A s \in SUBSET rows : Cardinality(s) = 0 => s = {}
    BY <1>4, FS_EmptySet
  <2>. HIDE DEF Counts
  <2>. QED  BY <2>2, <2>3
<1>6. ASSUME NEW n \in Nat, n \in S
      PROVE  n + 1 \in S
  <2>1. ASSUME NEW s \in SUBSET rows, Cardinality(s) = n + 1
        PROVE  Counts(s)
    <3>. DEFINE x == First(s)
                t == s \ {x}
    <3>1. s # {}
      BY <2>1, FS_EmptySet
    <3>2. x \in s /\ x.risk \in Nat
      BY <1>3, <3>1 DEF Summable
    <3>3. Cardinality(t) = n /\ t \in SUBSET rows
      <4>. HIDE DEF x
      <4>. QED  BY <1>4, <2>1, <3>2, FS_RemoveElement
    <3>4. Counts(t)
      BY <1>6, <3>3
    <3>5. g[s] = x.risk + g[t]
      BY <1>2, <3>1
    <3>. HIDE DEF x
    <3>. QED  BY <3>2, <3>4, <3>5, QuantaAdd
  <2>. HIDE DEF Counts
  <2>. QED  BY <2>1
<1>7. Counts(rows)
  <2>1. Cardinality(rows) \in Nat
    BY <1>4
  <2>2. Nat \subseteq S
    <3>. HIDE DEF S
    <3>. QED  BY <1>5, <1>6, SetInduction
  <2>. HIDE DEF Counts
  <2>. QED  BY <2>1, <2>2
<1>. QED  BY <1>1, <1>7

\* What the sums of risks owe to: fewer rows have no more risk, and one row more adds its own.
LEMMA RiskTypes ==
    ASSUME NEW rows, Summable(rows)
    PROVE  Risk(rows) \in Nat
BY RiskIsQuanta, FS_CardinalityType

\* Fewer rows, no more risk.
LEMMA RiskMonotone ==
    ASSUME NEW rows, Summable(rows), NEW some \in SUBSET rows
    PROVE  Summable(some) /\ Risk(some) <= Risk(rows)
<1>1. Summable(some)
  BY FS_Subset DEF Summable
<1>2. Quanta(some) \in SUBSET Quanta(rows)
  BY DEF Quanta
<1>. QED  BY <1>1, <1>2, RiskIsQuanta, FS_Subset

\* One more row adds at most its risk.
LEMMA RiskAdd ==
    ASSUME NEW rows, Summable(rows), NEW r, r.risk \in Nat
    PROVE  Summable(rows \cup {r}) /\ Risk(rows \cup {r}) <= Risk(rows) + r.risk
<1>1. Summable(rows \cup {r})
  BY FS_AddElement DEF Summable
<1>2. CASE r \in rows
  <2>1. rows \cup {r} = rows
    BY <1>2
  <2>. QED  BY <1>1, <2>1, RiskTypes
<1>3. CASE r \notin rows
  <2>1. (rows \cup {r}) \ {r} = rows /\ r \in rows \cup {r}
    BY <1>3
  <2>2. Cardinality(Quanta(rows \cup {r})) = r.risk + Cardinality(Quanta(rows))
    BY <2>1, QuantaAdd, RiskIsQuanta
  <2>3. Risk(rows \cup {r}) = r.risk + Risk(rows)
    BY <1>1, <2>2, RiskIsQuanta
  <2>. QED  BY <1>1, <2>3, RiskTypes
<1>. QED  BY <1>2, <1>3

-----------------------------------------------------------------------------
(* What a set of choices yields *)

\* The smaller of two numbers is one of them.
LEMMA MinOfTwo ==
    ASSUME NEW m \in Nat, NEW n \in Nat
    PROVE  Min({m, n}) \in {m, n} /\ Min({m, n}) <= m /\ Min({m, n}) <= n
<1>1. \E x \in {m, n} : \A y \in {m, n} : x <= y
  OBVIOUS
<1>. QED  BY <1>1 DEF Min

-----------------------------------------------------------------------------
(* Rows and their limits *)

Rows(rows) == rows \subseteq Reservation /\ IsFiniteSet(rows)

\* What counts against account a at now for other candidates than c.
Others(a, c, now) == {r \in Live(a, now) : r.cand # c}

\* An approval fits with what was reserved for the other candidates when it was made.
Affordable(d) ==
    d.risk # 0 =>
        d.id.exposure + d.risk <= MaxAccountRisk /\ d.id.exposure + d.risk <= MaxSymbolRisk

\* In PAPER mode no evaluation has a now ahead of the hosts' clock, so a row that counts
\* by the clock counted for it.
CInv ==
    /\ IInv
    /\ TypeOK
    /\ Rows(reservations)
    /\ TradingMode = "PAPER" => \A w \in Workers : work[w] # Idle => work[w].now <= clock
    /\ \A d \in decisions : Affordable(d)
    /\ WithinCapacity

\* Whatever is selected from the table can be added up.
LEMMA RowsSummable ==
    ASSUME NEW rows, Rows(rows), NEW some \in SUBSET rows
    PROVE  Summable(some) /\ Risk(some) \in Nat
<1>1. Summable(rows)
  BY DEF Rows, Summable, Reservation
<1>. QED  BY <1>1, RiskMonotone, RiskTypes

\* The rows of a retry are at most one, and they do not count.
LEMMA EffectiveIsOthers ==
    ASSUME Rows(reservations), UniqueRows, NEW a, NEW c, NEW now
    PROVE  Effective(a, c, now) = Others(a, c, now)
<1>. DEFINE own == {r \in Live(a, now) : r.cand = c}
<1>1. IsFiniteSet(own)
  BY FS_Subset DEF Rows, Live
<1>2. \A r, s \in own : r = s
  BY DEF UniqueRows, Live
<1>3. own # {} => Cardinality(own) = 1
  <2>1. own # {} => \E x : own = {x}
    <3>. HIDE DEF own
    <3>. QED  BY <1>2
  <2>. HIDE DEF own
  <2>. QED  BY <1>1, <2>1, FS_Singleton
<1>4. CASE own = {}
  <2>1. Cardinality(own) # 1
    BY <1>4, FS_EmptySet
  <2>2. Effective(a, c, now) = Live(a, now)
    BY <2>1 DEF Effective
  <2>. QED  BY <1>4, <2>2 DEF Others
<1>5. CASE own # {}
  <2>1. Effective(a, c, now) = Live(a, now) \ own
    BY <1>3, <1>5 DEF Effective
  <2>. QED  BY <2>1 DEF Others
<1>. QED  BY <1>4, <1>5

\* What is granted fits all the limits, if anything is granted.
LEMMA GrantedFits ==
    ASSUME Rows(reservations), NEW a, NEW c, NEW now, NEW target \in Nat
    PROVE  /\ Granted(a, c, now, target) \in Nat
           /\ Granted(a, c, now, target) # 0 => Fits(a, c, now, Granted(a, c, now, target))
<1>. DEFINE most == Min({target, MaxRisk})
            fitting == {r \in 0..most : Fits(a, c, now, r)}
            rows == Effective(a, c, now)
            side == {r \in rows : Direction[r.cand] = Direction[c]}
<1>1. most \in Nat
  BY MinOfTwo, PolicyAssumption
<1>2. Risk(rows) \in Nat /\ Risk(side) \in Nat
  <2>1. rows \in SUBSET reservations /\ side \in SUBSET reservations
    BY DEF Effective, Live
  <2>. HIDE DEF rows, side
  <2>. QED  BY <2>1, RowsSummable
<1>3. Fits(a, c, now, MinRisk) => Fits(a, c, now, 0)
  <2>. HIDE DEF most, fitting
  <2>. QED  BY <1>2, PolicyAssumption DEF Fits
<1>4. CASE Fits(a, c, now, MinRisk) /\ Max(fitting) \in Sizable
  <2>1. 0 \in fitting
    BY <1>1, <1>3, <1>4
  <2>2. Max(fitting) \in fitting
    <3>1. fitting \in SUBSET (0..most)
      OBVIOUS
    <3>. HIDE DEF fitting, most
    <3>. QED  BY <1>1, <2>1, <3>1, MaxOfBounded
  <2>3. Granted(a, c, now, target) = Max(fitting)
    BY <1>4 DEF Granted
  <2>. QED  BY <1>1, <2>2, <2>3
<1>5. CASE ~(Fits(a, c, now, MinRisk) /\ Max(fitting) \in Sizable)
  BY <1>5 DEF Granted
<1>. QED  BY <1>4, <1>5

\* What the decision of an evaluation is, found again or made now.
LEMMA VerdictAffordable ==
    ASSUME CInv, NEW e \in Evaluation
    PROVE  /\ Verdict(e) \in Decision /\ Affordable(Verdict(e))
           /\ Verdict(e).id.exposure = Risk(Others(e.account, e.cand, e.now))
           /\ Verdict(e).id = Fingerprint(e)
           /\ Until(e) \in Nat
<1>. DEFINE F == Fingerprint(e)
            others == Others(e.account, e.cand, e.now)
            granted == Granted(e.account, e.cand, e.now, e.target)
            risk == IF Blocked(e) THEN 0 ELSE granted
            expires == IF risk = 0 THEN e.now + TTL ELSE Min({PlanExpiry[e.cand], e.now + TTL})
<1>1. /\ e.account \in Accounts /\ e.cand \in Candidates /\ e.target \in Nat /\ e.now \in Nat
      /\ e.lifecycle \in Nat /\ e.observed \in Observation /\ e.seen \in Switch
      /\ PlanExpiry[e.cand] \in Nat /\ e.now + TTL \in Nat
  BY InputsAssumption, PolicyAssumption DEF Evaluation
<1>2. F.exposure = Risk(others)
  BY DEF Fingerprint, Others
<1>3. others \in SUBSET reservations /\ Risk(others) \in Nat
  <2>1. others \in SUBSET reservations
    BY DEF Others, Live
  <2>. HIDE DEF others
  <2>. QED  BY <2>1, RowsSummable DEF CInv
<1>4. F \in DecisionId
  <2>1. /\ F = [account |-> e.account, cand |-> e.cand, transitions |-> e.lifecycle,
                switch |-> e.seen, observed |-> e.observed, expired |-> PlanExpiry[e.cand] <= e.now,
                exposure |-> Risk(others), target |-> e.target]
        /\ (PlanExpiry[e.cand] <= e.now) \in BOOLEAN
    BY DEF Fingerprint, Others
  <2>. HIDE DEF F, others
  <2>. QED  BY <1>1, <1>3, <2>1 DEF DecisionId
<1>5. CASE Cached(e) # {}
  <2>1. Verdict(e) \in Cached(e) /\ Until(e) = Min({e.now + TTL, Verdict(e).expires})
    BY <1>5 DEF Verdict, Until
  <2>2. Verdict(e) \in decisions /\ Verdict(e).id = F
    BY <2>1 DEF Cached
  <2>3. Verdict(e) \in Decision /\ Affordable(Verdict(e))
    BY <2>2 DEF CInv, TypeOK
  <2>4. Until(e) \in Nat
    <3>1. Verdict(e).expires \in Nat
      BY <2>3 DEF Decision
    <3>. QED  BY <1>1, <2>1, <3>1, MinOfTwo
  <2>. QED  BY <1>2, <2>2, <2>3, <2>4
<1>6. CASE Cached(e) = {}
  <2>1. Verdict(e) = [id |-> F, risk |-> risk, expires |-> expires] /\ Until(e) = e.now + TTL
    BY <1>6 DEF Verdict, Until, Fresh
  <2>2. granted \in Nat /\ (granted # 0 => Fits(e.account, e.cand, e.now, granted))
    BY <1>1, GrantedFits DEF CInv
  <2>3. expires \in Nat
    BY <1>1, MinOfTwo
  <2>4. Effective(e.account, e.cand, e.now) = others
    BY EffectiveIsOthers DEF CInv, IInv
  <2>5. granted # 0 =>
          Risk(others) + granted <= MaxAccountRisk /\ Risk(others) + granted <= MaxSymbolRisk
    BY <2>2, <2>4 DEF Fits
  <2>. HIDE DEF F, others, granted, expires
  <2>6. Verdict(e) \in Decision
    BY <1>4, <2>1, <2>2, <2>3 DEF Decision
  <2>7. Affordable(Verdict(e))
    BY <1>2, <2>1, <2>5 DEF Affordable
  <2>. QED  BY <1>1, <1>2, <2>1, <2>6, <2>7 DEF F, others
<1>. QED  BY <1>5, <1>6

\* Releasing rows activates none.
LEMMA ReleasedRows ==
    ASSUME NEW rows, Rows(rows)
    PROVE  Rows(Released(rows)) /\ \A q \in Released(rows) : q.status = "RELEASED"
<1>. DEFINE f == [r \in rows |-> [r EXCEPT !.status = "RELEASED"]]
<1>1. \A r \in rows : f[r] \in Reservation /\ f[r].status = "RELEASED"
  BY DEF Rows, Reservation
<1>2. Released(rows) = {f[r] : r \in rows}
  BY DEF Released
<1>. HIDE DEF f
<1>3. f \in Surjection(rows, Released(rows))
  <2>1. f \in [rows -> Released(rows)]
    BY <1>2 DEF f
  <2>. QED  BY <1>2, <2>1 DEF Surjection
<1>4. IsFiniteSet(Released(rows))
  BY <1>3, FS_Surjection DEF Rows
<1>. QED  BY <1>1, <1>2, <1>4 DEF Rows

\* What counts after a release counted before.
LEMMA ReleaseRows ==
    ASSUME Rows(reservations), NEW rows \in SUBSET reservations
    PROVE  /\ Rows(Release(rows))
           /\ \A r \in Release(rows) : r.status = "ACTIVE" => r \in reservations
<1>1. Rows(rows) /\ Rows(reservations \ rows)
  BY FS_Subset DEF Rows
<1>2. Rows(Released(rows)) /\ \A q \in Released(rows) : q.status = "RELEASED"
  BY <1>1, ReleasedRows
<1>. QED  BY <1>1, <1>2, FS_Union DEF Rows, Release

\* What counts after a reservation is its row, or counted before for another candidate
\* or account: the row that the candidate had is superseded or rewritten.
LEMMA ReserveRows ==
    ASSUME Rows(reservations), NEW d \in DecisionId, NEW a \in Accounts, NEW c \in Candidates,
           NEW risk \in Nat, NEW until \in Nat
    PROVE  LET row == [decision |-> d, account |-> a, cand |-> c, risk |-> risk,
                       status |-> "ACTIVE", until |-> until]
               rows == Reserve(d, a, c, risk, until)
           IN  /\ Rows(rows)
               /\ \A r \in rows : r.status = "ACTIVE" =>
                     r = row \/ (r \in reservations /\ ~(r.account = a /\ r.cand = c))
<1>. DEFINE exact == {r \in reservations : r.decision = d}
            row == [decision |-> d, account |-> a, cand |-> c, risk |-> risk,
                    status |-> "ACTIVE", until |-> until]
            gone == Active(a, c) \ exact
            superseded == IF exact = {} THEN {} ELSE Released(gone)
            kept == reservations \ (exact \cup Active(a, c))
<1>1. Reserve(d, a, c, risk, until) = kept \cup superseded \cup {row}
  BY DEF Reserve
<1>2. /\ Rows(kept) /\ Rows(gone)
      /\ \A r \in kept : r.status = "ACTIVE" => r \in reservations /\ ~(r.account = a /\ r.cand = c)
  BY FS_Subset DEF Rows, Active
<1>3. row \in Reservation
  BY DEF Reservation
<1>4. Rows(superseded) /\ \A q \in superseded : q.status = "RELEASED"
  <2>1. Rows({})
    BY FS_EmptySet DEF Rows
  <2>2. Rows(Released(gone)) /\ \A q \in Released(gone) : q.status = "RELEASED"
    <3>. HIDE DEF gone
    <3>. QED  BY <1>2, ReleasedRows
  <2>. HIDE DEF gone, exact
  <2>. QED  BY <2>1, <2>2
<1>. HIDE DEF kept, superseded, row
<1>5. IsFiniteSet(kept \cup superseded) /\ IsFiniteSet((kept \cup superseded) \cup {row})
  BY <1>2, <1>4, FS_Union, FS_AddElement DEF Rows
<1>6. Rows(kept \cup superseded \cup {row})
  BY <1>2, <1>3, <1>4, <1>5 DEF Rows
<1>7. \A r \in kept \cup superseded \cup {row} : r.status = "ACTIVE" =>
          r = row \/ (r \in reservations /\ ~(r.account = a /\ r.cand = c))
  BY <1>2, <1>4
<1>. QED  BY <1>1, <1>6, <1>7 DEF row

\* A step after which every row that counts counted before.
LEMMA CapacityKept ==
    ASSUME CInv, Rows(reservations'), clock \in Nat, clock' \in Nat, clock <= clock',
           \A r \in reservations' : r.status = "ACTIVE" => r \in reservations
    PROVE  WithinCapacity'
<1>. SUFFICES ASSUME TradingMode = "PAPER", NEW a \in Accounts
              PROVE  /\ Risk(Live(a, clock)') <= MaxAccountRisk
                     /\ Risk(Live(a, clock)') <= MaxSymbolRisk
  BY DEF WithinCapacity
<1>1. Live(a, clock)' \in SUBSET Live(a, clock)
  BY DEF Live, CInv, Rows, Reservation
<1>2. Summable(Live(a, clock)) /\ Risk(Live(a, clock)) \in Nat
  BY RowsSummable DEF Live, CInv
<1>3. Risk(Live(a, clock)') <= Risk(Live(a, clock))
  BY <1>1, <1>2, RiskMonotone
<1>4. Risk(Live(a, clock)') \in Nat
  BY <1>1, <1>2, RiskMonotone, RiskTypes
<1>. QED  BY <1>2, <1>3, <1>4, PolicyAssumption DEF CInv, WithinCapacity

\* An approval, made now or found again, fits with what the others have reserved as of
\* its now, for the fingerprint pins the risk of the others.
LEMMA ApprovalFits ==
    ASSUME CInv, NEW e \in Evaluation, Verdict(e).risk # 0,
           NEW row, row.risk = Verdict(e).risk,
           NEW some \in SUBSET (Others(e.account, e.cand, e.now) \cup {row})
    PROVE  Risk(some) <= MaxAccountRisk /\ Risk(some) <= MaxSymbolRisk
<1>. DEFINE d == Verdict(e)
            others == Others(e.account, e.cand, e.now)
<1>1. d \in Decision /\ Affordable(d) /\ d.id.exposure = Risk(others)
  BY VerdictAffordable
<1>2. d.risk \in Nat /\ d.risk = row.risk
  BY <1>1 DEF Decision
<1>3. Summable(others) /\ Risk(others) \in Nat
  BY RowsSummable DEF Others, Live, CInv
<1>4. Risk(others) + d.risk <= MaxAccountRisk /\ Risk(others) + d.risk <= MaxSymbolRisk
  BY <1>1 DEF Affordable
<1>. HIDE DEF others, d
<1>5. Summable(others \cup {row}) /\ Risk(others \cup {row}) <= Risk(others) + d.risk
  BY <1>2, <1>3, RiskAdd
<1>6. /\ Risk(some) <= Risk(others \cup {row})
      /\ Risk(some) \in Nat /\ Risk(others \cup {row}) \in Nat
  <2>1. some \in SUBSET (others \cup {row})
    BY DEF others
  <2>. QED  BY <1>5, <2>1, RiskMonotone, RiskTypes
<1>. QED  BY <1>2, <1>3, <1>4, <1>5, <1>6, PolicyAssumption

\* Deciding keeps the limits: an approval, made now or found again, fits with what the
\* others have reserved now, for the fingerprint pins the risk of the others.
LEMMA DecidingKeeps ==
    ASSUME CInv, NEW w \in Workers, Decide(w)
    PROVE  /\ Rows(reservations')
           /\ decisions' \subseteq Decision
           /\ \A d \in decisions' : Affordable(d)
           /\ WithinCapacity'
<1>. DEFINE e == work[w]
            d == Verdict(e)
<1>1. /\ e \in Evaluation /\ e.now \in Nat /\ clock \in Nat /\ clock' = clock
      /\ e.account \in Accounts /\ e.cand \in Candidates
      /\ TradingMode = "PAPER" => e.now <= clock
  BY DEF Decide, CInv, TypeOK, Idle, Evaluation
<1>2. /\ d \in Decision /\ Affordable(d) /\ Until(e) \in Nat
      /\ d.id.exposure = Risk(Others(e.account, e.cand, e.now))
  BY <1>1, VerdictAffordable
<1>3. d.id \in DecisionId /\ d.risk \in Nat
  BY <1>2 DEF Decision
<1>4. /\ decisions' \subseteq decisions \cup {d}
      /\ decisions \subseteq Decision /\ \A x \in decisions : Affordable(x)
  BY DEF Decide, CInv, TypeOK
<1>. HIDE DEF d, e
<1>5. decisions' \subseteq Decision /\ \A x \in decisions' : Affordable(x)
  BY <1>2, <1>4
<1>6. CASE d.risk = 0
  <2>1. reservations' = Release(Active(e.account, e.cand))
    BY <1>6 DEF Decide, d, e
  <2>2. Active(e.account, e.cand) \in SUBSET reservations
    BY DEF Active
  <2>3. Rows(reservations') /\ \A r \in reservations' : r.status = "ACTIVE" => r \in reservations
    BY <2>1, <2>2, ReleaseRows DEF CInv
  <2>4. WithinCapacity'
    BY <1>1, <2>3, CapacityKept
  <2>. QED  BY <1>5, <2>3, <2>4
<1>7. CASE d.risk # 0
  <2>. DEFINE row == [decision |-> d.id, account |-> e.account, cand |-> e.cand, risk |-> d.risk,
                      status |-> "ACTIVE", until |-> Until(e)]
  <2>1. reservations' = Reserve(d.id, e.account, e.cand, d.risk, Until(e))
    BY <1>7 DEF Decide, d, e
  <2>2. /\ Rows(reservations')
        /\ \A r \in reservations' : r.status = "ACTIVE" =>
              r = row \/ (r \in reservations /\ ~(r.account = e.account /\ r.cand = e.cand))
    BY <1>1, <1>2, <1>3, <2>1, ReserveRows DEF CInv
  <2>3. row.account = e.account /\ row.risk = d.risk
    OBVIOUS
  <2>. HIDE DEF row
  <2>4. ASSUME TradingMode = "PAPER", NEW a \in Accounts
        PROVE  /\ Risk(Live(a, clock)') <= MaxAccountRisk
               /\ Risk(Live(a, clock)') <= MaxSymbolRisk
    <3>1. CASE a = e.account
      <4>1. Live(a, clock)' \in SUBSET (Others(e.account, e.cand, e.now) \cup {row})
        BY <1>1, <2>2, <2>4, <3>1 DEF Live, Others, CInv, Rows, Reservation
      <4>. QED  BY <1>1, <1>7, <2>3, <4>1, ApprovalFits DEF d
    <3>2. CASE a # e.account
      <4>1. Live(a, clock)' \in SUBSET Live(a, clock)
        BY <1>1, <2>2, <2>3, <3>2 DEF Live
      <4>2. Summable(Live(a, clock)) /\ Risk(Live(a, clock)) \in Nat
        BY RowsSummable DEF Live, CInv
      <4>3. /\ Risk(Live(a, clock)') <= Risk(Live(a, clock))
            /\ Risk(Live(a, clock)') \in Nat
        BY <4>1, <4>2, RiskMonotone, RiskTypes
      <4>. QED  BY <2>4, <4>2, <4>3, PolicyAssumption DEF CInv, WithinCapacity
    <3>. QED  BY <3>1, <3>2
  <2>5. WithinCapacity'
    BY <2>4 DEF WithinCapacity
  <2>. QED  BY <1>5, <2>2, <2>5
<1>. QED  BY <1>6, <1>7

-----------------------------------------------------------------------------
(* What is reserved stays within the limits *)

\* Nothing is reserved at first.
LEMMA CapacityInitially == Init => CInv
<1>. SUFFICES ASSUME Init PROVE CInv
  OBVIOUS
<1>1. IInv
  BY Initially
<1>2. TypeOK /\ Rows(reservations)
  BY <1>1, FS_EmptySet DEF Init, IInv, Typed, TypeOK, Rows
<1>3. WithinCapacity
  <2>1. \A a \in Accounts : Live(a, clock) = {}
    BY DEF Init, Live
  <2>2. Risk({}) = 0
    <3>1. Summable({}) /\ Quanta({}) = {}
      BY FS_EmptySet DEF Summable, Quanta
    <3>. QED  BY <3>1, RiskIsQuanta, FS_EmptySet
  <2>. QED  BY <2>1, <2>2, PolicyAssumption DEF WithinCapacity
<1>. QED  BY <1>1, <1>2, <1>3 DEF Init, CInv

\* A step that writes no reservation and no decision, and in PAPER mode starts no
\* evaluation with a now of its own.
LEMMA WritingNothing ==
    ASSUME CInv, IInv', UNCHANGED <<reservations, decisions>>, analysis' \in Analysis \cup {Idle},
           clock' \in Nat, clock <= clock',
           TradingMode = "PAPER" => \A w \in Workers : work'[w] # Idle =>
              work'[w].now = clock \/ (work[w] # Idle /\ work'[w].now = work[w].now)
    PROVE  CInv'
<1>1. clock \in Nat /\ \A w \in Workers : work[w] # Idle => work[w].now \in Nat
  BY DEF CInv, TypeOK, Evaluation, Idle
<1>2. TypeOK'
  BY DEF CInv, IInv, Typed, TypeOK
<1>3. TradingMode = "PAPER" => \A w \in Workers : work'[w] # Idle => work'[w].now <= clock'
  <2>. SUFFICES ASSUME TradingMode = "PAPER", NEW w \in Workers, work'[w] # Idle
                PROVE  work'[w].now <= clock'
    OBVIOUS
  <2>1. CASE work'[w].now = clock
    BY <2>1
  <2>2. CASE work[w] # Idle /\ work'[w].now = work[w].now
    BY <1>1, <2>2 DEF CInv
  <2>. QED  BY <2>1, <2>2
<1>4. Rows(reservations') /\ \A r \in reservations' : r.status = "ACTIVE" => r \in reservations
  BY DEF CInv
<1>5. WithinCapacity'
  BY <1>1, <1>4, CapacityKept
<1>. QED  BY <1>2, <1>3, <1>4, <1>5 DEF CInv, Rows, Affordable

\* Every step keeps the limits.
LEMMA CapacityPreserved == CInv /\ [Next]_vars => CInv'
<1>. SUFFICES ASSUME CInv, [Next]_vars PROVE CInv'
  OBVIOUS
<1>1. IInv'
  BY Preserved DEF CInv
<1>2. clock \in Nat /\ work \in [Workers -> Evaluation \cup {Idle}]
      /\ analysis \in Analysis \cup {Idle}
  BY DEF CInv, TypeOK
<1>3. ASSUME NEW w \in Workers, Decide(w)
      PROVE  CInv'
  <2>1. /\ Rows(reservations') /\ decisions' \subseteq Decision
        /\ \A d \in decisions' : Affordable(d)
        /\ WithinCapacity'
    BY <1>3, DecidingKeeps
  <2>2. analysis' \in Analysis \cup {Idle}
    BY <1>2, <1>3 DEF Decide, Collides, Analysis, Idle
  <2>3. TypeOK'
    BY <1>1, <2>1, <2>2 DEF IInv, Typed, TypeOK, Rows
  <2>4. TradingMode = "PAPER" => \A v \in Workers : work'[v] # Idle => work'[v].now <= clock'
    BY <1>2, <1>3 DEF Decide, End, CInv
  <2>. QED  BY <1>1, <2>1, <2>3, <2>4 DEF CInv, Rows, Affordable
<1>4. CASE EndCandidate
  <2>. DEFINE gone == UNION {Active(a, analysis.cand) : a \in analysis.visible}
  <2>1. reservations' = Release(gone) /\ gone \in SUBSET reservations
    BY <1>4 DEF EndCandidate, Active
  <2>2. UNCHANGED <<clock, decisions, work>> /\ analysis' = Idle
    BY <1>4 DEF EndCandidate
  <2>. HIDE DEF gone
  <2>3. Rows(reservations') /\ \A r \in reservations' : r.status = "ACTIVE" => r \in reservations
    BY <2>1, ReleaseRows DEF CInv
  <2>4. WithinCapacity'
    BY <1>2, <2>2, <2>3, CapacityKept
  <2>5. TypeOK'
    BY <1>1, <2>2, <2>3 DEF CInv, IInv, Typed, TypeOK, Rows
  <2>. QED  BY <1>1, <2>2, <2>3, <2>4, <2>5 DEF CInv, Rows, Affordable
<1>5. ASSUME NEW w \in Workers, NEW a \in Accounts, NEW c \in Candidates, NEW t \in Requests,
             NEW now \in AsOf \cup {clock}, BeginEvaluation(w, a, c, t, now)
      PROVE  CInv'
  <2>1. UNCHANGED <<clock, reservations, decisions, analysis>>
    BY <1>5 DEF BeginEvaluation
  <2>2. /\ TradingMode = "PAPER" => work'[w].now = clock
        /\ \A v \in Workers \ {w} : work'[v] = work[v]
    BY <1>2, <1>5 DEF BeginEvaluation
  <2>. QED  BY <1>1, <1>2, <2>1, <2>2, WritingNothing
<1>6. ASSUME NEW w \in Workers,
             \/ LockAccount(w) \/ ResolveCandidate(w)
             \/ \E found \in Findings, trips \in BOOLEAN : GatherContext(w, found, trips)
      PROVE  CInv'
  <2>1. UNCHANGED <<clock, reservations, decisions, analysis>>
    BY <1>6 DEF LockAccount, ResolveCandidate, GatherContext
  <2>2. \A v \in Workers \ {w} : work'[v] = work[v]
    BY <1>2, <1>6 DEF LockAccount, ResolveCandidate, GatherContext
  <2>3. work[w] \in Evaluation /\ work[w] # Idle
    <3>1. work[w].step \in {"account", "candidate", "context"}
      BY <1>6 DEF LockAccount, ResolveCandidate, GatherContext
    <3>. QED  BY <1>2, <3>1 DEF Idle
  <2>4. work'[w].now = work[w].now
    <3>1. CASE LockAccount(w)
      BY <1>2, <2>3, <3>1 DEF LockAccount, Evaluation
    <3>2. CASE ResolveCandidate(w)
      BY <1>2, <2>3, <3>2 DEF ResolveCandidate, Evaluation
    <3>3. ASSUME NEW found \in Findings, NEW trips \in BOOLEAN, GatherContext(w, found, trips)
          PROVE  work'[w].now = work[w].now
      BY <1>2, <2>3, <3>3 DEF GatherContext, Evaluation
    <3>. QED  BY <1>6, <3>1, <3>2, <3>3
  <2>. QED  BY <1>1, <1>2, <2>1, <2>2, <2>3, <2>4, WritingNothing
<1>7. ASSUME NEW w \in Workers, AbortEvaluation(w)
      PROVE  CInv'
  <2>1. UNCHANGED <<clock, reservations, decisions, analysis>>
    BY <1>7 DEF AbortEvaluation
  <2>2. work'[w] = Idle /\ \A v \in Workers \ {w} : work'[v] = work[v]
    BY <1>2, <1>7 DEF AbortEvaluation, End
  <2>. QED  BY <1>1, <1>2, <2>1, <2>2, WritingNothing
<1>8. ASSUME NEW c \in Candidates, BeginAnalysis(c)
      PROVE  CInv'
  <2>1. UNCHANGED <<clock, reservations, decisions, work>>
    BY <1>8 DEF BeginAnalysis
  <2>2. analysis' \in Analysis
    BY <1>8 DEF BeginAnalysis, Analysis
  <2>. QED  BY <1>1, <1>2, <2>1, <2>2, WritingNothing
<1>9. CASE AbandonAnalysis \/ (\E s \in {"ACTIVE", "INACTIVE"} : SetSwitch(s)) \/ UNCHANGED vars
  <2>1. UNCHANGED <<clock, reservations, decisions, work>> /\ analysis' \in {analysis, Idle}
    BY <1>9 DEF AbandonAnalysis, SetSwitch, vars
  <2>. QED  BY <1>1, <1>2, <2>1, WritingNothing
<1>10. CASE Tick
  <2>1. clock' = clock + 1 /\ UNCHANGED <<reservations, decisions, work, analysis>>
    BY <1>10 DEF Tick
  <2>. QED  BY <1>1, <1>2, <2>1, WritingNothing
<1>. QED
  BY <1>3, <1>4, <1>5, <1>6, <1>7, <1>8, <1>9, <1>10 DEF Next, Advance

\* Rows, decisions and limits agree in every reachable state.
THEOREM CapacityInvariance == Spec => []CInv
<1>. QED  BY CapacityInitially, CapacityPreserved, PTL DEF Spec

\* Every variable keeps its type: the columns of the two tables, the steps of an
\* evaluation and the locks it holds.
THEOREM TypeCorrect == Spec => []TypeOK
<1>1. CInv => TypeOK
  BY DEF CInv
<1>. QED  BY <1>1, CapacityInvariance, PTL

\* In PAPER mode what is reserved never exceeds the limits of the account and of the
\* symbol, for any number of evaluations, although a cached approval is reserved again
\* without looking at them: its fingerprint pins what the others had reserved.
THEOREM WithinCapacityAlways == Spec => []WithinCapacity
<1>1. CInv => WithinCapacity
  BY DEF CInv
<1>. QED  BY <1>1, CapacityInvariance, PTL

\* In every mode, whatever instants the callers name, an approval leaves the account
\* within its limits as of the instant it was made for.
THEOREM ApprovalsFitAlways == Spec => ApprovalsFit
<1>1. CInv /\ [Next]_vars =>
        [\A w \in Workers : work[w].step = "decide" /\ work'[w] = Idle =>
            \A r \in reservations' \ reservations, now \in {work[w].now} :
               r.status = "ACTIVE" =>
                  /\ Risk(Live(r.account, now)') <= MaxAccountRisk
                  /\ Risk(Live(r.account, now)') <= MaxSymbolRisk]_vars
  <2>. SUFFICES ASSUME CInv, Next, NEW w \in Workers, work[w].step = "decide", work'[w] = Idle,
                       NEW r \in reservations' \ reservations, NEW now \in {work[w].now},
                       r.status = "ACTIVE"
                PROVE  /\ Risk(Live(r.account, now)') <= MaxAccountRisk
                       /\ Risk(Live(r.account, now)') <= MaxSymbolRisk
    BY DEF vars
  <2>. DEFINE e == work[w]
              d == Verdict(e)
              row == [decision |-> d.id, account |-> e.account, cand |-> e.cand, risk |-> d.risk,
                      status |-> "ACTIVE", until |-> Until(e)]
  <2>1. Decide(w)
    <3>1. PICK v \in Workers : Decide(v)
      BY Activating DEF CInv
    <3>2. work \in [Workers -> Evaluation \cup {Idle}] /\ work[w] # Idle
      BY DEF CInv, TypeOK, Idle
    <3>3. v = w
      BY <3>1, <3>2 DEF Decide, End
    <3>. QED  BY <3>1, <3>3
  <2>2. e \in Evaluation /\ e.now \in Nat /\ now = e.now
        /\ e.account \in Accounts /\ e.cand \in Candidates
    BY DEF CInv, TypeOK, Idle, Evaluation
  <2>3. d \in Decision /\ Until(e) \in Nat
    BY <2>2, VerdictAffordable
  <2>4. d.id \in DecisionId /\ d.risk \in Nat
    BY <2>3 DEF Decision
  <2>5. reservations' = IF d.risk = 0 THEN Release(Active(e.account, e.cand))
                        ELSE Reserve(d.id, e.account, e.cand, d.risk, Until(e))
    BY <2>1 DEF Decide
  <2>6. row.account = e.account /\ row.risk = d.risk
    OBVIOUS
  <2>. HIDE DEF e, d
  <2>7. Active(e.account, e.cand) \in SUBSET reservations
    BY DEF Active
  <2>8. d.risk # 0
    BY <2>5, <2>7, ReleaseRows DEF CInv
  <2>9. /\ Rows(reservations')
        /\ \A q \in reservations' : q.status = "ACTIVE" =>
              q = row \/ (q \in reservations /\ ~(q.account = e.account /\ q.cand = e.cand))
    BY <2>2, <2>3, <2>4, <2>5, <2>8, ReserveRows DEF CInv
  <2>10. r = row
    BY <2>9
  <2>. HIDE DEF row
  <2>11. Live(r.account, now)' \in SUBSET (Others(e.account, e.cand, e.now) \cup {row})
    BY <2>2, <2>6, <2>9, <2>10 DEF Live, Others
  <2>. QED  BY <2>2, <2>6, <2>8, <2>11, ApprovalFits DEF d
<1>. QED  BY <1>1, CapacityInvariance, PTL DEF Spec, ApprovalsFit
---------------------------------------------------------------------------
(* The account of an input *)

\* Unless an exception of the refresh is swallowed, an account in PAPER mode is observed
\* again before it is judged or a snapshot of it is young enough: an evaluation blocked
\* for a stale account judges a snapshot that was there before, older than the policy
\* allows, and its refresh has failed.
THEOREM OnlyAFailedRefreshIsStale ==
  ASSUME TradingMode = "PAPER", NEW s \in Situations, NEW a \in Authorized(s),
         NEW r \in Judged(s, a), NEW spec, Blocks(BuildLivePureInput(s, r, spec)).ACCOUNT_STALE
  PROVE  LET refreshed == RefreshPaperAccountSnapshot(s.store, a, 0, AccountFreshness)
         IN  /\ r \in AuthoritativeAccountSnapshot(s.store, a.id)
             /\ r \notin AuthoritativeAccountSnapshot(refreshed, a.id)
<1> DEFINE f == BuildLivePureInput(s, r, spec)
           refreshed == RefreshPaperAccountSnapshot(s.store, a, 0, AccountFreshness)
<1>1. Store(s.store)
  BY SituationsAssumption
<1>2. a \in Account
  BY <1>1 DEF Authorized, ResolveCanonicalAccount, Reach, Store
<1>3. AccountFreshness \in Nat
  BY RiskPolicyAssumption DEF RiskPolicy
<1>4. /\ r \in AuthoritativeAccountSnapshot(s.store, a.id)
         \/ r \in AuthoritativeAccountSnapshot(refreshed, a.id)
  BY DEF Judged, Observed
<1>5. r \in Snapshot
  <2>1. Store(refreshed)
    BY <1>1, <1>2, <1>3, RefreshKeepsStore
  <2> QED
    BY <1>1, <1>4, <2>1 DEF AuthoritativeAccountSnapshot, Newest, Store
<1>6. f.at = 0 /\ f.account.at = r.at
  <2>1. "at" \in DOMAIN AccountOf(r) /\ AccountOf(r).at = r.at
    BY DEF AccountOf
  <2> QED
    BY <2>1 DEF BuildLivePureInput, AccountSnapshot
<1>7. 0 - r.at > AccountFreshness
  <2>1. f.at - f.account.at > AccountFreshness
    BY Zenon DEF Blocks
  <2> QED
    BY <1>6, <2>1
<1>8. r \notin AuthoritativeAccountSnapshot(refreshed, a.id)
  <2>1. r.at \in Int
    BY <1>5 DEF Snapshot
  <2>2. ASSUME r \in AuthoritativeAccountSnapshot(refreshed, a.id)
        PROVE  0 - r.at <= AccountFreshness
    BY <1>1, <1>2, <1>3, <2>2, RefreshedIsFresh
  <2> QED
    BY <1>3, <1>7, <2>1, <2>2
<1> QED
  BY <1>4, <1>8

=============================================================================
