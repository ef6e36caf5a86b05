--------------------------- MODULE AccountAuthority ---------------------------
(***************************************************************************)
(* What POST /risk/evaluate reads before it judges: whose account the      *)
(* request is about, the newest snapshot of that account, refreshed from   *)
(* its paper state, and the specification of the symbol.                   *)
(*                                                                         *)
(* A store is                                                              *)
(*   accounts  : [id, name, owner, starting],                              *)
(*   states    : [account, version, economics], the paper state of an      *)
(*               account that has one,                                     *)
(*   snapshots : [account, version, economics, at], what was observed of   *)
(*               it, and when.                                             *)
(* economics is the account of PureRisk without its age.  Nothing in the   *)
(* program ever changes the economics of a state, so a request finds what  *)
(* is stored and adds an observation to it.  Balance, margin and the risk  *)
(* reserved follow the equity and are left out.                            *)
(***************************************************************************)
EXTENDS PureRisk

CONSTANTS
  DefaultBalance,   \* of an account without a starting balance
  LongAgo,          \* a loss or a cooldown that never was
  NoServer,         \* the broker server of a provider that names none
  System            \* the caller that is no user

ASSUME AuthorityAssumption == DefaultBalance \in Nat \ {0} /\ LongAgo \in Int

Account == [id : STRING, name : STRING, owner : STRING, starting : Nat]
Economics ==
  [equity : Nat, peak : Nat, daily : Int, weekly : Int, losses : Nat,
   lastLoss : Int, cooldown : Int, openRisk : Nat]
PaperAccountState == [account : STRING, version : Nat \ {0}, economics : Economics]
Snapshot == [account : STRING, version : Nat \ {0}, economics : Economics, at : Int]

\* The newest snapshots of the account: more than one only if they share a time.
Newest(snapshots, id) ==
  LET rows == {r \in snapshots : r.account = id}
  IN {r \in rows : \A s \in rows : s.at <= r.at}

\* An account, its version and what was seen of it under that version agree.
SameVersion(r, s) ==
  r.account = s.account /\ r.version = s.version =>
     AccountSnapshot(r.economics) = AccountSnapshot(s.economics)
Consistent(store) ==
  /\ \A p, q \in store.states : p.account = q.account => p = q
  /\ \A r \in store.snapshots : \A s \in store.snapshots \cup store.states : SameVersion(r, s)

\* Tables are finite: an account with a snapshot has a newest one.
Store(store) ==
  /\ store \in [accounts : SUBSET Account, states : SUBSET PaperAccountState,
               snapshots : SUBSET Snapshot]
  /\ \A r \in store.snapshots : Newest(store.snapshots, r.account) # {}
  /\ Consistent(store)

---------------------------------------------------------------------------
(* Whose account *)

\* Names are looked up among the caller's own accounts; an administrator and the
\* system reach them all.
Reach(store, caller) ==
  {a \in store.accounts : caller.role = "ADMIN" \/ caller.user \in {System, a.owner}}

\* An id names its account, a name the only account of that name: a name that two
\* accounts share is refused, and so is what the caller does not reach.
ResolveCanonicalAccount(store, ref, caller) ==
  IF ref.kind = "id" THEN {a \in Reach(store, caller) : a.id = ref.value}
  ELSE LET named == {a \in Reach(store, caller) : a.name = ref.value}
       IN IF Cardinality(named) = 1 THEN named ELSE {}

---------------------------------------------------------------------------
(* The state of an account *)

StatesOf(store, id) == {p \in store.states : p.account = id}

\* A state is made from the newest snapshot or, without one, from the balance the
\* account starts with.
Bootstrap(store, account) ==
  LET latest == Newest(store.snapshots, account.id)
      start == IF account.starting = 0 THEN DefaultBalance ELSE account.starting
  IN IF latest # {}
     THEN LET r == CHOOSE r \in latest : TRUE
          IN [account |-> account.id, version |-> r.version, economics |-> r.economics]
     ELSE [account |-> account.id, version |-> 1,
           economics |-> [equity |-> start, peak |-> start, daily |-> 0, weekly |-> 0,
                          losses |-> 0, lastLoss |-> LongAgo, cooldown |-> LongAgo,
                          openRisk |-> 0]]

\* get_or_create_paper_state, under the advisory lock of its account.
PaperState(store, account) ==
  IF StatesOf(store, account.id) = {} THEN Bootstrap(store, account)
  ELSE CHOOSE p \in StatesOf(store, account.id) : TRUE

\* A young enough snapshot of this very version is as good as a new one.
Reusable(state, snapshots, now, maxAge) ==
  /\ Newest(snapshots, state.account) # {}
  /\ LET r == CHOOSE r \in Newest(snapshots, state.account) : TRUE
     IN r.version = state.version /\ now - r.at <= maxAge

SnapshotOf(state, now) ==
  [account |-> state.account, version |-> state.version,
   economics |-> AccountSnapshot(state.economics), at |-> now]

RefreshPaperAccountSnapshot(store, account, now, maxAge) ==
  LET state == PaperState(store, account)
  IN [store EXCEPT
        !.states = @ \cup {state},
        !.snapshots = IF Reusable(state, @, now, maxAge) THEN @
                      ELSE @ \cup {SnapshotOf(state, now)}]

\* get_authoritative_account_snapshot: the newest row, or nothing and the request
\* is refused.
AuthoritativeAccountSnapshot(store, id) ==
  LET latest == Newest(store.snapshots, id)
  IN IF latest = {} THEN {} ELSE {CHOOSE r \in latest : TRUE}

---------------------------------------------------------------------------
(* The symbol *)

\* A stored specification counts while it is young and of the server the provider
\* is connected to; else the provider is asked.  Only the simulated market has one
\* to fall back on; a real one without a known server is refused outright.
AuthoritativeSymbolSpec(specs, market, now) ==
  LET rows == {r \in specs : r.source = market.source}
      kept == {r \in rows : /\ \A x \in rows : x.at <= r.at
                            /\ now - r.at <= SpecFreshness
                            /\ r.server = market.server}
  IN IF market.source # "simulated" /\ market.server = NoServer THEN {}
     ELSE IF kept # {} THEN {r.at : r \in kept}
     ELSE IF market.live # {} THEN market.live
     ELSE IF market.source = "simulated" /\ market.server = NoServer THEN {now}
     ELSE {}

=============================================================================
