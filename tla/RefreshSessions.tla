---------------------------- MODULE RefreshSessions ----------------------------
(***************************************************************************)
(* The refresh-token sessions of api/auth.py and                           *)
(* services/refresh_sessions.py: login opens a family of one session, a    *)
(* refresh consumes a session and adds its successor to the family, logout *)
(* revokes every active session of the user, and presenting a consumed     *)
(* token once the grace period is over revokes the active session of its   *)
(* family.                                                                 *)
(*                                                                         *)
(* Refreshes and logouts of a user are serialized by an advisory lock that *)
(* is waited for at most five seconds; logins take no lock.  A statement   *)
(* sees what is committed when it starts, and when it has to wait for a    *)
(* row it looks at that row again, so an UPDATE of the active sessions     *)
(* misses the ones that are inserted while it runs.                        *)
(***************************************************************************)
EXTENDS Naturals, FiniteSets

CONSTANTS
    Requests,      \* concurrent refresh and logout requests
    Users,
    SessionIds,    \* rows of the sessions table; the bound on those ever made
    Grace,         \* REFRESH_REUSE_GRACE
    Lifetime,      \* jwt_refresh_token_expire_days
    MaxTime,       \* bound on the database clock
    Never,         \* no consumed_at
    NoSession,     \* a row not inserted yet
    Nobody         \* no holder of a lock

ASSUME NumbersAssumption == {Grace, Lifetime, MaxTime} \subseteq Nat /\ Lifetime > 0

VARIABLES
    clock,      \* clock_timestamp() of the database
    enabled,    \* enabled[u]: users.is_active
    sessions,   \* committed rows
    authority,  \* authority[u]: holder of the user's advisory lock
    request     \* request[r]: what the transaction of r has done

vars == <<clock, enabled, sessions, authority, request>>

\* A family is named by the session its login made.
Session ==
    [user : Users, family : SessionIds, consumed : Nat \cup {Never}, revoked : BOOLEAN,
     expires : Nat]

\* The outcome decided under the lock: rotate the session, reject the request and
\* leave the cookie, reject it and clear the cookie, or revoke the targets; expel
\* is a rotation that finds its user disabled.
Outcome == {"undecided", "rotate", "keep", "reject", "revoke", "expel"}
Idle == [step |-> "idle"]
Request ==
    [step : {"lock", "decide", "commit"}, op : {"refresh", "logout"}, session : SessionIds,
     started : Nat, outcome : Outcome, targets : SUBSET SessionIds]

ASSUME NullsAssumption ==
    /\ Never \notin Nat \cup SessionIds
    /\ NoSession \notin Session
    /\ Nobody \notin Requests

TypeOK ==
    /\ clock \in Nat
    /\ enabled \in [Users -> BOOLEAN]
    /\ sessions \in [SessionIds -> Session \cup {NoSession}]
    /\ authority \in [Users -> Requests \cup {Nobody}]
    /\ request \in [Requests -> Request \cup {Idle}]

-----------------------------------------------------------------------------

Stored == {i \in SessionIds : sessions[i] # NoSession}

\* Neither consumed nor revoked; whether it has expired depends on who asks.
Unspent(i) == i \in Stored /\ sessions[i].consumed = Never /\ ~sessions[i].revoked

\* The rows an UPDATE ... WHERE expires_at > now() finds: now() is the start of the
\* transaction.
ActiveOfFamily(f, started) ==
    {i \in Stored : Unspent(i) /\ sessions[i].family = f /\ sessions[i].expires > started}
ActiveOfUser(u, started) ==
    {i \in Stored : Unspent(i) /\ sessions[i].user = u /\ sessions[i].expires > started}

UserOf(r) == sessions[request[r].session].user

\* The token was consumed longer than the grace period before the request began.
Late(r) ==
    LET s == sessions[request[r].session]
    IN  s.consumed # Never /\ request[r].started > s.consumed + Grace

-----------------------------------------------------------------------------

Init ==
    /\ clock = 0
    /\ enabled = [u \in Users |-> TRUE]
    /\ sessions = [i \in SessionIds |-> NoSession]
    /\ authority = [u \in Users |-> Nobody]
    /\ request = [r \in Requests |-> Idle]

\* Fault: the lifetime is taken off instead of added.
NewExpired(u, f) ==
    [user |-> u, family |-> f, consumed |-> Never, revoked |-> FALSE,
     expires |-> clock - Lifetime]

New(u, f) ==
    [user |-> u, family |-> f, consumed |-> Never, revoked |-> FALSE,
     expires |-> clock + Lifetime]

\* POST /auth/login inserts the first session of a new family, without the lock.
Login(u, i) ==
    /\ enabled[u]
    /\ i \notin Stored
    /\ sessions' = [sessions EXCEPT ![i] = New(u, i)]
    /\ UNCHANGED <<clock, enabled, authority, request>>

\* The clock is read and the token resolved to its row, before the lock.
Begin(r, op, i) ==
    /\ request[r] = Idle
    /\ i \in Stored
    /\ request' = [request EXCEPT ![r] =
                     [step |-> "lock", op |-> op, session |-> i, started |-> clock,
                      outcome |-> "undecided", targets |-> {}]]
    /\ UNCHANGED <<clock, enabled, sessions, authority>>

\* Fault: the lock does not make anyone wait.
AcquireAnyway(r) ==
    /\ request[r] # Idle /\ request[r].step = "lock"
    /\ authority' = [authority EXCEPT ![UserOf(r)] = r]
    /\ request' = [request EXCEPT ![r].step = "decide"]
    /\ UNCHANGED <<clock, enabled, sessions>>

\* acquire_user_authority_lock.
Acquire(r) ==
    /\ request[r] # Idle /\ request[r].step = "lock"
    /\ authority[UserOf(r)] = Nobody
    /\ authority' = [authority EXCEPT ![UserOf(r)] = r]
    /\ request' = [request EXCEPT ![r].step = "decide"]
    /\ UNCHANGED <<clock, enabled, sessions>>

Resolve(r, outcome, targets) ==
    /\ request' = [request EXCEPT ![r].step = "commit", ![r].outcome = outcome,
                                  ![r].targets = targets]
    /\ UNCHANGED <<clock, enabled, sessions, authority>>

Deciding(r, op) == request[r] # Idle /\ request[r].step = "decide" /\ request[r].op = op

\* Fault: a consumed token is taken for a retry and rotated again.
DecideRefreshAgain(r) ==
    LET i == request[r].session
    IN  /\ Deciding(r, "refresh")
        /\ \/ /\ Late(r)
              /\ Resolve(r, "revoke", ActiveOfFamily(sessions[i].family, request[r].started))
           \/ /\ ~Late(r)
              /\ Resolve(r, "rotate", {})

\* Fault: the revocation of the token is not looked at.
DecideRefreshRevoked(r) ==
    LET i == request[r].session
        s == sessions[i]
    IN  /\ Deciding(r, "refresh")
        /\ \/ /\ s.consumed # Never /\ ~Late(r)
              /\ Resolve(r, "keep", {})
           \/ /\ s.consumed # Never /\ Late(r)
              /\ Resolve(r, "revoke", ActiveOfFamily(s.family, request[r].started))
           \/ /\ s.consumed = Never /\ s.expires <= clock
              /\ Resolve(r, "reject", {})
           \/ /\ s.consumed = Never /\ s.expires > clock
              /\ Resolve(r, "rotate", {})

\* The row is read again under the lock.  A consumed token is a concurrent loser
\* within the grace period and a replay after it; any other spent or expired token
\* is rejected.
DecideRefresh(r) ==
    LET i == request[r].session
        s == sessions[i]
    IN  /\ Deciding(r, "refresh")
        /\ \/ /\ s.consumed # Never /\ ~Late(r)
              /\ Resolve(r, "keep", {})
           \/ /\ s.consumed # Never /\ Late(r)
              /\ Resolve(r, "revoke", ActiveOfFamily(s.family, request[r].started))
           \/ /\ s.consumed = Never /\ (s.revoked \/ s.expires <= clock)
              /\ Resolve(r, "reject", {})
           \/ /\ s.consumed = Never /\ ~s.revoked /\ s.expires > clock
              /\ IF enabled[s.user] THEN Resolve(r, "rotate", {})
                 ELSE Resolve(r, "expel", ActiveOfFamily(s.family, request[r].started) \ {i})

\* A logout accepts the consumed token of a concurrent refresh within the grace
\* period: the successor is revoked with everything else.
DecideLogout(r) ==
    LET s == sessions[request[r].session]
    IN  /\ Deciding(r, "logout")
        /\ \/ /\ s.revoked \/ s.expires <= clock \/ Late(r)
              /\ Resolve(r, "reject", {})
           \/ /\ ~s.revoked /\ s.expires > clock /\ ~Late(r)
              /\ Resolve(r, "revoke", ActiveOfUser(s.user, request[r].started))

\* Commit and rollback free the lock.
Finish(r) ==
    /\ authority' = [u \in Users |-> IF authority[u] = r THEN Nobody ELSE authority[u]]
    /\ request' = [request EXCEPT ![r] = Idle]

Committing(r) == request[r] # Idle /\ request[r].step = "commit"

\* The session is consumed and its successor, in the same family, stored.
CommitRotation(r, j) ==
    LET i == request[r].session
    IN  /\ Committing(r) /\ request[r].outcome = "rotate"
        /\ j \notin Stored
        /\ sessions' = [sessions EXCEPT ![i].consumed = clock,
                                        ![j] = New(sessions[i].user, sessions[i].family)]
        /\ Finish(r)
        /\ UNCHANGED <<clock, enabled>>

\* The targets that are still unspent are revoked.
Revoked(targets) ==
    [i \in SessionIds |-> IF i \in targets /\ Unspent(i)
                          THEN [sessions[i] EXCEPT !.revoked = TRUE] ELSE sessions[i]]

CommitRevocation(r) ==
    /\ Committing(r) /\ request[r].outcome = "revoke"
    /\ sessions' = Revoked(request[r].targets)
    /\ Finish(r)
    /\ UNCHANGED <<clock, enabled>>

\* The session of a disabled user is consumed, has no successor, and takes what is
\* left of its family with it.
CommitExpulsion(r) ==
    /\ Committing(r) /\ request[r].outcome = "expel"
    /\ sessions' = [Revoked(request[r].targets) EXCEPT ![request[r].session].consumed = clock]
    /\ Finish(r)
    /\ UNCHANGED <<clock, enabled>>

CommitRejection(r) ==
    /\ Committing(r) /\ request[r].outcome \in {"keep", "reject"}
    /\ Finish(r)
    /\ UNCHANGED <<clock, enabled, sessions>>

\* The lock is not granted in time, or the request fails: nothing is written.
Abort(r) ==
    /\ request[r] # Idle
    /\ Finish(r)
    /\ UNCHANGED <<clock, enabled, sessions>>

SetEnabled(u) ==
    /\ enabled' = [enabled EXCEPT ![u] = ~@]
    /\ UNCHANGED <<clock, sessions, authority, request>>

Tick ==
    /\ clock < MaxTime
    /\ clock' = clock + 1
    /\ UNCHANGED <<enabled, sessions, authority, request>>

Step(r) ==
    \/ \E op \in {"refresh", "logout"}, i \in SessionIds : Begin(r, op, i)
    \/ Acquire(r)
    \/ DecideRefresh(r)
    \/ DecideLogout(r)
    \/ \E j \in SessionIds : CommitRotation(r, j)
    \/ CommitRevocation(r)
    \/ CommitExpulsion(r)
    \/ CommitRejection(r)
    \/ Abort(r)

Next ==
    \/ \E r \in Requests : Step(r)
    \/ \E u \in Users, i \in SessionIds : Login(u, i)
    \/ \E u \in Users : SetEnabled(u)
    \/ Tick

Spec == Init /\ [][Next]_vars

-----------------------------------------------------------------------------
(* Properties *)

\* A family never has two unspent sessions, however refreshes, replays and logouts
\* of its tokens interleave: one login is worth one browser.
OneUnspentPerFamily ==
    \A i, j \in SessionIds :
        Unspent(i) /\ Unspent(j) /\ sessions[i].family = sessions[j].family => i = j

\* When a logout or the detection of a replay commits, every family it found active
\* and the family of the token presented are over: no refresh that was under way
\* leaves a successor behind.
RevocationIsComplete ==
    [][\A r \in Requests :
          Committing(r) /\ request[r].outcome = "revoke" /\ sessions' # sessions
            /\ request'[r] = Idle =>
              \A i \in request[r].targets \cup {request[r].session}, j \in SessionIds :
                  sessions[j] # NoSession /\ sessions[j].family = sessions[i].family
                    => ~Unspent(j)' \/ sessions[j].expires <= request[r].started]_vars

\* A family that lost a session to a revocation is over for good.
RevokedFamilyStaysOver ==
    \A i, j \in Stored :
        sessions[i].revoked /\ sessions[i].family = sessions[j].family => ~Unspent(j)

(* The promise to the browsers *)

\* The session of a family that can be refreshed, as its rows show it.
Current(f) ==
    IF \E i \in Stored : Unspent(i) /\ sessions[i].family = f
    THEN CHOOSE i \in Stored : Unspent(i) /\ sessions[i].family = f
    ELSE Never

Promised ==
    INSTANCE SessionFamilies WITH
        Over <- Never, NoFamily <- NoSession,
        family <- [f \in SessionIds |->
                      IF f \in Stored /\ sessions[f].family = f
                      THEN [user |-> sessions[f].user, token |-> Current(f)]
                      ELSE NoSession]

\* A row that is not there is no family either.
ASSUME NoFamilyAssumption == NoSession \notin Promised!Family

\* Every transaction is one step of the promise or none: a rotation replaces the one
\* session that could be refreshed, and nothing brings a family back.
ImplementsFamilies == Promised!Spec
=============================================================================
