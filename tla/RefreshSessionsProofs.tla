------------------------- MODULE RefreshSessionsProofs -------------------------
(***************************************************************************)
(* Proofs about RefreshSessions, for any number of requests, users and     *)
(* sessions and for any grace period and lifetime: what the user's lock    *)
(* and the second read of the session guarantee.                           *)
(***************************************************************************)
EXTENDS RefreshSessions, TLAPS

\* A family belongs to the user of the login that named it, with its own session.
Families ==
    \A i \in Stored :
        /\ sessions[i].family \in Stored
        /\ sessions[sessions[i].family].user = sessions[i].user
        /\ sessions[sessions[i].family].family = sessions[i].family

\* A request past the lock holds the lock of the user of its session.
Holding ==
    \A r \in Requests : request[r] # Idle =>
        /\ request[r].session \in Stored
        /\ request[r].step # "lock" => authority[UserOf(r)] = r

\* A session about to be rotated is still unspent.
Rotatable ==
    \A r \in Requests : Committing(r) /\ request[r].outcome = "rotate" =>
        Unspent(request[r].session)

\* A request only ever targets sessions of the user whose lock it holds.
Owned ==
    \A r \in Requests : Committing(r) =>
        \A t \in request[r].targets : t \in Stored /\ sessions[t].user = UserOf(r)

\* The targets of a revocation are still all that is active in the families it is
\* about.
Covered ==
    \A r \in Requests : Committing(r) /\ request[r].outcome = "revoke" =>
        \A t \in request[r].targets \cup {request[r].session}, j \in Stored :
            sessions[j].family = sessions[t].family =>
                \/ j \in request[r].targets
                \/ ~Unspent(j)
                \/ sessions[j].expires <= request[r].started

IInv ==
    /\ TypeOK
    /\ Families
    /\ Holding
    /\ Rotatable
    /\ Owned
    /\ Covered
    /\ OneUnspentPerFamily
    /\ RevokedFamilyStaysOver

-----------------------------------------------------------------------------

\* A stored row is a session.
LEMMA StoredFacts ==
    ASSUME TypeOK, NEW i \in SessionIds
    PROVE  /\ i \in Stored <=> sessions[i] \in Session
           /\ i \notin Stored <=> sessions[i] = NoSession
BY NullsAssumption DEF TypeOK, Stored

\* A request at work is a record of a request.
LEMMA RequestFacts ==
    ASSUME TypeOK, NEW r \in Requests, request[r] # Idle
    PROVE  request[r] \in Request
BY DEF TypeOK

\* Revoking touches nothing but the flag of the targets that are unspent.
LEMMA RevokedFacts ==
    ASSUME TypeOK, NEW T
    PROVE  /\ Revoked(T) \in [SessionIds -> Session \cup {NoSession}]
           /\ \A i \in SessionIds : Revoked(T)[i] = NoSession <=> sessions[i] = NoSession
           /\ \A i \in Stored :
                /\ Revoked(T)[i].user = sessions[i].user
                /\ Revoked(T)[i].family = sessions[i].family
                /\ Revoked(T)[i].expires = sessions[i].expires
                /\ Revoked(T)[i].consumed = sessions[i].consumed
                /\ Revoked(T)[i].revoked <=> sessions[i].revoked \/ (i \in T /\ Unspent(i))
<1>1. ASSUME NEW i \in SessionIds
      PROVE  /\ Revoked(T)[i] \in Session \cup {NoSession}
             /\ Revoked(T)[i] = NoSession <=> sessions[i] = NoSession
  <2>1. CASE i \in T /\ Unspent(i)
    <3>1. sessions[i] \in Session
      BY <2>1, StoredFacts DEF Unspent
    <3>2. [sessions[i] EXCEPT !.revoked = TRUE] \in Session
      BY <3>1 DEF Session
    <3>3. Revoked(T)[i] = [sessions[i] EXCEPT !.revoked = TRUE]
      BY <2>1 DEF Revoked
    <3>. QED  BY <3>1, <3>2, <3>3, NullsAssumption
  <2>2. CASE ~(i \in T /\ Unspent(i))
    BY <2>2 DEF Revoked, TypeOK
  <2>. QED  BY <2>1, <2>2
<1>2. ASSUME NEW i \in Stored
      PROVE  /\ Revoked(T)[i].user = sessions[i].user
             /\ Revoked(T)[i].family = sessions[i].family
             /\ Revoked(T)[i].expires = sessions[i].expires
             /\ Revoked(T)[i].consumed = sessions[i].consumed
             /\ Revoked(T)[i].revoked <=> sessions[i].revoked \/ (i \in T /\ Unspent(i))
  <2>0. i \in SessionIds /\ sessions[i] \in Session
    BY StoredFacts DEF Stored
  <2>1. CASE i \in T /\ Unspent(i)
    <3>1. Revoked(T)[i] = [sessions[i] EXCEPT !.revoked = TRUE]
      BY <2>0, <2>1 DEF Revoked
    <3>. QED  BY <2>0, <2>1, <3>1 DEF Session
  <2>2. CASE ~(i \in T /\ Unspent(i))
    BY <2>0, <2>2 DEF Revoked
  <2>. QED  BY <2>1, <2>2
<1>3. Revoked(T) = [i \in SessionIds |-> Revoked(T)[i]]
  BY DEF Revoked
<1>. QED  BY <1>1, <1>2, <1>3

\* A new row is an unspent session of the user and family asked for.
LEMMA NewFacts ==
    ASSUME TypeOK, NEW u \in Users, NEW f \in SessionIds
    PROVE  /\ New(u, f) \in Session
           /\ New(u, f).user = u /\ New(u, f).family = f
           /\ New(u, f).consumed = Never /\ ~New(u, f).revoked
BY NumbersAssumption DEF New, Session, TypeOK

-----------------------------------------------------------------------------

\* What a step does to a request that it does not end.
LEMMA RequestSteps ==
    ASSUME TypeOK, Next, NEW r \in Requests, request'[r] # Idle
    PROVE  \/ request'[r] = request[r]
           \/ \E op \in {"refresh", "logout"}, i \in SessionIds : Begin(r, op, i)
           \/ Acquire(r)
           \/ DecideRefresh(r)
           \/ DecideLogout(r)
<1>1. ASSUME NEW q \in Requests, Finish(q)
      PROVE  request'[r] = request[r]
  BY <1>1 DEF Finish, TypeOK
<1>2. ASSUME NEW q \in Requests, Step(q), q # r
      PROVE  request'[r] = request[r]
  <2>1. CASE \E op \in {"refresh", "logout"}, i \in SessionIds : Begin(q, op, i)
    BY <2>1, <1>2 DEF Begin, TypeOK
  <2>2. CASE Acquire(q)
    BY <2>2, <1>2 DEF Acquire, TypeOK
  <2>3. CASE DecideRefresh(q)
    BY <2>3, <1>2 DEF DecideRefresh, Resolve, TypeOK
  <2>4. CASE DecideLogout(q)
    BY <2>4, <1>2 DEF DecideLogout, Resolve, TypeOK
  <2>5. CASE \E j \in SessionIds : CommitRotation(q, j)
    BY <2>5, <1>1 DEF CommitRotation
  <2>6. CASE CommitRevocation(q) \/ CommitExpulsion(q) \/ CommitRejection(q) \/ Abort(q)
    BY <2>6, <1>1 DEF CommitRevocation, CommitExpulsion, CommitRejection, Abort
  <2>. QED  BY <1>2, <2>1, <2>2, <2>3, <2>4, <2>5, <2>6 DEF Step
<1>3. CASE Step(r)
  <2>1. CASE \E j \in SessionIds : CommitRotation(r, j)
    BY <2>1, <1>1 DEF CommitRotation
  <2>2. CASE CommitRevocation(r) \/ CommitExpulsion(r) \/ CommitRejection(r) \/ Abort(r)
    BY <2>2, <1>1 DEF CommitRevocation, CommitExpulsion, CommitRejection, Abort
  <2>. QED  BY <1>3, <2>1, <2>2 DEF Step
<1>4. CASE (\E u \in Users, i \in SessionIds : Login(u, i))
             \/ (\E u \in Users : SetEnabled(u)) \/ Tick
  BY <1>4 DEF Login, SetEnabled, Tick
<1>. QED  BY <1>2, <1>3, <1>4 DEF Next

\* The four steps that write sessions; every other step leaves the table alone.
Writes ==
    \/ \E u \in Users, i \in SessionIds : Login(u, i)
    \/ \E q \in Requests :
          \/ \E j \in SessionIds : CommitRotation(q, j)
          \/ CommitRevocation(q)
          \/ CommitExpulsion(q)

LEMMA Writers ==
    ASSUME Next
    PROVE  Writes \/ sessions' = sessions
BY DEF Next, Step, Writes, Begin, Acquire, DecideRefresh, DecideLogout, Resolve,
       CommitRejection, Abort, SetEnabled, Tick

\* What a rotation does: its session is spent and its successor takes its place.
LEMMA RotationFacts ==
    ASSUME IInv, NEW q \in Requests, NEW n \in SessionIds, CommitRotation(q, n)
    PROVE  LET i == request[q].session
           IN  /\ i \in Stored /\ n \notin Stored /\ i # n
               /\ Unspent(i) /\ authority[UserOf(q)] = q
               /\ sessions' \in [SessionIds -> Session \cup {NoSession}]
               /\ sessions'[n] = New(sessions[i].user, sessions[i].family)
               /\ sessions'[i] = [sessions[i] EXCEPT !.consumed = clock]
               /\ sessions'[i] \in Session
               /\ \A k \in SessionIds \ {i, n} : sessions'[k] = sessions[k]
<1>. DEFINE i == request[q].session
<1>1. request[q] # Idle /\ request[q].step = "commit" /\ request[q].outcome = "rotate"
  BY DEF CommitRotation, Committing
<1>2. i \in Stored /\ Unspent(i) /\ authority[UserOf(q)] = q
  BY <1>1 DEF IInv, Holding, Rotatable, Committing
<1>3. n \notin Stored /\ i # n
  BY <1>2 DEF CommitRotation
<1>4. i \in SessionIds /\ sessions[i] \in Session
  BY <1>2, StoredFacts DEF IInv, Stored
<1>5. [sessions[i] EXCEPT !.consumed = clock] \in Session
  BY <1>4 DEF Session, IInv, TypeOK
<1>6. New(sessions[i].user, sessions[i].family) \in Session
  BY <1>4, NewFacts DEF Session, IInv
<1>7. sessions' = [sessions EXCEPT ![i].consumed = clock,
                                   ![n] = New(sessions[i].user, sessions[i].family)]
  BY DEF CommitRotation
<1>8. sessions \in [SessionIds -> Session \cup {NoSession}]
  BY DEF IInv, TypeOK
<1>. QED  BY <1>2, <1>3, <1>4, <1>5, <1>6, <1>7, <1>8

\* What an expulsion does: its session is spent and its targets revoked.
LEMMA ExpulsionFacts ==
    ASSUME IInv, NEW q \in Requests, CommitExpulsion(q)
    PROVE  LET i == request[q].session
           IN  /\ i \in Stored /\ authority[UserOf(q)] = q
               /\ sessions' \in [SessionIds -> Session \cup {NoSession}]
               /\ sessions'[i] = [Revoked(request[q].targets)[i] EXCEPT !.consumed = clock]
               /\ Revoked(request[q].targets)[i] \in Session
               /\ \A k \in SessionIds \ {i} : sessions'[k] = Revoked(request[q].targets)[k]
<1>. DEFINE i == request[q].session
            R == Revoked(request[q].targets)
<1>1. request[q] # Idle /\ request[q].step = "commit"
  BY DEF CommitExpulsion, Committing
<1>2. i \in Stored /\ authority[UserOf(q)] = q
  BY <1>1 DEF IInv, Holding
<1>3. i \in SessionIds /\ sessions[i] # NoSession
  BY <1>2 DEF Stored
<1>4. R \in [SessionIds -> Session \cup {NoSession}] /\ R[i] \in Session
  BY <1>3, RevokedFacts DEF IInv
<1>5. [R[i] EXCEPT !.consumed = clock] \in Session
  BY <1>4 DEF Session, IInv, TypeOK
<1>6. sessions' = [R EXCEPT ![i].consumed = clock]
  BY DEF CommitExpulsion
<1>. HIDE DEF R
<1>7. /\ sessions' \in [SessionIds -> Session \cup {NoSession}]
      /\ sessions'[i] = [R[i] EXCEPT !.consumed = clock]
      /\ \A k \in SessionIds \ {i} : sessions'[k] = R[k]
  BY <1>3, <1>4, <1>5, <1>6
<1>. QED  BY <1>2, <1>4, <1>7 DEF R

\* What any step does to the sessions that exist: their identity stays, nothing
\* spent is restored, and they are only touched by a holder of their user's lock.
\* A session that is new starts a family of its own, or succeeds one for the holder.
LEMMA SessionSteps ==
    ASSUME IInv, Next
    PROVE  /\ sessions' \in [SessionIds -> Session \cup {NoSession}]
           /\ \A i \in Stored :
                /\ sessions'[i] # NoSession
                /\ sessions'[i].user = sessions[i].user
                /\ sessions'[i].family = sessions[i].family
                /\ sessions'[i].expires = sessions[i].expires
                /\ Unspent(i)' => Unspent(i)
                /\ sessions'[i].revoked => sessions[i].revoked \/ Unspent(i)
                /\ \/ sessions'[i] = sessions[i]
                   \/ \E q \in Requests : /\ request[q] # Idle /\ request'[q] = Idle
                                          /\ request[q].step = "commit"
                                          /\ authority[sessions[i].user] = q
           /\ \A i \in SessionIds \ Stored : sessions'[i] # NoSession =>
                /\ ~sessions'[i].revoked
                /\ \A k \in Stored : sessions'[k].revoked => sessions[k].revoked
                /\ \A k \in SessionIds \ Stored : sessions'[k] # NoSession => k = i
                /\ \/ /\ sessions'[i].family = i
                      /\ \A k \in Stored : sessions'[k] = sessions[k]
                   \/ \E q \in Requests :
                         /\ request[q] # Idle /\ request'[q] = Idle
                         /\ request[q].step = "commit"
                         /\ authority[UserOf(q)] = q
                         /\ sessions'[i].user = UserOf(q)
                         /\ sessions'[i].family = sessions[request[q].session].family
                         /\ Unspent(request[q].session) /\ sessions'[request[q].session].consumed # Never
<1>1. TypeOK
  BY DEF IInv
<1>2. \A i \in SessionIds : i \in Stored => sessions[i] \in Session
  BY <1>1, StoredFacts
<1>3. CASE sessions' = sessions
  BY <1>1, <1>3 DEF TypeOK, Stored, Unspent
<1>4. ASSUME NEW u \in Users, NEW n \in SessionIds, Login(u, n)
      PROVE  /\ sessions' \in [SessionIds -> Session \cup {NoSession}]
             /\ sessions'[n].family = n /\ ~sessions'[n].revoked
             /\ \A k \in SessionIds \ {n} : sessions'[k] = sessions[k]
             /\ n \notin Stored
  BY <1>1, <1>4, NewFacts DEF Login, TypeOK
<1>5. ASSUME NEW q \in Requests, Finish(q)
      PROVE  request'[q] = Idle
  BY <1>1, <1>5 DEF Finish, TypeOK
<1>6. ASSUME NEW q \in Requests, NEW n \in SessionIds, CommitRotation(q, n)
      PROVE  /\ request[q] # Idle /\ request'[q] = Idle /\ request[q].step = "commit"
             /\ sessions'[n].user = UserOf(q)
             /\ sessions'[n].family = sessions[request[q].session].family
             /\ authority[UserOf(q)] = q
             /\ Unspent(request[q].session) /\ sessions'[request[q].session].consumed # Never
             /\ ~sessions'[n].revoked
             /\ sessions' \in [SessionIds -> Session \cup {NoSession}]
             /\ \A i \in Stored :
                  /\ sessions'[i] # NoSession
                  /\ sessions'[i].user = sessions[i].user
                  /\ sessions'[i].family = sessions[i].family
                  /\ sessions'[i].expires = sessions[i].expires
                  /\ Unspent(i)' => Unspent(i)
                  /\ sessions'[i].revoked => sessions[i].revoked
                  /\ sessions'[i] = sessions[i] \/ sessions[i].user = UserOf(q)
             /\ \A i \in SessionIds \ Stored : sessions'[i] # NoSession => i = n
  <2>. DEFINE o == request[q].session
  <2>0. /\ o \in Stored /\ n \notin Stored /\ o # n
        /\ Unspent(o) /\ authority[UserOf(q)] = q
        /\ sessions' \in [SessionIds -> Session \cup {NoSession}]
        /\ sessions'[n] = New(sessions[o].user, sessions[o].family)
        /\ sessions'[o] = [sessions[o] EXCEPT !.consumed = clock]
        /\ \A k \in SessionIds \ {o, n} : sessions'[k] = sessions[k]
    BY <1>6, RotationFacts
  <2>1. request[q] # Idle /\ request'[q] = Idle /\ request[q].step = "commit"
    BY <1>5, <1>6 DEF CommitRotation, Committing
  <2>2. sessions[o] \in Session
    BY <1>2, <2>0 DEF Stored
  <2>3. /\ sessions'[n].user = UserOf(q) /\ sessions'[n].family = sessions[o].family
        /\ ~sessions'[n].revoked
    BY <1>1, <2>0, <2>2, NewFacts DEF UserOf, Session
  <2>4. ASSUME NEW i \in Stored
        PROVE  /\ sessions'[i] # NoSession
               /\ sessions'[i].user = sessions[i].user
               /\ sessions'[i].family = sessions[i].family
               /\ sessions'[i].expires = sessions[i].expires
               /\ Unspent(i)' => Unspent(i)
               /\ sessions'[i].revoked => sessions[i].revoked
               /\ sessions'[i] = sessions[i] \/ sessions[i].user = UserOf(q)
    <3>1. CASE i = o
      <4>1. sessions'[i] \in Session
        BY <1>6, <3>1, RotationFacts
      <4>. QED  BY <2>0, <2>2, <3>1, <4>1, NullsAssumption DEF Session, UserOf
    <3>2. CASE i # o
      BY <2>0, <3>2 DEF Stored, Unspent
    <3>. QED  BY <3>1, <3>2
  <2>5. \A i \in SessionIds \ Stored : sessions'[i] # NoSession => i = n
    BY <2>0 DEF Stored
  <2>6. sessions'[o].consumed # Never
    <3>1. sessions'[o].consumed = clock
      BY <2>0, <2>2 DEF Session
    <3>. QED  BY <1>1, <3>1, NullsAssumption DEF TypeOK
  <2>. QED  BY <2>0, <2>1, <2>3, <2>4, <2>5, <2>6
<1>7. ASSUME NEW q \in Requests, CommitRevocation(q) \/ CommitExpulsion(q)
      PROVE  /\ request[q] # Idle /\ request'[q] = Idle /\ request[q].step = "commit"
             /\ sessions' \in [SessionIds -> Session \cup {NoSession}]
             /\ \A i \in Stored :
                  /\ sessions'[i] # NoSession
                  /\ sessions'[i].user = sessions[i].user
                  /\ sessions'[i].family = sessions[i].family
                  /\ sessions'[i].expires = sessions[i].expires
                  /\ Unspent(i)' => Unspent(i)
                  /\ sessions'[i].revoked => sessions[i].revoked \/ Unspent(i)
                  /\ sessions'[i] = sessions[i] \/ authority[sessions[i].user] = q
             /\ \A i \in SessionIds \ Stored : sessions'[i] = NoSession
  <2>. DEFINE o == request[q].session
              R == Revoked(request[q].targets)
  <2>1. request[q] # Idle /\ request'[q] = Idle /\ request[q].step = "commit"
    BY <1>5, <1>7 DEF CommitRevocation, CommitExpulsion, Committing
  <2>2. /\ R \in [SessionIds -> Session \cup {NoSession}]
        /\ \A i \in SessionIds : R[i] = NoSession <=> sessions[i] = NoSession
        /\ \A i \in Stored :
             /\ R[i].user = sessions[i].user
             /\ R[i].family = sessions[i].family
             /\ R[i].expires = sessions[i].expires
             /\ R[i].consumed = sessions[i].consumed
             /\ R[i].revoked <=> sessions[i].revoked \/ (i \in request[q].targets /\ Unspent(i))
    BY <1>1, RevokedFacts
  <2>3. authority[UserOf(q)] = q
    BY <2>1 DEF IInv, Holding
  <2>4. \A t \in request[q].targets : sessions[t].user = UserOf(q)
    BY <2>1 DEF IInv, Owned, Committing
  <2>5. \A i \in Stored \ request[q].targets : R[i] = sessions[i]
    BY DEF Revoked, Stored
  <2>. HIDE DEF R
  <2>6. /\ sessions' \in [SessionIds -> Session \cup {NoSession}]
        /\ \A k \in SessionIds : k # o => sessions'[k] = R[k]
        /\ \/ sessions'[o] = R[o]
           \/ R[o] \in Session /\ o \in Stored /\ sessions'[o] = [R[o] EXCEPT !.consumed = clock]
    <3>1. CASE CommitRevocation(q)
      BY <3>1, <2>2 DEF CommitRevocation, R
    <3>2. CASE CommitExpulsion(q)
      BY <3>2, ExpulsionFacts DEF R
    <3>. QED  BY <1>7, <3>1, <3>2
  <2>7. ASSUME NEW i \in Stored
        PROVE  /\ sessions'[i] # NoSession
               /\ sessions'[i].user = sessions[i].user
               /\ sessions'[i].family = sessions[i].family
               /\ sessions'[i].expires = sessions[i].expires
               /\ Unspent(i)' => Unspent(i)
               /\ sessions'[i].revoked => sessions[i].revoked \/ Unspent(i)
               /\ sessions'[i] = sessions[i] \/ authority[sessions[i].user] = q
    <3>0. i \in SessionIds /\ sessions[i] # NoSession /\ sessions[i] \in Session /\ R[i] # NoSession
      BY <1>2, <2>2 DEF Stored
    <3>1. CASE sessions'[i] = R[i]
      <4>1. sessions'[i] = sessions[i] \/ authority[sessions[i].user] = q
        BY <2>3, <2>4, <2>5, <3>1
      <4>2. Unspent(i)' => Unspent(i)
        BY <2>2, <3>0, <3>1 DEF Unspent, Stored
      <4>. QED  BY <2>2, <3>0, <3>1, <4>1, <4>2
    <3>2. CASE i = o /\ R[o] \in Session /\ sessions'[o] = [R[o] EXCEPT !.consumed = clock]
      <4>1. /\ sessions'[i].user = sessions[i].user
            /\ sessions'[i].family = sessions[i].family
            /\ sessions'[i].expires = sessions[i].expires
            /\ sessions'[i].consumed = clock
            /\ sessions'[i].revoked <=> R[i].revoked
        BY <2>2, <3>2 DEF Session
      <4>2. sessions'[i] \in Session
        BY <1>1, <3>2 DEF Session, TypeOK
      <4>3. ~Unspent(i)'
        BY <1>1, <4>1, NullsAssumption DEF Unspent, TypeOK
      <4>4. sessions'[i].revoked => sessions[i].revoked \/ Unspent(i)
        BY <2>2, <4>1
      <4>. QED  BY <2>3, <3>2, <4>1, <4>2, <4>3, <4>4, NullsAssumption DEF UserOf
    <3>. QED  BY <2>6, <3>0, <3>1, <3>2
  <2>8. \A i \in SessionIds \ Stored : sessions'[i] = NoSession
    BY <2>2, <2>6 DEF Stored
  <2>. QED  BY <2>1, <2>6, <2>7, <2>8
<1>8. CASE \E u \in Users, n \in SessionIds : Login(u, n)
  <2>1. PICK u \in Users, n \in SessionIds : Login(u, n)
    BY <1>8
  <2>. QED  BY <1>4, <2>1 DEF Stored, Unspent
<1>9. CASE \E q \in Requests, n \in SessionIds : CommitRotation(q, n)
  <2>1. PICK q \in Requests, n \in SessionIds : CommitRotation(q, n)
    BY <1>9
  <2>. QED  BY <1>6, <2>1
<1>10. CASE \E q \in Requests : CommitRevocation(q) \/ CommitExpulsion(q)
  <2>1. PICK q \in Requests : CommitRevocation(q) \/ CommitExpulsion(q)
    BY <1>10
  <2>. QED  BY <1>7, <2>1
<1>. QED  BY <1>3, <1>8, <1>9, <1>10, Writers DEF Writes

-----------------------------------------------------------------------------

LEMMA Initially ==
    ASSUME Init
    PROVE  IInv
BY NullsAssumption
   DEF Init, IInv, TypeOK, Stored, Families, Holding, Rotatable, Owned, Covered, Committing,
       Unspent, OneUnspentPerFamily, RevokedFamilyStaysOver

\* The lock keeps a request's session and everything it has decided about valid while
\* the request is under way.
LEMMA Undisturbed ==
    ASSUME IInv, Next, NEW r \in Requests, request[r] # Idle, request[r].step # "lock",
           request'[r] = request[r]
    PROVE  /\ UserOf(r)' = UserOf(r)
           /\ \A i \in Stored : sessions[i].user = UserOf(r) => sessions'[i] = sessions[i]
           /\ \A i \in SessionIds \ Stored :
                sessions'[i] # NoSession =>
                    sessions'[i].family = i \/ sessions'[i].user # UserOf(r)
<1>1. authority[UserOf(r)] = r /\ request[r].session \in Stored
  BY DEF IInv, Holding
<1>2. ASSUME NEW i \in Stored, sessions[i].user = UserOf(r)
      PROVE  sessions'[i] = sessions[i]
  BY <1>1, <1>2, SessionSteps
<1>3. UserOf(r)' = UserOf(r)
  BY <1>1, <1>2 DEF UserOf
<1>4. ASSUME NEW i \in SessionIds \ Stored, sessions'[i] # NoSession, sessions'[i].family # i
      PROVE  sessions'[i].user # UserOf(r)
  BY <1>1, <1>4, SessionSteps
<1>. QED  BY <1>2, <1>3, <1>4

LEMMA TypePreserved ==
    ASSUME IInv, Next
    PROVE  TypeOK'
<1>0. TypeOK
  BY DEF IInv
<1>1. sessions' \in [SessionIds -> Session \cup {NoSession}]
  BY SessionSteps
<1>2. clock' \in Nat /\ enabled' \in [Users -> BOOLEAN]
  <2>1. ASSUME NEW q \in Requests, Step(q)
        PROVE  clock' = clock /\ enabled' = enabled
    BY <2>1 DEF Step, Begin, Acquire, DecideRefresh, DecideLogout, Resolve, CommitRotation,
                CommitRevocation, CommitExpulsion, CommitRejection, Abort
  <2>2. ASSUME NEW u \in Users, SetEnabled(u)
        PROVE  clock' = clock /\ enabled' \in [Users -> BOOLEAN]
    BY <1>0, <2>2 DEF SetEnabled, TypeOK
  <2>3. CASE (\E u \in Users, i \in SessionIds : Login(u, i)) \/ Tick
    BY <1>0, <2>3 DEF Login, Tick, TypeOK
  <2>. QED  BY <1>0, <2>1, <2>2, <2>3 DEF Next, TypeOK
<1>3. ASSUME NEW q \in Requests, Finish(q)
      PROVE  /\ authority' \in [Users -> Requests \cup {Nobody}]
             /\ request' \in [Requests -> Request \cup {Idle}]
  BY <1>0, <1>3 DEF Finish, TypeOK
<1>4. ASSUME NEW q \in Requests, NEW outcome \in Outcome, NEW T \in SUBSET SessionIds,
             request[q] # Idle, Resolve(q, outcome, T)
      PROVE  /\ authority' \in [Users -> Requests \cup {Nobody}]
             /\ request' \in [Requests -> Request \cup {Idle}]
  <2>1. request[q] \in Request
    BY <1>4, <1>0, RequestFacts
  <2>2. [request[q] EXCEPT !.step = "commit", !.outcome = outcome, !.targets = T] \in Request
    BY <2>1 DEF Request
  <2>. QED  BY <1>0, <1>4, <2>2 DEF Resolve, TypeOK
<1>5. ASSUME NEW q \in Requests, Step(q)
      PROVE  /\ authority' \in [Users -> Requests \cup {Nobody}]
             /\ request' \in [Requests -> Request \cup {Idle}]
  <2>1. CASE \E op \in {"refresh", "logout"}, i \in SessionIds : Begin(q, op, i)
    <3>1. PICK op \in {"refresh", "logout"}, i \in SessionIds : Begin(q, op, i)
      BY <2>1
    <3>2. [step |-> "lock", op |-> op, session |-> i, started |-> clock,
           outcome |-> "undecided", targets |-> {}] \in Request
      BY <1>0 DEF Request, Outcome, TypeOK
    <3>. QED  BY <1>0, <3>1, <3>2 DEF Begin, TypeOK
  <2>2. CASE Acquire(q)
    <3>1. request[q] \in Request
      BY <2>2, <1>0, RequestFacts DEF Acquire
    <3>2. [request[q] EXCEPT !.step = "decide"] \in Request
      BY <3>1 DEF Request
    <3>. QED  BY <1>0, <2>2, <3>2 DEF Acquire, TypeOK
  <2>3. CASE DecideRefresh(q)
    BY <2>3, <1>4 DEF DecideRefresh, Deciding, Outcome, ActiveOfFamily, Stored
  <2>4. CASE DecideLogout(q)
    BY <2>4, <1>4 DEF DecideLogout, Deciding, Outcome, ActiveOfUser, Stored
  <2>. QED  BY <1>3, <1>5, <2>1, <2>2, <2>3, <2>4
            DEF Step, CommitRotation, CommitRevocation, CommitExpulsion, CommitRejection, Abort
<1>6. ASSUME \/ \E u \in Users, i \in SessionIds : Login(u, i)
             \/ \E u \in Users : SetEnabled(u)
             \/ Tick
      PROVE  /\ authority' \in [Users -> Requests \cup {Nobody}]
             /\ request' \in [Requests -> Request \cup {Idle}]
  BY <1>0, <1>6 DEF Login, SetEnabled, Tick, TypeOK
<1>7. /\ authority' \in [Users -> Requests \cup {Nobody}]
      /\ request' \in [Requests -> Request \cup {Idle}]
  BY <1>5, <1>6 DEF Next
<1>. QED  BY <1>0, <1>1, <1>2, <1>7 DEF TypeOK

LEMMA FamiliesPreserved ==
    ASSUME IInv, Next
    PROVE  Families'
<1>. DEFINE Good(i) == /\ sessions'[i].family \in Stored'
                       /\ sessions'[sessions'[i].family].user = sessions'[i].user
                       /\ sessions'[sessions'[i].family].family = sessions'[i].family
<1>1. ASSUME NEW i \in Stored
      PROVE  Good(i)
  BY SessionSteps DEF IInv, Families, Stored
<1>2. ASSUME NEW i \in SessionIds \ Stored, sessions'[i] # NoSession
      PROVE  Good(i)
  <2>1. CASE sessions'[i].family = i
    BY <1>2, <2>1 DEF Stored
  <2>2. CASE sessions'[i].family # i
    <3>1. PICK q \in Requests :
             /\ sessions'[i].user = UserOf(q)
             /\ sessions'[i].family = sessions[request[q].session].family
             /\ Unspent(request[q].session)
      BY <1>2, <2>2, SessionSteps
    <3>2. request[q].session \in Stored
      BY <3>1 DEF Unspent
    <3>3. Good(request[q].session)
      BY <1>1, <3>2
    <3>. QED  BY <3>1, <3>2, <3>3, SessionSteps DEF UserOf
  <2>. QED  BY <2>1, <2>2
<1>. QED  BY <1>1, <1>2 DEF Families, Stored

LEMMA OnePreserved ==
    ASSUME IInv, Next
    PROVE  OneUnspentPerFamily'
<1>1. ASSUME NEW i \in SessionIds, NEW j \in SessionIds, i \in Stored, j \in Stored,
             Unspent(i)', Unspent(j)', sessions'[i].family = sessions'[j].family
      PROVE  i = j
  BY <1>1, SessionSteps DEF IInv, OneUnspentPerFamily
<1>2. ASSUME NEW i \in SessionIds \ Stored, NEW j \in SessionIds, j \in Stored,
             Unspent(i)', Unspent(j)', sessions'[i].family = sessions'[j].family
      PROVE  FALSE
  <2>0. sessions'[i] # NoSession
    BY <1>2 DEF Unspent, Stored
  <2>1. Unspent(j) /\ sessions'[j].family = sessions[j].family /\ sessions[j].family \in Stored
    BY <1>2, SessionSteps DEF IInv, Families
  <2>2. CASE sessions'[i].family = i
    BY <1>2, <2>1, <2>2
  <2>3. CASE sessions'[i].family # i
    <3>1. PICK q \in Requests :
             /\ sessions'[i].family = sessions[request[q].session].family
             /\ Unspent(request[q].session)
             /\ sessions'[request[q].session].consumed # Never
      BY <2>0, <2>3, SessionSteps
    <3>2. request[q].session = j
      BY <1>2, <2>1, <3>1 DEF IInv, OneUnspentPerFamily, Unspent, Stored
    <3>. QED  BY <1>2, <3>1, <3>2 DEF Unspent
  <2>. QED  BY <2>2, <2>3
<1>3. ASSUME NEW i \in SessionIds \ Stored, NEW j \in SessionIds \ Stored,
             Unspent(i)', Unspent(j)'
      PROVE  i = j
  BY <1>3, SessionSteps DEF Unspent, Stored
<1>. QED  BY <1>1, <1>2, <1>3 DEF OneUnspentPerFamily

LEMMA OverPreserved ==
    ASSUME IInv, Next
    PROVE  RevokedFamilyStaysOver'
<1>. SUFFICES ASSUME NEW i \in Stored', NEW j \in Stored', sessions'[i].revoked,
                     sessions'[i].family = sessions'[j].family, Unspent(j)'
              PROVE  FALSE
  BY DEF RevokedFamilyStaysOver
<1>0. /\ i \in SessionIds /\ j \in SessionIds
      /\ sessions'[i] # NoSession /\ sessions'[j] # NoSession /\ ~sessions'[j].revoked
  BY DEF Stored, Unspent
<1>1. i \in Stored
  BY <1>0, SessionSteps
<1>2. CASE j \in Stored
  <2>1. Unspent(j) /\ sessions[i].family = sessions[j].family
    BY <1>1, <1>2, SessionSteps
  <2>2. ~sessions[i].revoked
    BY <1>1, <1>2, <2>1 DEF IInv, RevokedFamilyStaysOver
  <2>3. Unspent(i)
    BY <1>1, <2>2, SessionSteps
  <2>4. i = j
    BY <1>0, <2>1, <2>3 DEF IInv, OneUnspentPerFamily
  <2>. QED  BY <1>0, <2>4
<1>3. CASE j \notin Stored
  <2>1. sessions[i].revoked /\ sessions[i].family = sessions'[j].family
    BY <1>0, <1>1, <1>3, SessionSteps
  <2>2. CASE sessions'[j].family = j
    BY <1>1, <1>3, <2>1, <2>2 DEF IInv, Families
  <2>3. CASE sessions'[j].family # j
    <3>1. PICK q \in Requests :
             /\ sessions'[j].family = sessions[request[q].session].family
             /\ Unspent(request[q].session)
      BY <1>0, <1>3, <2>3, SessionSteps
    <3>. QED  BY <1>1, <2>1, <3>1 DEF IInv, RevokedFamilyStaysOver, Unspent
  <2>. QED  BY <2>2, <2>3
<1>. QED  BY <1>2, <1>3

\* Only the holder gives a lock back, and only a free lock is taken.
LEMMA AuthoritySteps ==
    ASSUME TypeOK, Next, NEW u \in Users, authority'[u] # authority[u]
    PROVE  \/ authority[u] = Nobody
           \/ \E q \in Requests : request'[q] = Idle /\ authority[u] = q
<1>1. ASSUME NEW q \in Requests, Finish(q)
      PROVE  request'[q] = Idle /\ authority[u] = q
  BY <1>1 DEF Finish, TypeOK
<1>2. ASSUME NEW q \in Requests, Step(q)
      PROVE  authority[u] = Nobody \/ Finish(q)
  <2>1. CASE Acquire(q)
    BY <2>1 DEF Acquire, TypeOK
  <2>. QED  BY <1>2, <2>1 DEF Step, Begin, DecideRefresh, DecideLogout, Resolve, CommitRotation,
                              CommitRevocation, CommitExpulsion, CommitRejection, Abort
<1>3. ASSUME \/ \E v \in Users, i \in SessionIds : Login(v, i)
             \/ \E v \in Users : SetEnabled(v)
             \/ Tick
      PROVE  FALSE
  BY <1>3 DEF Login, SetEnabled, Tick
<1>. QED  BY <1>1, <1>2, <1>3 DEF Next

LEMMA SameFamily ==
    ASSUME IInv, NEW i \in Stored, NEW j \in Stored, sessions[i].family = sessions[j].family
    PROVE  sessions[i].user = sessions[j].user
BY DEF IInv, Families

\* A request that has decided keeps its row, its session and the lock it holds.
LEMMA DecideFacts ==
    ASSUME IInv, NEW r \in Requests, DecideRefresh(r) \/ DecideLogout(r)
    PROVE  /\ request[r] \in Request /\ request[r].step = "decide"
           /\ request[r].session \in Stored /\ authority[UserOf(r)] = r
           /\ sessions' = sessions /\ authority' = authority
           /\ request'[r].session = request[r].session
           /\ request'[r].started = request[r].started
           /\ \A outcome \in Outcome, T \in SUBSET SessionIds : Resolve(r, outcome, T) =>
                request'[r].outcome = outcome /\ request'[r].targets = T
<1>1. request[r] # Idle /\ request[r].step = "decide"
  BY DEF DecideRefresh, DecideLogout, Deciding
<1>2. request[r] \in Request
  BY <1>1, RequestFacts DEF IInv
<1>3. request[r].session \in Stored /\ authority[UserOf(r)] = r
  BY <1>1 DEF IInv, Holding
<1>4. sessions' = sessions /\ authority' = authority
  BY DEF DecideRefresh, DecideLogout, Resolve
<1>5. ASSUME NEW outcome \in Outcome, NEW T \in SUBSET SessionIds, Resolve(r, outcome, T)
      PROVE  /\ request'[r].session = request[r].session
             /\ request'[r].started = request[r].started
             /\ request'[r].outcome = outcome /\ request'[r].targets = T
  <2>1. request'[r] = [request[r] EXCEPT !.step = "commit", !.outcome = outcome,
                                         !.targets = T]
    BY <1>5 DEF Resolve, IInv, TypeOK
  <2>. QED  BY <1>2, <2>1 DEF Request
<1>6. \E outcome \in Outcome, T \in SUBSET SessionIds : Resolve(r, outcome, T)
  <2>1. CASE DecideRefresh(r)
    BY <2>1 DEF DecideRefresh, ActiveOfFamily, Stored, Outcome
  <2>2. CASE DecideLogout(r)
    BY <2>2 DEF DecideLogout, ActiveOfUser, Stored, Outcome
  <2>. QED  BY <2>1, <2>2
<1>. QED  BY <1>1, <1>2, <1>3, <1>4, <1>5, <1>6

LEMMA HoldingPreserved ==
    ASSUME IInv, Next
    PROVE  Holding'
<1>0. TypeOK
  BY DEF IInv
<1>. SUFFICES ASSUME NEW r \in Requests, request'[r] # Idle
              PROVE  /\ request'[r].session \in Stored'
                     /\ request'[r].step # "lock" => authority'[UserOf(r)'] = r
  BY DEF Holding
<1>1. \A i \in Stored : i \in Stored'
  BY SessionSteps DEF Stored
<1>2. CASE request'[r] = request[r]
  <2>1. request[r].session \in Stored
    BY <1>2 DEF IInv, Holding
  <2>2. ASSUME request[r].step # "lock"
        PROVE  authority'[UserOf(r)'] = r
    <3>1. UserOf(r)' = UserOf(r)
      BY <1>2, <2>2, Undisturbed
    <3>2. authority[UserOf(r)] = r
      BY <1>2, <2>2 DEF IInv, Holding
    <3>3. UserOf(r) \in Users
      BY <1>0, <2>1, StoredFacts DEF UserOf, Session, Stored
    <3>. QED  BY <1>0, <3>1, <3>2, <3>3, AuthoritySteps, NullsAssumption
  <2>. QED  BY <1>1, <1>2, <2>1, <2>2
<1>3. CASE \E op \in {"refresh", "logout"}, i \in SessionIds : Begin(r, op, i)
  BY <1>0, <1>1, <1>3 DEF Begin, TypeOK
<1>4. CASE Acquire(r)
  <2>1. request[r] \in Request /\ request[r].session \in Stored
    BY <1>0, <1>4, RequestFacts DEF Acquire, IInv, Holding
  <2>2. request'[r] = [request[r] EXCEPT !.step = "decide"] /\ sessions' = sessions
    BY <1>0, <1>4 DEF Acquire, TypeOK
  <2>3. request'[r].session = request[r].session
    BY <2>1, <2>2 DEF Request
  <2>4. UserOf(r) \in Users
    BY <1>0, <2>1, StoredFacts DEF UserOf, Session, Stored
  <2>5. authority'[UserOf(r)] = r
    BY <1>0, <1>4, <2>4 DEF Acquire, TypeOK
  <2>. QED  BY <1>1, <2>1, <2>2, <2>3, <2>5 DEF UserOf
<1>5. CASE DecideRefresh(r) \/ DecideLogout(r)
  BY <1>1, <1>5, DecideFacts DEF UserOf
<1>. QED  BY <1>0, <1>2, <1>3, <1>4, <1>5, RequestSteps

\* A request that is committing was committing before, or has just decided.
LEMMA CommittingSteps ==
    ASSUME IInv, Next, NEW r \in Requests, Committing(r)'
    PROVE  \/ request'[r] = request[r] /\ Committing(r)
           \/ DecideRefresh(r)
           \/ DecideLogout(r)
<1>0. TypeOK
  BY DEF IInv
<1>1. request'[r] # Idle /\ request'[r].step = "commit"
  BY DEF Committing
<1>2. ASSUME Acquire(r)
      PROVE  FALSE
  <2>1. request[r] \in Request
    BY <1>0, <1>2, RequestFacts DEF Acquire
  <2>2. request'[r] = [request[r] EXCEPT !.step = "decide"]
    BY <1>0, <1>2 DEF Acquire, TypeOK
  <2>3. request'[r].step = "decide"
    BY <2>1, <2>2 DEF Request
  <2>. QED  BY <1>1, <2>3
<1>3. ASSUME NEW op \in {"refresh", "logout"}, NEW i \in SessionIds, Begin(r, op, i)
      PROVE  FALSE
  <2>1. request'[r].step = "lock"
    BY <1>0, <1>3 DEF Begin, TypeOK
  <2>. QED  BY <1>1, <2>1
<1>. QED  BY <1>0, <1>1, <1>2, <1>3, RequestSteps DEF Committing

LEMMA RotatablePreserved ==
    ASSUME IInv, Next
    PROVE  Rotatable'
<1>. SUFFICES ASSUME NEW r \in Requests, Committing(r)', request'[r].outcome = "rotate"
              PROVE  Unspent(request[r].session)'
  BY DEF Rotatable
<1>1. CASE request'[r] = request[r] /\ Committing(r)
  <2>1. Unspent(request[r].session)
    BY <1>1 DEF IInv, Rotatable
  <2>2. sessions'[request[r].session] = sessions[request[r].session]
    BY <1>1, <2>1, Undisturbed DEF Committing, UserOf, Unspent
  <2>. QED  BY <1>1, <2>1, <2>2 DEF Unspent, Stored
<1>2. CASE DecideRefresh(r)
  <2>1. /\ request[r].session \in Stored /\ sessions' = sessions
        /\ request'[r].session = request[r].session
        /\ \A outcome \in Outcome, T \in SUBSET SessionIds : Resolve(r, outcome, T) =>
             request'[r].outcome = outcome /\ request'[r].targets = T
    BY <1>2, DecideFacts
  <2>2. Unspent(request[r].session)
    BY <1>2, <2>1 DEF DecideRefresh, Outcome, ActiveOfFamily, Stored, Unspent
  <2>. QED  BY <2>1, <2>2 DEF Unspent, Stored
<1>3. CASE DecideLogout(r)
  <2>1. \A outcome \in Outcome, T \in SUBSET SessionIds : Resolve(r, outcome, T) =>
             request'[r].outcome = outcome /\ request'[r].targets = T
    BY <1>3, DecideFacts
  <2>. QED  BY <1>3, <2>1 DEF DecideLogout, Outcome, ActiveOfUser, Stored
<1>. QED  BY <1>1, <1>2, <1>3, CommittingSteps

\* What the targets of a decision are, by the outcome and the operation.
LEMMA TargetFacts ==
    ASSUME IInv, NEW r \in Requests, DecideRefresh(r) \/ DecideLogout(r)
    PROVE  LET i == request[r].session
           IN  /\ \A t \in request'[r].targets :
                     \/ t \in ActiveOfFamily(sessions[i].family, request[r].started)
                     \/ t \in ActiveOfUser(sessions[i].user, request[r].started)
               /\ request'[r].outcome = "revoke" =>
                     \/ request'[r].targets
                          = ActiveOfFamily(sessions[i].family, request[r].started)
                     \/ request'[r].targets = ActiveOfUser(sessions[i].user, request[r].started)
<1>1. \A outcome \in Outcome, T \in SUBSET SessionIds : Resolve(r, outcome, T) =>
         request'[r].outcome = outcome /\ request'[r].targets = T
  BY DecideFacts
<1>2. \A f \in SessionIds \cup {sessions[request[r].session].family} :
         ActiveOfFamily(f, request[r].started) \in SUBSET SessionIds
  BY DEF ActiveOfFamily, Stored
<1>3. ActiveOfUser(sessions[request[r].session].user, request[r].started) \in SUBSET SessionIds
  BY DEF ActiveOfUser, Stored
<1>4. CASE DecideRefresh(r)
  BY <1>1, <1>2, <1>4 DEF DecideRefresh, Outcome
<1>5. CASE DecideLogout(r)
  BY <1>1, <1>3, <1>5 DEF DecideLogout, Outcome
<1>. QED  BY <1>4, <1>5

LEMMA OwnedPreserved ==
    ASSUME IInv, Next
    PROVE  Owned'
<1>. SUFFICES ASSUME NEW r \in Requests, Committing(r)', NEW t \in request'[r].targets
              PROVE  t \in Stored' /\ sessions'[t].user = UserOf(r)'
  BY DEF Owned
<1>1. CASE request'[r] = request[r] /\ Committing(r)
  <2>1. t \in Stored /\ sessions[t].user = UserOf(r)
    BY <1>1 DEF IInv, Owned
  <2>. QED  BY <1>1, <2>1, Undisturbed, SessionSteps DEF Committing, Stored
<1>2. CASE DecideRefresh(r) \/ DecideLogout(r)
  <2>1. /\ request[r].session \in Stored /\ sessions' = sessions
        /\ request'[r].session = request[r].session
    BY <1>2, DecideFacts
  <2>2. \/ t \in ActiveOfFamily(sessions[request[r].session].family, request[r].started)
        \/ t \in ActiveOfUser(sessions[request[r].session].user, request[r].started)
    BY <1>2, TargetFacts
  <2>3. t \in Stored /\ sessions[t].user = UserOf(r)
    BY <2>1, <2>2, SameFamily DEF ActiveOfFamily, ActiveOfUser, UserOf
  <2>. QED  BY <2>1, <2>3 DEF Stored, UserOf
<1>. QED  BY <1>1, <1>2, CommittingSteps

LEMMA CoveredPreserved ==
    ASSUME IInv, Next
    PROVE  Covered'
<1>. SUFFICES ASSUME NEW r \in Requests, Committing(r)', request'[r].outcome = "revoke",
                     NEW t \in request'[r].targets \cup {request'[r].session},
                     NEW j \in Stored', sessions'[j].family = sessions'[t].family,
                     Unspent(j)', sessions'[j].expires > request'[r].started
              PROVE  j \in request'[r].targets
  <2>1. ASSUME NEW r \in Requests, Committing(r)', request'[r].outcome = "revoke",
               NEW t \in request'[r].targets \cup {request'[r].session},
               NEW j \in Stored', sessions'[j].family = sessions'[t].family
        PROVE  \/ j \in request'[r].targets
               \/ ~Unspent(j)'
               \/ sessions'[j].expires <= request'[r].started
    <3>1. TypeOK'
      BY TypePreserved
    <3>2. sessions'[j] \in Session
      BY <3>1, NullsAssumption DEF TypeOK, Stored
    <3>3. request'[r] \in Request
      BY <2>1, <3>1 DEF TypeOK, Committing
    <3>4. sessions'[j].expires \in Nat /\ request'[r].started \in Nat
      BY <3>2, <3>3 DEF Session, Request
    <3>. QED  BY <2>1, <3>4
  <2>. QED  BY <2>1 DEF Covered
<1>1. CASE request'[r] = request[r] /\ Committing(r)
  <2>1. t \in Stored /\ sessions[t].user = UserOf(r)
    BY <1>1 DEF IInv, Owned, Holding, Committing, UserOf
  <2>2. sessions'[t] = sessions[t]
    BY <1>1, <2>1, Undisturbed DEF Committing
  <2>3. CASE j \in Stored
    <3>1. sessions[j].family = sessions[t].family
      BY <2>2, <2>3, SessionSteps
    <3>2. sessions[j].user = UserOf(r)
      BY <2>1, <2>3, <3>1, SameFamily
    <3>3. sessions'[j] = sessions[j]
      BY <1>1, <2>3, <3>2, Undisturbed DEF Committing
    <3>4. Unspent(j)
      BY <2>3, <3>3 DEF Unspent
    <3>5. \/ j \in request[r].targets
          \/ sessions[j].expires <= request[r].started
      BY <1>1, <2>3, <3>1, <3>4 DEF IInv, Covered
    <3>6. sessions[j].expires \in Nat /\ request[r].started \in Nat
      <4>1. sessions[j] \in Session /\ request[r] \in Request
        BY <1>1, <2>3, StoredFacts, RequestFacts DEF IInv, Committing, Stored
      <4>. QED  BY <4>1 DEF Session, Request
    <3>. QED  BY <1>1, <3>3, <3>5, <3>6
  <2>4. CASE j \notin Stored
    <3>1. j \in SessionIds /\ sessions'[j] # NoSession
      BY DEF Stored
    <3>2. t \in Stored'
      BY <2>1, <2>2 DEF Stored
    <3>3. sessions'[j].user = sessions'[t].user
      BY <3>2, FamiliesPreserved DEF Families
    <3>4. sessions'[j].family = j
      BY <1>1, <2>1, <2>2, <2>4, <3>1, <3>3, Undisturbed DEF Committing
    <3>. QED  BY <2>1, <2>2, <2>4, <3>4 DEF IInv, Families
  <2>. QED  BY <2>3, <2>4
<1>2. CASE DecideRefresh(r) \/ DecideLogout(r)
  <2>. DEFINE i == request[r].session
  <2>1. /\ i \in Stored /\ sessions' = sessions
        /\ request'[r].session = i /\ request'[r].started = request[r].started
    BY <1>2, DecideFacts
  <2>2. \/ request'[r].targets = ActiveOfFamily(sessions[i].family, request[r].started)
        \/ request'[r].targets = ActiveOfUser(sessions[i].user, request[r].started)
    BY <1>2, TargetFacts
  <2>3. j \in Stored /\ Unspent(j) /\ sessions[j].expires > request[r].started
    BY <2>1 DEF Stored, Unspent
  <2>4. CASE request'[r].targets = ActiveOfFamily(sessions[i].family, request[r].started)
    BY <2>1, <2>3, <2>4 DEF ActiveOfFamily
  <2>5. CASE request'[r].targets = ActiveOfUser(sessions[i].user, request[r].started)
    <3>1. t \in Stored /\ sessions[t].user = sessions[i].user
      BY <2>1, <2>5 DEF ActiveOfUser
    <3>2. sessions[j].user = sessions[i].user
      BY <2>1, <2>3, <3>1, SameFamily
    <3>. QED  BY <2>3, <2>5, <3>2 DEF ActiveOfUser
  <2>. QED  BY <2>2, <2>4, <2>5
<1>. QED  BY <1>1, <1>2, CommittingSteps

-----------------------------------------------------------------------------
(* Theorems *)

\* The strengthened invariant: it is inductive because every step but a login needs
\* the lock of the user whose sessions it writes.
THEOREM Invariance == Spec => []IInv
<1>1. Init => IInv
  BY Initially
<1>2. IInv /\ [Next]_vars => IInv'
  <2>1. ASSUME IInv, Next
        PROVE  IInv'
    BY <2>1, TypePreserved, FamiliesPreserved, HoldingPreserved, RotatablePreserved,
       OwnedPreserved, CoveredPreserved, OnePreserved, OverPreserved DEF IInv
  <2>2. ASSUME IInv, UNCHANGED vars
        PROVE  IInv'
    BY <2>2 DEF vars, IInv, TypeOK, Families, Holding, Rotatable, Owned, Covered, Committing,
                Stored, Unspent, UserOf, OneUnspentPerFamily, RevokedFamilyStaysOver
  <2>. QED  BY <2>1, <2>2
<1>. QED  BY <1>1, <1>2, PTL DEF Spec

\* Every variable keeps its type (api/auth.py, services/refresh_sessions.py).
THEOREM TypeCorrect == Spec => []TypeOK
<1>1. IInv => TypeOK
  BY DEF IInv
<1>. QED  BY <1>1, Invariance, PTL

\* One login is never worth two browsers, for any number of concurrent refreshes,
\* replays and logouts (auth.py: refresh, _reject_refresh_reuse, logout).
THEOREM OneUnspentPerFamilyAlways == Spec => []OneUnspentPerFamily
<1>1. IInv => OneUnspentPerFamily
  BY DEF IInv
<1>. QED  BY <1>1, Invariance, PTL

\* A family that lost a session to a logout or to a detected replay is never used
\* again (refresh_sessions.py: revoke_active_family, revoke_active_user_sessions).
THEOREM RevokedFamilyStaysOverAlways == Spec => []RevokedFamilyStaysOver
<1>1. IInv => RevokedFamilyStaysOver
  BY DEF IInv
<1>. QED  BY <1>1, Invariance, PTL

\* When a logout or a detected replay commits, no session of the families it is about
\* stays usable: no successor was written behind its back (auth.py: logout and
\* _reject_refresh_reuse, under acquire_user_authority_lock).
THEOREM RevocationIsCompleteAlways == Spec => RevocationIsComplete
<1>1. ASSUME IInv, Next, NEW r \in Requests, Committing(r), request[r].outcome = "revoke",
             sessions' # sessions, request'[r] = Idle,
             NEW i \in request[r].targets \cup {request[r].session}, NEW j \in SessionIds,
             sessions[j] # NoSession, sessions[j].family = sessions[i].family
      PROVE  ~Unspent(j)' \/ sessions[j].expires <= request[r].started
  <2>1. ASSUME NEW q \in Requests, Finish(q)
        PROVE  q = r
    BY <1>1, <2>1 DEF Finish, IInv, TypeOK, Committing
  <2>2. CommitRevocation(r)
    <3>1. ~\E u \in Users, n \in SessionIds : Login(u, n)
      BY <1>1 DEF Login, Committing
    <3>2. \A q \in Requests, n \in SessionIds : ~CommitRotation(q, n)
      BY <1>1, <2>1 DEF CommitRotation
    <3>3. \A q \in Requests : ~CommitExpulsion(q)
      BY <1>1, <2>1 DEF CommitExpulsion
    <3>4. \A q \in Requests : CommitRevocation(q) => q = r
      BY <2>1 DEF CommitRevocation
    <3>. QED  BY <1>1, <3>1, <3>2, <3>3, <3>4, Writers DEF Writes
  <2>3. j \in Stored
    BY <1>1 DEF Stored
  <2>4. \/ j \in request[r].targets
        \/ ~Unspent(j)
        \/ sessions[j].expires <= request[r].started
    BY <1>1, <2>3 DEF IInv, Covered
  <2>5. CASE j \in request[r].targets /\ Unspent(j)
    <3>1. sessions'[j].revoked
      BY <1>1, <2>2, <2>3, <2>5, RevokedFacts DEF CommitRevocation, IInv
    <3>. QED  BY <3>1 DEF Unspent
  <2>6. CASE ~Unspent(j)
    BY <1>1, <2>3, <2>6, SessionSteps
  <2>. QED  BY <2>4, <2>5, <2>6
<1>2. IInv /\ [Next]_vars =>
        [\A r \in Requests :
            Committing(r) /\ request[r].outcome = "revoke" /\ sessions' # sessions
              /\ request'[r] = Idle =>
                \A i \in request[r].targets \cup {request[r].session}, j \in SessionIds :
                    sessions[j] # NoSession /\ sessions[j].family = sessions[i].family
                      => ~Unspent(j)' \/ sessions[j].expires <= request[r].started]_vars
  BY <1>1
<1>. QED  BY <1>2, Invariance, PTL DEF Spec, RevocationIsComplete

-----------------------------------------------------------------------------
(* The refinement *)

\* What the rows show of family f.
Shown(f) == IF f \in Stored /\ sessions[f].family = f
            THEN [user |-> sessions[f].user, token |-> Current(f)]
            ELSE NoSession

\* The unspent session of a family, if there is one, is its current one.
LEMMA CurrentFacts ==
    OneUnspentPerFamily => \A f \in SessionIds :
        /\ \A i \in Stored : Unspent(i) /\ sessions[i].family = f => Current(f) = i
        /\ (\A i \in Stored : ~(Unspent(i) /\ sessions[i].family = f)) => Current(f) = Never
<1>. SUFFICES ASSUME OneUnspentPerFamily, NEW f
              PROVE  /\ \A i \in Stored : Unspent(i) /\ sessions[i].family = f => Current(f) = i
                     /\ (\A i \in Stored : ~(Unspent(i) /\ sessions[i].family = f))
                           => Current(f) = Never
  OBVIOUS
<1>1. ASSUME NEW i \in Stored, Unspent(i), sessions[i].family = f
      PROVE  Current(f) = i
  <2>1. \A j \in Stored : Unspent(j) /\ sessions[j].family = f => j = i
    BY <1>1 DEF OneUnspentPerFamily, Stored
  <2>2. (CHOOSE j \in Stored : Unspent(j) /\ sessions[j].family = f) = i
    BY <1>1, <2>1
  <2>. QED  BY <1>1, <2>2 DEF Current
<1>2. (\A i \in Stored : ~(Unspent(i) /\ sessions[i].family = f)) => Current(f) = Never
  BY DEF Current
<1>. QED  BY <1>1, <1>2

\* A family is there when the row that names it is, and lives while it has an unspent session.
Exhibited ==
    \A f \in SessionIds :
        /\ Shown(f) # NoSession <=> f \in Stored /\ sessions[f].family = f
        /\ Shown(f) # NoSession => Shown(f) = [user |-> sessions[f].user, token |-> Current(f)]
        /\ Current(f) \in SessionIds \cup {Never}
        /\ Current(f) # Never <=> \E i \in Stored : Unspent(i) /\ sessions[i].family = f
        /\ \A i \in Stored : Unspent(i) /\ sessions[i].family = f => Current(f) = i

LEMMA ShownFacts == IInv => Exhibited
<1>. SUFFICES ASSUME IInv, NEW f \in SessionIds
              PROVE  /\ Shown(f) # NoSession <=> f \in Stored /\ sessions[f].family = f
                     /\ Shown(f) # NoSession =>
                            Shown(f) = [user |-> sessions[f].user, token |-> Current(f)]
                     /\ Current(f) \in SessionIds \cup {Never}
                     /\ Current(f) # Never <=>
                            \E i \in Stored : Unspent(i) /\ sessions[i].family = f
                     /\ \A i \in Stored : Unspent(i) /\ sessions[i].family = f => Current(f) = i
  BY DEF Exhibited
<1>1. ASSUME NEW i \in Stored, Unspent(i), sessions[i].family = f
      PROVE  Current(f) = i /\ i \in SessionIds
  BY <1>1, CurrentFacts DEF IInv, Stored
<1>2. Current(f) # Never <=> \E i \in Stored : Unspent(i) /\ sessions[i].family = f
  BY <1>1, CurrentFacts, NullsAssumption DEF IInv
<1>3. Current(f) \in SessionIds \cup {Never}
  BY <1>1, CurrentFacts DEF IInv
<1>4. ASSUME f \in Stored, sessions[f].family = f
      PROVE  Shown(f) # NoSession
  <2>1. sessions[f].user \in Users
    BY <1>4, StoredFacts DEF Session, IInv
  <2>2. [user |-> sessions[f].user, token |-> Current(f)] \in Promised!Family
    BY <1>3, <2>1 DEF Promised!Family
  <2>. QED  BY <1>4, <2>2, NoFamilyAssumption DEF Shown
<1>. QED  BY <1>1, <1>2, <1>3, <1>4 DEF Shown

LEMMA ShownFactsNext == IInv' => Exhibited'
BY ShownFacts, PTL

\* A family whose unspent session stays, or that has none before and after, is shown the same.
LEMMA ShownSame ==
    ASSUME IInv, IInv', NEW f \in SessionIds,
           f \in Stored' <=> f \in Stored,
           f \in Stored => /\ sessions'[f].user = sessions[f].user
                           /\ sessions'[f].family = sessions[f].family,
           \A i \in SessionIds : i \in Stored /\ Unspent(i) /\ sessions[i].family = f <=>
                                 i \in Stored' /\ Unspent(i)' /\ sessions'[i].family = f
    PROVE  Shown(f)' = Shown(f)
<1>1. Stored \subseteq SessionIds /\ Stored' \subseteq SessionIds
  BY DEF Stored
<1>2. Current(f)' = Current(f)
  <2>1. CASE \E i \in Stored : Unspent(i) /\ sessions[i].family = f
    BY <1>1, <2>1, ShownFacts, ShownFactsNext DEF Exhibited
  <2>2. CASE ~\E i \in Stored : Unspent(i) /\ sessions[i].family = f
    BY <1>1, <2>2, ShownFacts, ShownFactsNext DEF Exhibited
  <2>. QED  BY <2>1, <2>2
<1>. QED  BY <1>2 DEF Shown

\* The promise's actions, said of what is shown.
LEMMA RotateMeans ==
    ASSUME NEW f \in SessionIds, NEW n, Shown(f) # NoSession,
           Shown(f).token # Never, n # Shown(f).token,
           Shown(f)' = [Shown(f) EXCEPT !.token = n],
           \A g \in SessionIds : g # f => Shown(g)' = Shown(g)
    PROVE  Promised!Rotate(f, n)
<1>. DEFINE m == [g \in SessionIds |-> Shown(g)]
<1>1. Promised!Rotate(f, n) <=> /\ m[f] # NoSession /\ m[f].token # Never /\ n # m[f].token
                                /\ m' = [m EXCEPT ![f].token = n]
  BY DEF Promised!Rotate, Promised!Lives, Shown
<1>2. m' = [m EXCEPT ![f] = [Shown(f) EXCEPT !.token = n]]
  OBVIOUS
<1>. QED  BY <1>1, <1>2

LEMMA EndMeans ==
    ASSUME NEW ended \in SUBSET SessionIds,
           \A f \in ended : /\ Shown(f) # NoSession /\ Shown(f).token # Never
                            /\ Shown(f)' = [Shown(f) EXCEPT !.token = Never],
           \A f \in SessionIds : f \notin ended => Shown(f)' = Shown(f)
    PROVE  Promised!End(ended)
<1>. DEFINE m == [g \in SessionIds |-> Shown(g)]
<1>1. Promised!End(ended) <=>
          /\ \A f \in ended : m[f] # NoSession /\ m[f].token # Never
          /\ m' = [f \in SessionIds |->
                      IF f \in ended THEN [m[f] EXCEPT !.token = Never] ELSE m[f]]
  BY DEF Promised!End, Promised!Lives, Shown
<1>2. m' = [f \in SessionIds |->
               IF f \in ended THEN [Shown(f) EXCEPT !.token = Never] ELSE Shown(f)]
  OBVIOUS
<1>. QED  BY <1>1, <1>2

\* A login opens its family.
LEMMA LoginOpens ==
    ASSUME IInv, IInv', NEW u \in Users, NEW n \in SessionIds, Login(u, n)
    PROVE  Promised!Open(u, n)
<1>1. /\ n \notin Stored
      /\ sessions'[n].user = u /\ sessions'[n].family = n
      /\ n \in Stored' /\ Unspent(n)'
      /\ \A k \in SessionIds \ {n} : sessions'[k] = sessions[k]
  BY NewFacts, NullsAssumption DEF Login, IInv, TypeOK, Stored, Unspent
<1>2. Shown(n) = NoSession
  BY <1>1 DEF Shown
<1>3. Shown(n)' = [user |-> u, token |-> n]
  BY <1>1, ShownFactsNext DEF Exhibited
<1>4. ASSUME NEW f \in SessionIds, f # n
      PROVE  Shown(f)' = Shown(f)
  <2>1. \A i \in SessionIds : i \in Stored /\ Unspent(i) /\ sessions[i].family = f <=>
                              i \in Stored' /\ Unspent(i)' /\ sessions'[i].family = f
    BY <1>1, <1>4 DEF Stored, Unspent
  <2>2. /\ f \in Stored' <=> f \in Stored
        /\ sessions'[f] = sessions[f]
    BY <1>1, <1>4 DEF Stored
  <2>. QED  BY <2>1, <2>2, ShownSame
<1>. QED  BY <1>2, <1>3, <1>4 DEF Promised!Open, Shown

\* A rotation moves its family on.
LEMMA RotationRotates ==
    ASSUME IInv, IInv', NEW q \in Requests, NEW n \in SessionIds, CommitRotation(q, n)
    PROVE  \E f \in SessionIds : Promised!Rotate(f, n)
<1>0. PICK i, f : i = request[q].session /\ f = sessions[i].family
  OBVIOUS
<1>1. /\ i \in Stored /\ n \notin Stored /\ i # n /\ Unspent(i)
      /\ sessions'[n] = New(sessions[i].user, f)
      /\ sessions'[i] = [sessions[i] EXCEPT !.consumed = clock]
      /\ \A k \in SessionIds \ {i, n} : sessions'[k] = sessions[k]
  BY <1>0, RotationFacts
<1>2. /\ i \in SessionIds /\ sessions[i] \in Session /\ f \in SessionIds
      /\ f \in Stored /\ sessions[f].family = f
  BY <1>0, <1>1, StoredFacts DEF IInv, Families, Stored, Session
<1>3. /\ sessions'[n].family = f /\ n \in Stored' /\ Unspent(n)'
      /\ sessions'[i].family = f /\ sessions'[i].user = sessions[i].user
      /\ i \in Stored' /\ ~Unspent(i)'
  <2>1. clock # Never /\ sessions'[i].consumed = clock
    BY <1>1, <1>2, NullsAssumption DEF IInv, TypeOK, Session
  <2>2. /\ New(sessions[i].user, f) \in Session /\ New(sessions[i].user, f).family = f
        /\ New(sessions[i].user, f).consumed = Never /\ ~New(sessions[i].user, f).revoked
    BY <1>2, NewFacts DEF IInv, Session
  <2>3. sessions'[i] \in Session
    BY <1>0, RotationFacts
  <2>4. sessions'[i].family = f /\ sessions'[i].user = sessions[i].user
    <3>1. \A d \in Session : LET e == [d EXCEPT !.consumed = clock]
                               IN  e.family = d.family /\ e.user = d.user
      BY DEF Session
    <3>. QED  BY <1>0, <1>1, <1>2, <3>1
  <2>5. n \in Stored' /\ i \in Stored'
    BY <1>1, <1>2, <2>2, <2>3, NullsAssumption DEF Stored
  <2>6. Unspent(n)' /\ ~Unspent(i)'
    <3>1. sessions'[n].consumed = Never /\ ~sessions'[n].revoked
      BY <1>1, <2>2
    <3>. QED  BY <2>1, <2>5, <3>1 DEF Unspent
  <2>7. sessions'[n].family = f
    BY <1>1, <2>2
  <2>. QED  BY <2>4, <2>5, <2>6, <2>7
<1>4. Shown(f) = [user |-> sessions[f].user, token |-> i]
  <2>1. Shown(f) # NoSession /\ Current(f) = i
    BY <1>0, <1>1, <1>2, ShownFacts DEF Exhibited
  <2>. QED  BY <2>1 DEF Shown
<1>5. Shown(f)' = [user |-> sessions[f].user, token |-> n]
  <2>1. f \in Stored' /\ sessions'[f].family = f /\ sessions'[f].user = sessions[f].user
    BY <1>1, <1>2, <1>3 DEF Stored
  <2>2. Shown(f)' # NoSession /\ Current(f)' = n
    BY <1>2, <1>3, <2>1, ShownFactsNext DEF Exhibited
  <2>. QED  BY <2>1, <2>2 DEF Shown
<1>6. ASSUME NEW g \in SessionIds, g # f
      PROVE  Shown(g)' = Shown(g)
  <2>1. CASE g = n
    BY <1>1, <1>2, <1>3, <1>6, <2>1 DEF Shown
  <2>2. CASE g # n
    <3>1. ASSUME NEW k \in SessionIds
          PROVE  k \in Stored /\ Unspent(k) /\ sessions[k].family = g <=>
                 k \in Stored' /\ Unspent(k)' /\ sessions'[k].family = g
      <4>1. CASE k \in {i, n}
        BY <1>1, <1>2, <1>3, <1>6, <4>1
      <4>2. CASE k \notin {i, n}
        <5>1. sessions'[k] = sessions[k]
          BY <1>1, <4>2
        <5>. QED  BY <5>1 DEF Stored, Unspent
      <4>. QED  BY <4>1, <4>2
    <3>2. /\ g \in Stored' <=> g \in Stored
          /\ g \in Stored => /\ sessions'[g].user = sessions[g].user
                             /\ sessions'[g].family = sessions[g].family
      <4>1. CASE g = i
        BY <1>0, <1>1, <1>2, <1>3, <4>1
      <4>2. CASE g # i
        <5>1. sessions'[g] = sessions[g]
          BY <1>1, <2>2, <4>2
        <5>. QED  BY <5>1 DEF Stored
      <4>. QED  BY <4>1, <4>2
    <3>. QED  BY <3>1, <3>2, ShownSame
  <2>. QED  BY <2>1, <2>2
<1>7. f \in SessionIds /\ Shown(f).token = i /\ i # Never /\ Shown(f) # NoSession
  BY <1>2, <1>4, ShownFacts, NullsAssumption DEF Exhibited
<1>8. Shown(f)' = [Shown(f) EXCEPT !.token = n]
  BY <1>4, <1>5
<1>9. Promised!Rotate(f, n)
  BY <1>1, <1>6, <1>7, <1>8, RotateMeans
<1>. QED  BY <1>7, <1>9

\* A step that only takes unspent sessions away ends the families it takes them from.
LEMMA LossEnds ==
    ASSUME IInv, IInv', Stored' = Stored,
           \A i \in Stored : /\ sessions'[i].user = sessions[i].user
                             /\ sessions'[i].family = sessions[i].family
                             /\ Unspent(i)' => Unspent(i)
    PROVE  \E ended \in SUBSET SessionIds : Promised!End(ended)
<1>0. PICK ended \in SUBSET SessionIds :
               ended = {f \in SessionIds : Shown(f) # NoSession /\ Current(f) # Never
                                                               /\ Current(f)' = Never}
  OBVIOUS
<1>1. \A f \in SessionIds : Current(f)' = Current(f) \/ Current(f)' = Never
  BY ShownFacts, ShownFactsNext DEF Exhibited
<1>2. \A f \in SessionIds : Shown(f)' # NoSession <=> Shown(f) # NoSession
  BY ShownFacts, ShownFactsNext DEF Exhibited
<1>3. \A f \in SessionIds : Shown(f) # NoSession =>
          /\ Shown(f) = [user |-> sessions[f].user, token |-> Current(f)]
          /\ Shown(f)' = [user |-> sessions[f].user, token |-> Current(f)']
  BY <1>2, ShownFacts, ShownFactsNext DEF Exhibited
<1>4. ASSUME NEW f \in ended
      PROVE  /\ Shown(f) # NoSession /\ Shown(f).token # Never
             /\ Shown(f)' = [Shown(f) EXCEPT !.token = Never]
  BY <1>0, <1>3, <1>4
<1>5. ASSUME NEW f \in SessionIds, f \notin ended
      PROVE  Shown(f)' = Shown(f)
  BY <1>0, <1>1, <1>2, <1>3, <1>5
<1>7. Promised!End(ended)
  BY <1>4, <1>5, EndMeans
<1>. QED  BY <1>7

\* Every step of the transactions is a step of the promise or none.
LEMMA StepKeepsPromise ==
    ASSUME IInv, IInv', [Next]_vars
    PROVE  [Promised!Next]_([f \in SessionIds |-> Shown(f)])
<1>. DEFINE shown == [f \in SessionIds |-> Shown(f)]
<1>1. CASE sessions' = sessions
  <2>1. \A f \in SessionIds : Shown(f)' = Shown(f)
    BY <1>1 DEF Shown, Current, Stored, Unspent
  <2>. QED  BY <2>1
<1>2. ASSUME NEW u \in Users, NEW n \in SessionIds, Login(u, n), shown' # shown
      PROVE  Promised!Next
  BY <1>2, LoginOpens DEF Promised!Next, Shown
<1>3. ASSUME NEW q \in Requests, NEW n \in SessionIds, CommitRotation(q, n), shown' # shown
      PROVE  Promised!Next
  BY <1>3, RotationRotates DEF Promised!Next, Shown
<1>4. ASSUME NEW q \in Requests, CommitRevocation(q) \/ CommitExpulsion(q), shown' # shown
      PROVE  Promised!Next
  <2>1. /\ Stored' = Stored
        /\ \A i \in Stored : /\ sessions'[i].user = sessions[i].user
                             /\ sessions'[i].family = sessions[i].family
                             /\ Unspent(i)' => Unspent(i)
    <3>1. Next
      BY <1>4 DEF Next, Step
    <3>2. \A i \in SessionIds \ Stored : sessions'[i] = NoSession
      <4>1. CASE CommitRevocation(q)
        BY <4>1, RevokedFacts DEF CommitRevocation, Stored, IInv
      <4>2. CASE CommitExpulsion(q)
        <5>1. \A i \in SessionIds \ Stored : sessions'[i] = Revoked(request[q].targets)[i]
          BY <4>2, ExpulsionFacts
        <5>. QED  BY <5>1, RevokedFacts DEF Stored, IInv
      <4>. QED  BY <1>4, <4>1, <4>2
    <3>. QED  BY <3>1, <3>2, SessionSteps DEF Stored
  <2>. QED  BY <1>4, <2>1, LossEnds DEF Promised!Next, Shown
<1>5. Next => Writes \/ sessions' = sessions
  BY Writers
<1>6. UNCHANGED vars => sessions' = sessions
  BY DEF vars
<1>7. CASE shown' # shown
  BY <1>1, <1>2, <1>3, <1>4, <1>5, <1>6, <1>7 DEF Writes
<1>. QED  BY <1>7

\* The transactions of logins, refreshes and logouts implement the promise of SessionFamilies:
\* to a browser each of them is one step of its family or none, and a family that is over
\* stays over (auth.py and refresh_sessions.py, as a whole).
THEOREM ImplementsFamiliesAlways == Spec => ImplementsFamilies
<1>1. Init => Promised!Init
  <2>1. ASSUME Init
        PROVE  Stored = {}
    BY <2>1 DEF Init, Stored
  <2>. QED  BY <2>1 DEF Promised!Init
<1>2. IInv /\ IInv' /\ [Next]_vars => [Promised!Next]_([f \in SessionIds |-> Shown(f)])
  BY StepKeepsPromise
<1>3. [f \in SessionIds |-> Shown(f)] = [f \in SessionIds |->
                      IF f \in Stored /\ sessions[f].family = f
                      THEN [user |-> sessions[f].user, token |-> Current(f)]
                      ELSE NoSession]
  BY DEF Shown
<1>. QED  BY <1>1, <1>2, Invariance, PTL DEF Spec, ImplementsFamilies, Promised!Spec, Shown
=============================================================================
