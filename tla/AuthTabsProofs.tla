---------------------------- MODULE AuthTabsProofs ----------------------------
(***************************************************************************)
(* Proofs about AuthTabs, for any number of tabs and users and any number  *)
(* of sessions: no late answer restores a session, honest tabs never look  *)
(* like a thief, and the tabs agree with the cookie they share.            *)
(***************************************************************************)
EXTENDS AuthTabs, DataInduction, TLAPS

-----------------------------------------------------------------------------
(* The queue when a document goes *)

\* The queue without t is the requests of the others in their order: its i-th request
\* is the f[i]-th of the queue.
Thinned(p, q, t) ==
    \E f \in [1..Len(p) -> 1..Len(q)] :
        /\ \A i \in 1..Len(p) : p[i] = q[f[i]] /\ q[f[i]].tab # t
        /\ \A i, j \in 1..Len(p) : i < j => f[i] < f[j]
        /\ \A k \in 1..Len(q) : q[k].tab # t => \E i \in 1..Len(p) : f[i] = k

LEMMA WithoutUnfolds ==
    ASSUME NEW q, NEW t, Len(q) \in Nat
    PROVE  \E g : /\ g = [n \in 0..Len(q) |->
                            IF n = 0 THEN <<>>
                            ELSE IF q[n].tab = t THEN g[n - 1] ELSE Append(g[n - 1], q[n])]
                  /\ Without(q, t) = g[Len(q)]
<1>. DEFINE Step(g, n) == IF n = 0 THEN <<>>
                          ELSE IF q[n].tab = t THEN g[n - 1] ELSE Append(g[n - 1], q[n])
            Upto(g, m) == g = [n \in 0..m |-> Step(g, n)]
            S == {m \in Nat : \E g : Upto(g, m)}
<1>1. 0 \in S
  <2>1. Upto([n \in 0..0 |-> <<>>], 0)
    OBVIOUS
  <2>. QED  BY <2>1
<1>2. ASSUME NEW m \in Nat, m \in S
      PROVE  m + 1 \in S
  <2>1. PICK g : Upto(g, m)
    BY <1>2
  <2>. DEFINE h == [n \in 0..(m + 1) |-> IF n <= m THEN g[n] ELSE Step(g, n)]
  <2>2. \A n \in 0..(m + 1) : Step(h, n) = Step(g, n)
    OBVIOUS
  <2>3. \A n \in 0..m : g[n] = Step(g, n)
    BY <2>1
  <2>. HIDE DEF Step
  <2>4. \A n \in 0..(m + 1) : h[n] = Step(h, n)
    BY <2>2, <2>3
  <2>5. Upto(h, m + 1)
    BY <2>4
  <2>. HIDE DEF Upto
  <2>. QED  BY <2>5
<1>3. Len(q) \in S
  <2>. HIDE DEF S
  <2>. QED  BY <1>1, <1>2, SetInduction
<1>4. PICK k : Upto(k, Len(q))
  BY <1>3
<1>5. Without(q, t) = (CHOOSE g : Upto(g, Len(q)))[Len(q)]
  BY DEF Without
<1>. QED  BY <1>4, <1>5

LEMMA WithoutThins ==
    \A S, t : \A q \in Seq(S) : Without(q, t) \in Seq(S) /\ Thinned(Without(q, t), q, t)
<1>. SUFFICES ASSUME NEW S, NEW t, NEW q \in Seq(S)
              PROVE  Without(q, t) \in Seq(S) /\ Thinned(Without(q, t), q, t)
  OBVIOUS
<1>. DEFINE Step(g, n) == IF n = 0 THEN <<>>
                          ELSE IF q[n].tab = t THEN g[n - 1] ELSE Append(g[n - 1], q[n])
<1>1. Len(q) \in Nat
  OBVIOUS
<1>2. PICK g : g = [n \in 0..Len(q) |-> Step(g, n)] /\ Without(q, t) = g[Len(q)]
  BY <1>1, WithoutUnfolds
<1>3. \A n \in 0..Len(q) : g[n] = Step(g, n)
  <2>. HIDE DEF Step
  <2>. QED  BY <1>2
<1>4. g[0] = Step(g, 0) /\ \A n \in 0..Len(q) - 1 : g[n + 1] = Step(g, n + 1)
  <2>. HIDE DEF Step
  <2>. QED  BY <1>1, <1>3
<1>5. /\ g[0] = <<>>
      /\ \A n \in 0..Len(q) - 1 :
            g[n + 1] = IF q[n + 1].tab = t THEN g[n] ELSE Append(g[n], q[n + 1])
  BY <1>1, <1>4
<1>. HIDE DEF Step
<1>. DEFINE Kept(n, f) ==
              /\ f \in [1..Len(g[n]) -> 1..n]
              /\ \A i \in 1..Len(g[n]) : g[n][i] = q[f[i]] /\ q[f[i]].tab # t
              /\ \A i, j \in 1..Len(g[n]) : i < j => f[i] < f[j]
              /\ \A k \in 1..n : q[k].tab # t => \E i \in 1..Len(g[n]) : f[i] = k
            Done == {n \in Nat : n <= Len(q) => g[n] \in Seq(S) /\ \E f : Kept(n, f)}
<1>6. 0 \in Done
  <2>1. g[0] \in Seq(S) /\ Len(g[0]) = 0
    BY <1>5
  <2>2. Kept(0, [i \in 1..0 |-> 0])
    BY <2>1
  <2>. QED  BY <2>1, <2>2
<1>7. ASSUME NEW n \in Nat, n \in Done
      PROVE  n + 1 \in Done
  <2>. SUFFICES ASSUME n + 1 <= Len(q)
                PROVE  g[n + 1] \in Seq(S) /\ \E f : Kept(n + 1, f)
    <3>. HIDE DEF Kept
    <3>. QED  OBVIOUS
  <2>1. PICK f : g[n] \in Seq(S) /\ Kept(n, f)
    BY <1>7
  <2>2. q[n + 1] \in S /\ n \in 0..Len(q) - 1
    BY <1>1
  <2>3. CASE q[n + 1].tab = t
    <3>1. g[n + 1] = g[n]
      BY <1>5, <2>2, <2>3
    <3>2. Kept(n + 1, f)
      BY <2>1, <2>3, <3>1
    <3>. QED  BY <2>1, <3>1, <3>2
  <2>4. CASE q[n + 1].tab # t
    <3>. DEFINE h == [i \in 1..Len(g[n]) + 1 |-> IF i <= Len(g[n]) THEN f[i] ELSE n + 1]
    <3>1. g[n + 1] = Append(g[n], q[n + 1])
      <4>. HIDE DEF h
      <4>. QED  BY <1>5, <2>2, <2>4, Zenon
    <3>2. /\ g[n + 1] \in Seq(S) /\ Len(g[n + 1]) = Len(g[n]) + 1
          /\ \A i \in 1..Len(g[n]) : g[n + 1][i] = g[n][i]
          /\ g[n + 1][Len(g[n]) + 1] = q[n + 1]
      BY <2>1, <2>2, <3>1
    <3>3. Len(g[n]) \in Nat
      BY <2>1
    <3>8. \A i \in 1..Len(g[n]) : f[i] \in 1..n
      BY <2>1
    <3>9. \A i \in 1..Len(g[n]) + 1 : i \in 1..Len(g[n]) \/ i = Len(g[n]) + 1
      BY <3>3
    <3>10. /\ \A i \in 1..Len(g[n]) : h[i] = f[i]
           /\ h[Len(g[n]) + 1] = n + 1
           /\ h = [i \in 1..Len(g[n]) + 1 |-> h[i]]
      <4>. HIDE DEF Kept
      <4>. QED  BY <3>3
    <3>. HIDE DEF h, Kept
    <3>4. /\ h \in [1..Len(g[n + 1]) -> 1..n + 1]
          /\ h[Len(g[n]) + 1] = n + 1
          /\ \A i \in 1..Len(g[n]) : h[i] = f[i] /\ f[i] \in 1..n
      <4>1. \A i \in 1..Len(g[n]) + 1 : h[i] \in 1..n + 1
        <5>1. \A k \in 1..n : k \in 1..n + 1
          OBVIOUS
        <5>2. n + 1 \in 1..n + 1
          OBVIOUS
        <5>. QED  BY <3>8, <3>9, <3>10, <5>1, <5>2
      <4>2. Len(g[n + 1]) = Len(g[n]) + 1
        BY <3>2
      <4>. QED  BY <3>8, <3>10, <4>1, <4>2
    <3>. USE DEF Kept
    <3>5. ASSUME NEW i \in 1..Len(g[n + 1])
          PROVE  g[n + 1][i] = q[h[i]] /\ q[h[i]].tab # t
      <4>1. CASE i = Len(g[n]) + 1
        BY <2>4, <3>2, <3>4, <4>1
      <4>2. CASE i \in 1..Len(g[n])
        BY <2>1, <3>2, <3>4, <4>2
      <4>. QED  BY <3>2, <3>3, <4>1, <4>2
    <3>6. ASSUME NEW i \in 1..Len(g[n + 1]), NEW j \in 1..Len(g[n + 1]), i < j
          PROVE  h[i] < h[j]
      <4>1. i \in 1..Len(g[n])
        BY <3>2, <3>3, <3>6
      <4>2. CASE j = Len(g[n]) + 1
        BY <3>4, <4>1, <4>2
      <4>3. CASE j \in 1..Len(g[n])
        BY <2>1, <3>4, <3>6, <4>1, <4>3
      <4>. QED  BY <3>2, <3>3, <4>2, <4>3
    <3>7. ASSUME NEW k \in 1..n + 1, q[k].tab # t
          PROVE  \E i \in 1..Len(g[n + 1]) : h[i] = k
      <4>1. CASE k = n + 1
        BY <3>2, <3>3, <3>4, <4>1
      <4>2. CASE k \in 1..n
        <5>1. PICK i \in 1..Len(g[n]) : f[i] = k
          BY <2>1, <3>7, <4>2
        <5>2. i \in 1..Len(g[n + 1]) /\ h[i] = k
          BY <3>2, <3>3, <3>4, <5>1
        <5>. QED  BY <5>2
      <4>. QED  BY <4>1, <4>2
    <3>. QED  BY <3>2, <3>4, <3>5, <3>6, <3>7
  <2>. QED  BY <2>3, <2>4
<1>8. Len(q) \in Done
  <2>. HIDE DEF Done
  <2>. QED  BY <1>1, <1>6, <1>7, SetInduction
<1>. QED  BY <1>1, <1>2, <1>8 DEF Thinned

-----------------------------------------------------------------------------
(* The inductive invariant *)

\* Every session belongs to a family that was opened, named by a session no later.
Sessions ==
    /\ \A i \in 1..Issued : lineage[i] <= i /\ family[lineage[i]] # None
    /\ jar # None => jar <= Issued

\* The cookie of the jar is the newest of its family, unless an answer was lost.
HonestCookie == jar # None /\ Consumed(jar) => seen.lost

\* Only the first request has the lock, and only a sign-in reads a profile under it.
Line ==
    /\ \A i \in DOMAIN queue : i > 1 => queue[i].step = "waiting"
    /\ \A i \in DOMAIN queue : queue[i].step = "profile" => queue[i].kind = "login"
    /\ \A i \in DOMAIN queue : queue[i].kind = "login" => queue[i].user # None

\* A request that was made in an epoch of its tab.
Dated(op) == op.kind \in {"boot", "refresh"} \/ (op.kind = "login" /\ op.step # "waiting")

\* What a tab remembers is not older than the epoch that began last nor younger than the
\* present one; a token that came while a request was under way is of the present one.
Memory(d) ==
    /\ d.cleared <= d.epoch
    /\ d.token # None => d.cleared <= d.token.born /\ d.token.born <= d.epoch
    /\ d.call.epoch <= d.epoch
    /\ d.status = "authenticated" => d.token # None
    /\ d.call.step = "sent" /\ d.call.epoch = d.epoch /\ d.call.newer /\ d.token # None =>
          d.token.born = d.epoch

\* A bootstrap, a sign-in and a profile that loads have epochs of their own.
Epochs ==
    /\ \A t \in Tabs : Memory(tab[t])
    /\ \A i \in DOMAIN queue : Dated(queue[i]) => queue[i].epoch <= tab[queue[i].tab].epoch
    /\ \A p \in loading : p.epoch <= tab[p.tab].epoch
    /\ \A i, j \in DOMAIN queue :
          i # j /\ queue[i].kind = "boot" /\ queue[j].kind = "boot"
              /\ queue[i].tab = queue[j].tab => queue[i].epoch # queue[j].epoch
    /\ \A i \in DOMAIN queue, p \in loading :
          Dated(queue[i]) /\ queue[i].kind # "refresh" /\ queue[i].tab = p.tab =>
              queue[i].epoch # p.epoch
    /\ \A p, q \in loading : p.tab = q.tab /\ p.epoch = q.epoch => p = q

\* The sign-in that reads its profile has set the cookie.
Announcing == Holder({"login"}, "profile")
Paid == Announcing => jar # None /\ UserOf(jar) = queue[1].user

\* Who waits for a profile holds the token it was asked with.
Held(t) ==
    /\ \A p \in loading : p.tab = t /\ p.epoch = tab[t].epoch => tab[t].token # None
    /\ Announcing /\ queue[1].tab = t /\ queue[1].epoch = tab[t].epoch =>
          tab[t].token = [user |-> queue[1].user, born |-> queue[1].epoch]

\* A sign-in that was sent began an epoch in which its tab has no token yet.
Awaits(t) ==
    Holder({"login"}, "sent") /\ queue[1].tab = t /\ queue[1].epoch = tab[t].epoch =>
        /\ tab[t].token # None => tab[t].token.born < tab[t].epoch
        /\ tab[t].call.epoch = tab[t].epoch => tab[t].call.user = None

\* A sign-in is not known yet to tab t, or will never be.
Notified(t) == \E i \in DOMAIN inbox[t] : inbox[t][i] = "changed"
Warned(t) == seen.silent \/ Notified(t)

\* u is the user of tab t by its cookie, its token, its profile, a profile that loads or
\* the request it has sent in this epoch.
Claims(t, u) ==
    \/ jar # None /\ u = UserOf(jar)
    \/ tab[t].token # None /\ u = tab[t].token.user
    \/ tab[t].user # None /\ u = tab[t].user
    \/ \E p \in loading : p.tab = t /\ p.epoch = tab[t].epoch /\ u = p.user
    \/ tab[t].call.epoch = tab[t].epoch /\ tab[t].call.user # None /\ u = tab[t].call.user

Agree(t) ==
    ~Warned(t) /\ ~Announcing => \A u, v \in Users : Claims(t, u) /\ Claims(t, v) => u = v

\* The token and the retry of a request are its user's.
Loyal(t) ==
    LET d == tab[t] IN
    ~Warned(t) /\ d.call.epoch = d.epoch /\ d.call.user # None =>
        /\ d.token # None /\ d.token.born = d.epoch => d.token.user = d.call.user
        /\ d.call.step = "retried" => d.call.bearer.user = d.call.user

Faithful(t) == Held(t) /\ Awaits(t) /\ Agree(t) /\ Loyal(t)

Rest == Epochs /\ Paid /\ \A t \in Tabs : Faithful(t)

IInv == TypeOK /\ Sessions /\ HonestCookie /\ Line /\ Rest

-----------------------------------------------------------------------------
(* Types *)

LEMMA MemoryTypes ==
    \A d \in Tab :
        /\ \A token \in Token : Replaced(d, token) \in Tab /\ Renewed(d, token) \in Tab
        /\ {Replaced(d, None), Cleared(d), Booting(d), Rebooting(d), Refused(d),
            Refreshing(d), Landed(d), Answered(d)} \subseteq Tab
        /\ Document \in Tab
<1>. SUFFICES ASSUME NEW d \in Tab
              PROVE  /\ \A token \in Token : Replaced(d, token) \in Tab /\ Renewed(d, token) \in Tab
                     /\ {Replaced(d, None), Cleared(d), Booting(d), Rebooting(d), Refused(d),
                         Refreshing(d), Landed(d), Answered(d)} \subseteq Tab
                     /\ Document \in Tab
  OBVIOUS
<1>1. NoCall \in Call /\ d.epoch \in Nat /\ d.epoch + 1 \in Nat
  BY DEF NoCall, Call, Tab
<1>2. \A token \in Token \cup {None} : Replaced(d, token) \in Tab
  BY DEF Replaced, Tab, Call
<1>3. \A token \in Token : Renewed(d, token) \in Tab
  <2>. SUFFICES ASSUME NEW token \in Token
                PROVE  Renewed(d, token) \in Tab
    OBVIOUS
  <2>1. Replaced(d, token) \in Tab
    BY <1>2
  <2>. QED  BY <2>1 DEF Renewed, Tab, Call, Status
<1>4. Cleared(d) \in Tab
  <2>1. Replaced(d, None) \in Tab /\ Replaced(d, None).epoch = d.epoch
    BY <1>2 DEF Replaced, Tab
  <2>. HIDE DEF Tab
  <2>2. Cleared(d) = [Replaced(d, None) EXCEPT
                         !.status = "unauthenticated", !.user = None,
                         !.epoch = d.epoch + 1, !.cleared = d.epoch + 1]
    BY DEF Cleared
  <2>. DEFINE e == Replaced(d, None)
  <2>3. \A n \in Nat : [e EXCEPT !.status = "unauthenticated", !.user = None,
                                !.epoch = n, !.cleared = n] \in Tab
    <3>. HIDE DEF e
    <3>1. e \in Tab
      BY <2>1 DEF e
    <3>. QED  BY <3>1 DEF Tab, Status
  <2>. QED  BY <1>1, <2>2, <2>3
<1>5. Rebooting(d) \in Tab
  BY <1>4 DEF Rebooting, Tab, Status
<1>6. Refused(d) \in Tab
  BY <1>2 DEF Refused, Tab, Status
<1>7. Booting(d) \in Tab /\ Refreshing(d) \in Tab
  BY <1>1 DEF Booting, Refreshing, Tab, Status
<1>8. Landed(d) \in Tab /\ Answered(d) \in Tab
  BY <1>1 DEF Landed, Answered, Tab
<1>9. Document \in Tab
  BY <1>1 DEF Document, Tab, Status
<1>. QED  BY <1>2, <1>3, <1>4, <1>5, <1>6, <1>7, <1>8, <1>9

\* What the steps of a tab do to the state of tab t alone.
LEMMA SetTypes ==
    ASSUME TypeOK, NEW t \in Tabs, NEW d \in Tab, Set(t, d)
    PROVE  /\ tab' \in [Tabs -> Tab]
           /\ tab'[t] = d
           /\ \A s \in Tabs : s # t => tab'[s] = tab[s]
BY DEF TypeOK, Set

LEMMA TellTypes ==
    ASSUME TypeOK, NEW t \in Tabs, NEW message \in {"changed", "ended"}, Tell(t, message)
    PROVE  inbox' \in [Tabs -> Seq({"changed", "ended"})]
BY DEF TypeOK, Tell

\* The queue after a step: its head released, a request more, or all but those of a tab.
LEMMA QueueTypes ==
    ASSUME TypeOK
    PROVE  /\ queue # <<>> => /\ queue[1] \in Mutation /\ Len(queue) \in Nat \ {0}
                              /\ Tail(queue) \in Seq(Mutation)
                              /\ Len(Tail(queue)) = Len(queue) - 1
                              /\ \A i \in DOMAIN Tail(queue) :
                                    i \in Nat \ {0} /\ i + 1 \in DOMAIN queue
                                      /\ Tail(queue)[i] = queue[i + 1]
           /\ \A i \in DOMAIN queue : queue[i] \in Mutation /\ i \in Nat \ {0}
           /\ DOMAIN queue = 1..Len(queue) /\ Len(queue) \in Nat
BY DEF TypeOK

LEMMA RequestTypes ==
    ASSUME TypeOK, NEW t \in Tabs, NEW kind \in {"boot", "refresh", "login", "logout"},
           NEW epoch \in Nat, NEW user \in Users \cup {None},
           queue' = Request(t, kind, epoch, user)
    PROVE  LET op == [tab |-> t, kind |-> kind, epoch |-> epoch, user |-> user,
                      step |-> "waiting"]
           IN  /\ op \in Mutation
               /\ queue' \in Seq(Mutation) /\ Len(queue') = Len(queue) + 1
               /\ \A i \in DOMAIN queue : queue'[i] = queue[i]
               /\ queue'[Len(queue) + 1] = op
               /\ \A i \in DOMAIN queue' : i \in DOMAIN queue \/ i = Len(queue) + 1
<1>. DEFINE op == [tab |-> t, kind |-> kind, epoch |-> epoch, user |-> user, step |-> "waiting"]
<1>1. op \in Mutation
  BY DEF Mutation
<1>2. queue \in Seq(Mutation) /\ queue' = Append(queue, op)
  BY DEF TypeOK, Request
<1>. HIDE DEF op
<1>3. /\ queue' \in Seq(Mutation) /\ Len(queue') = Len(queue) + 1
      /\ \A i \in DOMAIN queue : queue'[i] = queue[i]
      /\ queue'[Len(queue) + 1] = op
      /\ \A i \in DOMAIN queue' : i \in DOMAIN queue \/ i = Len(queue) + 1
  BY <1>1, <1>2
<1>. QED  BY <1>1, <1>3 DEF op

-----------------------------------------------------------------------------
(* The server *)

\* The types of the server's variables, and what a session's family is after a step.
ServerTypes ==
    /\ family \in [SessionIds -> Server!Family \cup {None}]
    /\ lineage \in Seq(SessionIds)

\* The sessions known before are still there and their users'.
Remembered ==
    /\ Issued <= Len(lineage')
    /\ \A i \in 1..Issued : lineage'[i] = lineage[i] /\ UserOf(i)' = UserOf(i)

LEMMA IssuedTypes ==
    ASSUME TypeOK, Sessions
    PROVE  /\ Issued \in Nat
           /\ \A i \in 1..Issued : /\ lineage[i] \in SessionIds /\ lineage[i] \in Nat
                                   /\ family[lineage[i]] \in Server!Family
                                   /\ UserOf(i) \in Users
           /\ jar # None => jar \in 1..Issued
<1>1. ASSUME NEW i \in 1..Issued
      PROVE  lineage[i] \in SessionIds /\ lineage[i] \in Nat
  BY BoundsAssumption DEF TypeOK, Issued, SessionIds
<1>2. ASSUME NEW i \in 1..Issued
      PROVE  family[lineage[i]] \in Server!Family
  BY <1>1 DEF TypeOK, Sessions
<1>3. ASSUME NEW i \in 1..Issued
      PROVE  UserOf(i) \in Users
  BY <1>2 DEF UserOf, Server!Family
<1>4. Issued \in Nat
  BY DEF TypeOK, Issued
<1>5. jar # None => jar \in 1..Issued
  BY <1>4, BoundsAssumption DEF TypeOK, Sessions, SessionIds
<1>. QED  BY <1>1, <1>2, <1>3, <1>4, <1>5

LEMMA OpenFamilyKeeps ==
    ASSUME TypeOK, Sessions, NEW u \in Users, OpenFamily(u)
    PROVE  /\ ServerTypes' /\ Remembered
           /\ Len(lineage') = Issued + 1 /\ lineage'[Issued + 1] = Issued + 1
           /\ Issued + 1 \in SessionIds
           /\ \A i \in 1..Issued' : lineage'[i] <= i /\ family'[lineage'[i]] # None
           /\ family'[lineage'[Issued + 1]].user = u
<1>1. /\ Issued \in Nat /\ Issued + 1 \in SessionIds
      /\ \A i \in 1..Issued : lineage[i] \in SessionIds /\ lineage[i] <= i
                                 /\ family[lineage[i]] # None
  BY IssuedTypes, BoundsAssumption DEF OpenFamily, SessionIds, Sessions
<1>2. /\ Len(lineage') = Issued + 1 /\ lineage'[Issued + 1] = Issued + 1
      /\ \A i \in 1..Issued : lineage'[i] = lineage[i]
      /\ lineage' \in Seq(SessionIds)
  BY <1>1 DEF OpenFamily, TypeOK, Issued
<1>3. /\ family[Issued + 1] = None
      /\ family' = [family EXCEPT ![Issued + 1] = [user |-> u, token |-> Issued + 1]]
  BY DEF OpenFamily, Server!Open
<1>4. family' \in [SessionIds -> Server!Family \cup {None}]
  BY <1>1, <1>3 DEF TypeOK, Server!Family
<1>5. \A i \in 1..Issued : lineage[i] # Issued + 1 /\ family'[lineage[i]] = family[lineage[i]]
  BY <1>1, <1>3 DEF TypeOK
<1>6. family'[Issued + 1] = [user |-> u, token |-> Issued + 1]
  BY <1>1, <1>3 DEF TypeOK
<1>7. family'[Issued + 1] # None
  BY <1>1, <1>6, NoneAssumption DEF Server!Family
<1>8. Issued' = Issued + 1
  BY <1>2 DEF Issued
<1>9. \A i \in 1..Issued' : lineage'[i] <= i /\ family'[lineage'[i]] # None
  BY <1>1, <1>2, <1>5, <1>7, <1>8
<1>10. ServerTypes'
  BY <1>2, <1>4 DEF ServerTypes
<1>11. Remembered
  BY <1>1, <1>2, <1>5 DEF Remembered, UserOf
<1>12. family'[lineage'[Issued + 1]].user = u
  BY <1>2, <1>6
<1>. QED  BY <1>1, <1>2, <1>9, <1>10, <1>11, <1>12

LEMMA RotateFamilyKeeps ==
    ASSUME TypeOK, Sessions, jar # None, RotateFamily(jar)
    PROVE  /\ ServerTypes' /\ Remembered
           /\ Len(lineage') = Issued + 1 /\ lineage'[Issued + 1] = lineage[jar]
           /\ Issued + 1 \in SessionIds
           /\ \A i \in 1..Issued' : lineage'[i] <= i /\ family'[lineage'[i]] # None
           /\ family'[lineage'[Issued + 1]].user = UserOf(jar)
<1>. DEFINE f == lineage[jar]
<1>1. /\ Issued \in Nat /\ Issued + 1 \in SessionIds
      /\ \A i \in 1..Issued : lineage[i] \in SessionIds /\ lineage[i] <= i
                                 /\ family[lineage[i]] \in Server!Family
                                 /\ family[lineage[i]] # None
      /\ jar \in 1..Issued
  BY IssuedTypes, BoundsAssumption DEF RotateFamily, SessionIds, Sessions
<1>2. /\ Len(lineage') = Issued + 1 /\ lineage'[Issued + 1] = f
      /\ \A i \in 1..Issued : lineage'[i] = lineage[i]
      /\ lineage' \in Seq(SessionIds)
  BY <1>1 DEF RotateFamily, TypeOK, Issued
<1>3. family' = [family EXCEPT ![f].token = Issued + 1]
  BY DEF RotateFamily, Server!Rotate
<1>4. /\ f \in SessionIds /\ family[f] \in Server!Family /\ family[f] # None
      /\ f <= jar /\ f \in Nat
  BY <1>1, IssuedTypes
<1>. HIDE DEF f
<1>5. /\ family'[f] = [family[f] EXCEPT !.token = Issued + 1]
      /\ \A g \in SessionIds : g # f => family'[g] = family[g]
      /\ DOMAIN family' = SessionIds
  BY <1>3, <1>4 DEF TypeOK
<1>6. /\ family'[f] \in Server!Family
      /\ family'[f].user = family[f].user
  BY <1>1, <1>4, <1>5 DEF Server!Family
<1>7. family' \in [SessionIds -> Server!Family \cup {None}]
  BY <1>3, <1>4, <1>6, <1>5 DEF TypeOK
<1>9. family'[f] # None
  BY <1>6, NoneAssumption
<1>10. Issued' = Issued + 1
  BY <1>2 DEF Issued
<1>11. \A i \in 1..Issued :
          family'[lineage[i]] # None /\ family'[lineage[i]].user = family[lineage[i]].user
  BY <1>1, <1>5, <1>6, <1>9
<1>12. ServerTypes'
  BY <1>2, <1>7 DEF ServerTypes
<1>13. Remembered
  BY <1>1, <1>2, <1>11 DEF Remembered, UserOf, Issued
<1>14. family'[lineage'[Issued + 1]].user = UserOf(jar)
  BY <1>2, <1>6 DEF UserOf, f
<1>15. ASSUME NEW i \in 1..Issued'
       PROVE  lineage'[i] <= i /\ family'[lineage'[i]] # None
  <2>1. CASE i \in 1..Issued
    BY <1>1, <1>2, <1>11, <2>1
  <2>2. CASE i = Issued + 1
    BY <1>1, <1>2, <1>4, <1>9, <2>2
  <2>. QED  BY <1>1, <1>10, <2>1, <2>2
<1>. QED  BY <1>1, <1>2, <1>12, <1>13, <1>14, <1>15 DEF f

LEMMA EndFamiliesKeeps ==
    ASSUME TypeOK, Sessions, NEW ended, EndFamilies(ended)
    PROVE  /\ ServerTypes' /\ Remembered /\ lineage' = lineage
           /\ \A i \in 1..Issued' : lineage'[i] <= i /\ family'[lineage'[i]] # None
<1>1. /\ lineage' = lineage
      /\ family' = [f \in SessionIds |->
                      IF f \in ended THEN [family[f] EXCEPT !.token = None] ELSE family[f]]
      /\ \A f \in ended : family[f] # None
  BY DEF EndFamilies, Server!End, Server!Lives
<1>2. ASSUME NEW f \in SessionIds, family[f] # None
      PROVE  /\ family'[f] \in Server!Family /\ family'[f].user = family[f].user
             /\ family'[f] # None
  <2>1. family[f] \in Server!Family
    BY <1>2 DEF TypeOK
  <2>2. CASE f \notin ended
    BY <1>1, <1>2, <2>1, <2>2
  <2>3. CASE f \in ended
    <3>1. family'[f] = [family[f] EXCEPT !.token = None]
      BY <1>1, <2>3
    <3>2. family'[f] = [user |-> family[f].user, token |-> None]
      BY <2>1, <3>1 DEF Server!Family
    <3>. QED  BY <2>1, <3>2, NoneAssumption DEF Server!Family
  <2>. QED  BY <2>2, <2>3
<1>3. family' \in [SessionIds -> Server!Family \cup {None}]
  BY <1>1, <1>2 DEF TypeOK
<1>4. \A i \in 1..Issued : lineage[i] \in SessionIds /\ lineage[i] <= i
                              /\ family[lineage[i]] # None
  BY IssuedTypes DEF Sessions
<1>5. Issued' = Issued
  BY <1>1 DEF Issued
<1>6. ServerTypes'
  BY <1>1, <1>3 DEF ServerTypes, TypeOK
<1>7. Remembered
  BY <1>1, <1>2, <1>4, IssuedTypes DEF Remembered, UserOf, Issued
<1>. QED  BY <1>1, <1>2, <1>4, <1>5, <1>6, <1>7

LEMMA HolderTypes ==
    ASSUME TypeOK, Line, NEW kinds, NEW step, Holder(kinds, step)
    PROVE  /\ queue # <<>> /\ 1 \in DOMAIN queue
           /\ queue[1] \in Mutation /\ queue[1].tab \in Tabs /\ queue[1].epoch \in Nat
           /\ queue[1].kind \in kinds /\ queue[1].step = step
           /\ queue[1].kind = "login" => queue[1].user \in Users
<1>1. queue # <<>> /\ queue[1].kind \in kinds /\ queue[1].step = step
  BY DEF Holder
<1>2. queue[1] \in Mutation /\ 1 \in DOMAIN queue
  BY <1>1, QueueTypes
<1>3. queue[1].kind = "login" => queue[1].user # None
  BY <1>2 DEF Line
<1>. QED  BY <1>1, <1>2, <1>3 DEF Mutation

LEMMA ArrivesTypes ==
    ASSUME TypeOK, queue # <<>>, NEW u \in Users, Arrives(u)
    PROVE  /\ queue' \in Seq(Mutation) /\ queue' = Tail(queue)
           /\ tab' \in [Tabs -> Tab]
           /\ loading' \subseteq Profile
           /\ inbox' = inbox
<1>. DEFINE op == queue[1]
            d == tab[op.tab]
<1>1. op \in Mutation /\ Tail(queue) \in Seq(Mutation)
  BY QueueTypes
<1>2. op.tab \in Tabs /\ d \in Tab /\ Granted(u, op) \in Token /\ op.epoch \in Nat
  BY <1>1 DEF TypeOK, Mutation, Granted, Token
<1>3. /\ Renewed(d, Granted(u, op)) \in Tab /\ Landed(d) \in Tab
      /\ Replaced(d, Granted(u, op)) \in Tab
  BY <1>2, MemoryTypes
<1>4. queue' = Tail(queue) /\ inbox' = inbox
  BY DEF Arrives, Release
<1>5. tab' \in [Tabs -> Tab]
  BY <1>2, <1>3, SetTypes DEF Arrives
<1>6. [tab |-> op.tab, epoch |-> op.epoch, user |-> u] \in Profile
  BY <1>2 DEF Profile
<1>7. loading' \subseteq Profile
  BY <1>6 DEF Arrives, TypeOK
<1>. QED  BY <1>1, <1>4, <1>5, <1>7

LEMMA MissesTypes ==
    ASSUME TypeOK, queue # <<>>, Misses
    PROVE  /\ queue' \in Seq(Mutation) /\ queue' = Tail(queue)
           /\ tab' \in [Tabs -> Tab]
           /\ loading' = loading
           /\ inbox' \in [Tabs -> Seq({"changed", "ended"})]
<1>. DEFINE op == queue[1]
            d == tab[op.tab]
<1>1. op \in Mutation /\ Tail(queue) \in Seq(Mutation)
  BY QueueTypes
<1>2. op.tab \in Tabs /\ d \in Tab
  BY <1>1 DEF TypeOK, Mutation
<1>3. /\ Landed(d) \in Tab /\ Cleared(Landed(d)) \in Tab /\ Refused(d) \in Tab
  BY <1>2, MemoryTypes
<1>4. queue' = Tail(queue) /\ loading' = loading
  BY DEF Misses, Release
<1>5. tab' \in [Tabs -> Tab]
  BY <1>2, <1>3, SetTypes DEF Misses
<1>6. inbox' \in [Tabs -> Seq({"changed", "ended"})]
  BY <1>2, TellTypes DEF Misses, TypeOK
<1>. QED  BY <1>1, <1>4, <1>5, <1>6

LEMMA AbandonTypes ==
    ASSUME TypeOK, NEW t \in Tabs, Abandon(t)
    PROVE  /\ queue' \in Seq(Mutation) /\ Thinned(queue', queue, t)
           /\ tab' \in [Tabs -> Tab] /\ tab'[t] = Document
           /\ \A s \in Tabs : s # t => tab'[s] = tab[s]
           /\ loading' \subseteq Profile
           /\ inbox' \in [Tabs -> Seq({"changed", "ended"})]
           /\ acts' \in 0..MaxActs
<1>1. Document \in Tab
  <2>1. tab[t] \in Tab
    BY DEF TypeOK
  <2>. QED  BY <2>1, MemoryTypes
<1>2. /\ tab' \in [Tabs -> Tab] /\ tab'[t] = Document
      /\ \A s \in Tabs : s # t => tab'[s] = tab[s]
  BY <1>1, SetTypes DEF Abandon
<1>3. queue' \in Seq(Mutation) /\ Thinned(queue', queue, t)
  BY WithoutThins DEF Abandon, TypeOK
<1>4. /\ loading' \subseteq Profile
      /\ inbox' \in [Tabs -> Seq({"changed", "ended"})]
      /\ acts' \in 0..MaxActs
  BY BoundsAssumption DEF Abandon, Act, TypeOK
<1>. QED  BY <1>2, <1>3, <1>4

-----------------------------------------------------------------------------
(* The server, the cookie and what has been seen *)

\* A session that is the last of all has no successor.
LEMMA NewestIsUnconsumed ==
    ASSUME Len(lineage') = Issued + 1, Issued \in Nat, jar' = Issued + 1
    PROVE  ~Consumed(jar)'
BY DEF Consumed, Issued

\* The server's part of the invariant.
Served ==
    /\ ServerTypes /\ Sessions /\ HonestCookie
    /\ jar \in SessionIds \cup {None}
    /\ seen \in Seen

LEMMA ServedStep ==
    ASSUME TypeOK, Sessions, HonestCookie, Line, Next
    PROVE  Served'
<1>1. ASSUME UNCHANGED <<family, lineage, jar>>, seen' \in Seen, seen.lost => seen'.lost
      PROVE  Served'
  BY <1>1 DEF Served, ServerTypes, TypeOK, Sessions, HonestCookie, Consumed, Issued
<1>2. seen \in Seen /\ ServerTypes
  BY DEF TypeOK, ServerTypes
<1>3. ASSUME NEW lost \in BOOLEAN, Rotate(lost)
      PROVE  Served'
  <2>1. /\ jar # None /\ RotateFamily(jar)
        /\ jar' = IF lost THEN jar ELSE Issued + 1
        /\ seen' = [seen EXCEPT !.lost = @ \/ lost]
    BY <1>3 DEF Rotate
  <2>2. /\ ServerTypes' /\ Len(lineage') = Issued + 1 /\ Issued + 1 \in SessionIds
        /\ \A i \in 1..Issued' : lineage'[i] <= i /\ family'[lineage'[i]] # None
        /\ Issued \in Nat /\ jar \in 1..Issued /\ Issued' = Issued + 1
    BY <2>1, RotateFamilyKeeps, IssuedTypes DEF Issued
  <2>3. seen' \in Seen /\ seen'.lost = (seen.lost \/ lost)
    BY <1>2, <2>1 DEF Seen
  <2>4. jar' \in SessionIds \cup {None} /\ (jar' # None => jar' <= Issued')
    BY <2>1, <2>2 DEF TypeOK
  <2>5. HonestCookie'
    BY <2>1, <2>2, <2>3, NewestIsUnconsumed DEF HonestCookie
  <2>. QED  BY <2>2, <2>3, <2>4, <2>5 DEF Served, Sessions
<1>4. ASSUME LoginAccepted
      PROVE  Served'
  <2>1. /\ OpenFamily(queue[1].user) /\ jar' = Issued + 1 /\ seen'.lost = seen.lost
        /\ seen' \in Seen
    BY <1>2, <1>4 DEF LoginAccepted, Seen
  <2>2. queue[1].user \in Users
    BY <1>4, HolderTypes DEF LoginAccepted
  <2>3. /\ ServerTypes' /\ Len(lineage') = Issued + 1 /\ Issued + 1 \in SessionIds
        /\ \A i \in 1..Issued' : lineage'[i] <= i /\ family'[lineage'[i]] # None
        /\ Issued \in Nat /\ Issued' = Issued + 1
    BY <2>1, <2>2, OpenFamilyKeeps, IssuedTypes DEF Issued
  <2>4. HonestCookie'
    BY <2>1, <2>3, NewestIsUnconsumed DEF HonestCookie
  <2>. QED  BY <2>1, <2>3, <2>4 DEF Served, Sessions
<1>5. ASSUME NEW opened \in BOOLEAN, LoginFails(opened)
      PROVE  Served'
  <2>1. jar' = jar /\ seen' = seen
    BY <1>5 DEF LoginFails
  <2>2. CASE ~opened
    BY <1>1, <1>2, <1>5, <2>1, <2>2 DEF LoginFails, Unchanged
  <2>3. CASE opened
    <3>1. OpenFamily(queue[1].user)
      BY <1>5, <2>3 DEF LoginFails
    <3>2. queue[1].user \in Users
      BY <1>5, HolderTypes DEF LoginFails
    <3>3. /\ ServerTypes' /\ Remembered /\ Len(lineage') = Issued + 1
          /\ lineage'[Issued + 1] = Issued + 1
          /\ \A i \in 1..Issued' : lineage'[i] <= i /\ family'[lineage'[i]] # None
      BY <3>1, <3>2, OpenFamilyKeeps
    <3>4. /\ Issued \in Nat /\ Issued' = Issued + 1 /\ (jar # None => jar \in 1..Issued)
          /\ \A i \in 1..Issued : lineage[i] \in Nat /\ lineage[i] <= i
      BY <3>3, IssuedTypes DEF Issued, Sessions
    <3>5. jar # None /\ Consumed(jar)' => Consumed(jar)
      <4>. SUFFICES ASSUME jar # None, NEW j \in (jar + 1)..Issued', lineage'[j] = lineage'[jar]
                    PROVE  Consumed(jar)
        BY <2>1 DEF Consumed
      <4>1. j # Issued + 1
        BY <3>3, <3>4 DEF Remembered
      <4>2. j \in (jar + 1)..Issued /\ lineage[j] = lineage[jar]
        BY <3>3, <3>4, <4>1 DEF Remembered
      <4>. QED  BY <4>2 DEF Consumed
    <3>6. HonestCookie'
      BY <2>1, <3>5 DEF HonestCookie
    <3>7. jar' # None => jar' <= Issued'
      BY <2>1, <3>4
    <3>. QED  BY <1>2, <2>1, <3>3, <3>6, <3>7 DEF Served, Sessions, TypeOK
  <2>. QED  BY <2>2, <2>3
<1>6. ASSUME NEW ended, EndFamilies(ended), jar' \in {jar, None}, seen' \in Seen,
             seen.lost => seen'.lost
      PROVE  Served'
  <2>1. /\ ServerTypes' /\ lineage' = lineage
        /\ \A i \in 1..Issued' : lineage'[i] <= i /\ family'[lineage'[i]] # None
    BY <1>6, EndFamiliesKeeps
  <2>2. HonestCookie' /\ (jar' # None => jar' <= Issued')
    BY <1>6, <2>1 DEF HonestCookie, Consumed, Issued, Sessions
  <2>. QED  BY <1>6, <2>1, <2>2 DEF Served, Sessions, TypeOK
<1>7. ASSUME RefreshRejected
      PROVE  Served'
  <2>1. seen' \in Seen /\ seen'.lost = seen.lost
    BY <1>2, <1>7 DEF RefreshRejected, Seen, Consumed
  <2>. QED  BY <1>6, <1>7, <2>1 DEF RefreshRejected
<1>8. ASSUME Logout
      PROVE  Served'
  <2>1. seen' = seen /\ jar' = None
    BY <1>8 DEF Logout
  <2>2. CASE EndFamilies(LiveFamilies(UserOf(jar)))
    BY <1>2, <1>6, <2>1, <2>2
  <2>3. CASE Unchanged
    BY <1>2, <2>1, <2>3
       DEF Unchanged, Served, ServerTypes, Sessions, HonestCookie, Issued
  <2>. QED  BY <1>8, <2>2, <2>3 DEF Logout
<1>9. ASSUME NEW u \in Users, SignOutElsewhere(u)
      PROVE  Served'
  <2>1. EndFamilies(LiveFamilies(u)) /\ jar' = jar /\ seen' = seen
    BY <1>9 DEF SignOutElsewhere
  <2>. QED  BY <1>2, <1>6, <2>1
<1>10. ASSUME NEW t \in Tabs, NEW stored \in BOOLEAN, CloseDuringRotation(t, stored)
       PROVE  Served'
  <2>1. /\ jar # None /\ RotateFamily(jar)
        /\ jar' = IF stored THEN Issued + 1 ELSE jar
        /\ seen' = [seen EXCEPT !.lost = @ \/ ~stored]
    BY <1>10 DEF CloseDuringRotation
  <2>2. /\ ServerTypes' /\ Len(lineage') = Issued + 1 /\ Issued + 1 \in SessionIds
        /\ \A i \in 1..Issued' : lineage'[i] <= i /\ family'[lineage'[i]] # None
        /\ Issued \in Nat /\ jar \in 1..Issued /\ Issued' = Issued + 1
    BY <2>1, RotateFamilyKeeps, IssuedTypes DEF Issued
  <2>3. seen' \in Seen /\ seen'.lost = (seen.lost \/ ~stored)
    BY <1>2, <2>1 DEF Seen
  <2>4. jar' \in SessionIds \cup {None} /\ (jar' # None => jar' <= Issued')
    BY <2>1, <2>2 DEF TypeOK
  <2>5. HonestCookie'
    BY <2>1, <2>2, <2>3, NewestIsUnconsumed DEF HonestCookie
  <2>. QED  BY <2>2, <2>3, <2>4, <2>5 DEF Served, Sessions
<1>11. ASSUME NEW t \in Tabs, Close(t)
       PROVE  Served'
  <2>1. UNCHANGED <<family, lineage, jar>> /\ seen' \in Seen /\ seen'.lost = seen.lost
    BY <1>2, <1>11 DEF Close, Seen
  <2>. QED  BY <1>1, <2>1
<1>12. ASSUME LoginSilent
       PROVE  Served'
  <2>1. UNCHANGED <<family, lineage, jar>> /\ seen' \in Seen /\ seen'.lost = seen.lost
    BY <1>2, <1>12 DEF LoginSilent, Seen
  <2>. QED  BY <1>1, <2>1
<1>13. ASSUME UNCHANGED <<family, lineage, jar, seen>>
       PROVE  Served'
  BY <1>1, <1>2, <1>13
<1>14. CASE HolderSteps
  <2>1. CASE GrantStale \/ Grant \/ GrantLogin
    BY <1>13, <2>1 DEF GrantStale, Grant, GrantLogin
  <2>2. CASE RefreshFails \/ LoginRejected \/ LoginCompletes \/ LogoutFails
    BY <1>13, <2>2 DEF RefreshFails, LoginRejected, LoginCompletes, LogoutFails
  <2>. QED  BY <1>3, <1>4, <1>5, <1>7, <1>8, <1>12, <1>14, <2>1, <2>2 DEF HolderSteps
<1>15. ASSUME NEW t \in Tabs, TabSteps(t)
       PROVE  Served'
  <2>1. CASE Open(t) \/ SignOut(t) \/ Refresh(t) \/ SendCall(t) \/ \E u \in Users : SignIn(t, u)
    BY <1>13, <2>1 DEF Open, SignOut, Refresh, SendCall, SignIn
  <2>2. CASE Hear(t) \/ CallAnswered(t) \/ CallRejected(t) \/ RetryRejected(t)
    BY <1>13, <2>2 DEF Hear, CallAnswered, CallRejected, RetryRejected
  <2>. QED  BY <1>10, <1>11, <1>15, <2>1, <2>2 DEF TabSteps
<1>16. ASSUME NEW p \in loading, NEW arrives \in BOOLEAN, LoadProfile(p, arrives)
       PROVE  Served'
  BY <1>13, <1>16 DEF LoadProfile
<1>. QED  BY <1>9, <1>14, <1>15, <1>16 DEF Next

-----------------------------------------------------------------------------
(* Types and the line for the lock *)

\* The rest of the types, and the line.
Lined ==
    /\ queue \in Seq(Mutation)
    /\ tab \in [Tabs -> Tab]
    /\ loading \subseteq Profile
    /\ inbox \in [Tabs -> Seq({"changed", "ended"})]
    /\ acts \in 0..MaxActs
    /\ Line

\* What keeps the line: its head goes, a request joins it that waits, the holder goes on.
LEMMA TailKeepsLine ==
    ASSUME TypeOK, Line, queue # <<>>, queue' = Tail(queue)
    PROVE  queue' \in Seq(Mutation) /\ Line'
BY QueueTypes DEF Line

LEMMA RequestKeepsLine ==
    ASSUME TypeOK, Line, NEW t \in Tabs, NEW kind \in {"boot", "refresh", "login", "logout"},
           NEW epoch \in Nat, NEW user \in Users \cup {None}, kind = "login" => user # None,
           queue' = Request(t, kind, epoch, user)
    PROVE  queue' \in Seq(Mutation) /\ Line'
<1>. DEFINE op == [tab |-> t, kind |-> kind, epoch |-> epoch, user |-> user, step |-> "waiting"]
<1>1. /\ queue' \in Seq(Mutation)
      /\ \A i \in DOMAIN queue : queue'[i] = queue[i]
      /\ queue'[Len(queue) + 1] = op
      /\ \A i \in DOMAIN queue' : i \in DOMAIN queue \/ i = Len(queue) + 1
  BY RequestTypes
<1>2. op.step = "waiting" /\ op.kind = kind /\ op.user = user
  OBVIOUS
<1>. HIDE DEF op
<1>3. \A i \in DOMAIN queue' : queue'[i] = op \/ (i \in DOMAIN queue /\ queue'[i] = queue[i])
  BY <1>1
<1>4. Line'
  BY <1>2, <1>3 DEF Line
<1>. QED  BY <1>1, <1>4

\* The first request goes on to another step.
LEMMA HeadTypes ==
    ASSUME TypeOK, Line, queue # <<>>, NEW op \in Mutation, queue' = [queue EXCEPT ![1] = op],
           op.step = "profile" => op.kind = "login",
           op.kind = "login" => op.user # None
    PROVE  /\ queue' \in Seq(Mutation) /\ Len(queue') = Len(queue)
           /\ queue' # <<>> /\ queue'[1] = op
           /\ \A i \in DOMAIN queue : i # 1 => queue'[i] = queue[i]
           /\ DOMAIN queue' = DOMAIN queue
           /\ Line'
<1>1. queue \in Seq(Mutation) /\ Len(queue) \in Nat \ {0} /\ DOMAIN queue = 1..Len(queue)
  BY QueueTypes DEF TypeOK
<1>2. /\ queue' \in Seq(Mutation) /\ Len(queue') = Len(queue)
      /\ queue'[1] = op
      /\ \A i \in DOMAIN queue : i # 1 => queue'[i] = queue[i]
      /\ DOMAIN queue' = DOMAIN queue
  BY <1>1
<1>3. queue' # <<>>
  BY <1>1, <1>2
<1>4. Line'
  <2>1. \A i \in DOMAIN queue : i > 1 => i # 1
    BY <1>1
  <2>. QED  BY <1>2, <2>1 DEF Line
<1>. QED  BY <1>2, <1>3, <1>4

LEMMA ThinnedKeepsLine ==
    ASSUME TypeOK, Line, NEW t, queue' \in Seq(Mutation), Thinned(queue', queue, t)
    PROVE  Line'
<1>1. PICK f \in [1..Len(queue') -> 1..Len(queue)] :
          /\ \A i \in 1..Len(queue') : queue'[i] = queue[f[i]]
          /\ \A i, j \in 1..Len(queue') : i < j => f[i] < f[j]
  BY DEF Thinned
<1>2. \A i \in 1..Len(queue') : i > 1 => f[i] > 1
  BY <1>1
<1>3. DOMAIN queue' = 1..Len(queue') /\ DOMAIN queue = 1..Len(queue)
  BY QueueTypes
<1>4. \A i \in DOMAIN queue' :
          f[i] \in DOMAIN queue /\ queue'[i] = queue[f[i]] /\ (i > 1 => f[i] > 1)
  BY <1>1, <1>2, <1>3
<1>. QED  BY <1>4 DEF Line

LEMMA LinedStep ==
    ASSUME TypeOK, Sessions, Line, Next
    PROVE  Lined'
<1>1. Lined
  BY DEF TypeOK, Lined
<1>2. \A t \in Tabs :
        /\ tab[t] \in Tab /\ tab[t].epoch \in Nat /\ tab[t].epoch + 1 \in Nat
        /\ tab[t].token \in Token \cup {None} /\ Bearer(t) \in Users \cup {None}
        /\ tab[t].call \in Call
  BY DEF TypeOK, Tab, Bearer, Token
<1>3. Act => acts' \in 0..MaxActs
  BY BoundsAssumption DEF Act, TypeOK
<1>4. ASSUME NEW t \in Tabs, Open(t)
      PROVE  Lined'
  <2>1. Booting(tab[t]) \in Tab
    BY <1>2, MemoryTypes
  <2>2. queue' \in Seq(Mutation) /\ Line'
    BY <1>2, <1>4, RequestKeepsLine DEF Open
  <2>. QED  BY <1>3, <1>4, <2>1, <2>2, SetTypes DEF Open, Lined, TypeOK
<1>5. ASSUME NEW t \in Tabs, NEW u \in Users, SignIn(t, u)
      PROVE  Lined'
  <2>1. queue' \in Seq(Mutation) /\ Line'
    BY <1>5, RequestKeepsLine, NoneAssumption DEF SignIn
  <2>. QED  BY <1>3, <1>5, <2>1 DEF SignIn, Lined, TypeOK
<1>6. ASSUME NEW t \in Tabs, SignOut(t)
      PROVE  Lined'
  <2>1. Cleared(tab[t]) \in Tab
    BY <1>2, MemoryTypes
  <2>2. queue' \in Seq(Mutation) /\ Line'
    BY <1>2, <1>6, RequestKeepsLine DEF SignOut
  <2>3. inbox' \in [Tabs -> Seq({"changed", "ended"})]
    BY <1>6, TellTypes DEF SignOut
  <2>. QED  BY <1>3, <1>6, <2>1, <2>2, <2>3, SetTypes DEF SignOut, Lined, TypeOK
<1>7. ASSUME NEW t \in Tabs, Refresh(t)
      PROVE  Lined'
  <2>1. Refreshing(tab[t]) \in Tab
    BY <1>2, MemoryTypes
  <2>2. queue' \in Seq(Mutation) /\ Line'
    BY <1>2, <1>7, RequestKeepsLine DEF Refresh
  <2>. QED  BY <1>3, <1>7, <2>1, <2>2, SetTypes DEF Refresh, Lined, TypeOK
<1>8. ASSUME NEW t \in Tabs, SendCall(t)
      PROVE  Lined'
  <2>. DEFINE d == [tab[t] EXCEPT !.call = [NoCall EXCEPT !.step = "sent",
                                              !.epoch = tab[t].epoch, !.user = Sender(t)]]
  <2>1. Sender(t) \in Users \cup {None}
    BY <1>2 DEF Sender, Token
  <2>2. [NoCall EXCEPT !.step = "sent", !.epoch = tab[t].epoch, !.user = Sender(t)] \in Call
    BY <1>2, <2>1 DEF NoCall, Call
  <2>3. d \in Tab
    BY <1>2, <2>2 DEF Tab
  <2>. HIDE DEF d
  <2>. QED  BY <1>1, <1>3, <1>8, <2>3, SetTypes DEF SendCall, Lined, d, Line
<1>9. ASSUME NEW t \in Tabs, Abandon(t)
      PROVE  Lined'
  BY <1>9, AbandonTypes, ThinnedKeepsLine DEF Lined
<1>10. ASSUME UNCHANGED <<queue, tab, loading, inbox>>, acts' \in 0..MaxActs
       PROVE  Lined'
  BY <1>1, <1>10 DEF Lined, Line
<1>11. ASSUME NEW t \in Tabs, Hear(t)
       PROVE  Lined'
  <2>1. Cleared(tab[t]) \in Tab /\ Rebooting(tab[t]) \in Tab
    BY <1>2, MemoryTypes
  <2>2. inbox' \in [Tabs -> Seq({"changed", "ended"})]
    BY <1>11 DEF Hear, TypeOK
  <2>3. CASE Head(inbox[t]) = "ended"
    <3>1. Set(t, Cleared(tab[t])) /\ UNCHANGED <<queue, loading, acts>>
      BY <1>11, <2>3 DEF Hear
    <3>. QED  BY <1>1, <2>1, <2>2, <3>1, SetTypes DEF Lined, Line
  <2>4. CASE Head(inbox[t]) # "ended"
    <3>1. /\ Set(t, Rebooting(tab[t])) /\ UNCHANGED <<loading, acts>>
          /\ queue' = Request(t, "boot", tab[t].epoch + 1, None)
      BY <1>11, <2>4 DEF Hear
    <3>2. queue' \in Seq(Mutation) /\ Line'
      BY <1>2, <3>1, RequestKeepsLine
    <3>. QED  BY <1>1, <2>1, <2>2, <3>1, <3>2, SetTypes DEF Lined
  <2>. QED  BY <2>3, <2>4
<1>12. ASSUME NEW t \in Tabs, GiveUp(t), UNCHANGED <<queue, loading, acts>>
       PROVE  Lined'
  <2>1. Answered(tab[t]) \in Tab
    BY <1>2, MemoryTypes
  <2>2. Cleared(Answered(tab[t])) \in Tab
    BY <2>1, MemoryTypes
  <2>3. tab' \in [Tabs -> Tab]
    BY <1>12, <2>1, <2>2, SetTypes DEF GiveUp
  <2>4. inbox' \in [Tabs -> Seq({"changed", "ended"})]
    BY <1>1, <1>12, TellTypes DEF GiveUp, Lined
  <2>. QED  BY <1>1, <1>12, <2>3, <2>4 DEF Lined, Line
<1>13. ASSUME NEW t \in Tabs, CallAnswered(t)
       PROVE  Lined'
  <2>1. Answered(tab[t]) \in Tab
    BY <1>2, MemoryTypes
  <2>. QED  BY <1>1, <1>13, <2>1, SetTypes DEF CallAnswered, Lined, Line
<1>14. ASSUME NEW t \in Tabs, CallRejected(t)
       PROVE  Lined'
  <2>. DEFINE d == tab[t]
              retried == [d EXCEPT !.call.step = "retried", !.call.bearer = d.token]
              joined == [Refreshing(d) EXCEPT
                            !.call.step = "joined",
                            !.status = IF d.flight = None THEN "refreshing" ELSE d.status]
  <2>1. Answered(d) \in Tab /\ Refreshing(d) \in Tab
    BY <1>2, MemoryTypes
  <2>2. retried \in Tab /\ joined \in Tab
    <3>1. retried \in Tab
      <4>1. [d.call EXCEPT !.step = "retried", !.bearer = d.token] \in Call
        BY <1>2 DEF Call
      <4>2. retried = [d EXCEPT !.call = [d.call EXCEPT !.step = "retried", !.bearer = d.token]]
        BY <1>2 DEF Tab, Call
      <4>. QED  BY <1>2, <4>1, <4>2 DEF Tab
    <3>2. joined \in Tab
      <4>1. [d.call EXCEPT !.step = "joined"] \in Call
        BY <1>2 DEF Call
      <4>. DEFINE r == Refreshing(d)
      <4>2. r.call = d.call /\ d.status \in Status /\ r \in Tab
        BY <1>2, <2>1 DEF Refreshing, Tab
      <4>3. joined = [r EXCEPT !.call = [d.call EXCEPT !.step = "joined"],
                               !.status = IF d.flight = None THEN "refreshing" ELSE d.status]
        BY <4>2 DEF Tab
      <4>. HIDE DEF r
      <4>. QED  BY <4>1, <4>2, <4>3 DEF Tab, Status
    <3>. QED  BY <3>1, <3>2
  <2>. HIDE DEF joined, retried
  <2>3. CASE GiveUp(t) /\ UNCHANGED <<queue, loading, acts>>
    BY <1>12, <2>3
  <2>4. CASE /\ Set(t, Answered(d)) \/ Set(t, retried)
             /\ UNCHANGED <<queue, inbox, loading, acts>>
    BY <1>1, <2>1, <2>2, <2>4, SetTypes DEF Lined, Line
  <2>5. CASE /\ Set(t, joined) /\ UNCHANGED <<inbox, loading, acts>>
             /\ queue' = IF d.flight = None THEN Request(t, "refresh", d.epoch, None)
                         ELSE queue
    <3>1. queue' \in Seq(Mutation) /\ Line'
      <4>1. CASE d.flight = None
        BY <1>2, <2>5, <4>1, RequestKeepsLine
      <4>2. CASE d.flight # None
        BY <1>1, <2>5, <4>2 DEF Lined, Line
      <4>. QED  BY <4>1, <4>2
    <3>. QED  BY <1>1, <2>2, <2>5, <3>1, SetTypes DEF Lined
  <2>. QED  BY <1>14, <2>3, <2>4, <2>5 DEF CallRejected, retried, joined
<1>15. ASSUME NEW t \in Tabs, RetryRejected(t)
       PROVE  Lined'
  BY <1>12, <1>15 DEF RetryRejected
<1>16. ASSUME NEW t \in Tabs, TabSteps(t)
       PROVE  Lined'
  BY <1>4, <1>5, <1>6, <1>7, <1>8, <1>9, <1>11, <1>13, <1>14, <1>15, <1>16
     DEF TabSteps, Close, CloseDuringRotation
<1>17. ASSUME NEW u \in Users, SignOutElsewhere(u)
       PROVE  Lined'
  BY <1>3, <1>10, <1>17 DEF SignOutElsewhere
<1>18. ASSUME NEW p \in loading, NEW arrives \in BOOLEAN, LoadProfile(p, arrives)
       PROVE  Lined'
  <2>. DEFINE d == tab[p.tab]
              shown == [d EXCEPT !.status = "authenticated", !.user = p.user]
  <2>1. p \in Profile /\ p.tab \in Tabs /\ d \in Tab
    BY <1>2 DEF TypeOK, Profile
  <2>2. shown \in Tab /\ Refused(d) \in Tab
    BY <2>1, MemoryTypes DEF Tab, Status, Profile
  <2>3. Set(p.tab, d) \/ Set(p.tab, shown) \/ Set(p.tab, Refused(d))
    BY <1>18 DEF LoadProfile
  <2>. HIDE DEF shown, d
  <2>4. tab' \in [Tabs -> Tab]
    BY <2>1, <2>2, <2>3, SetTypes
  <2>. QED  BY <1>1, <1>18, <2>4 DEF LoadProfile, Lined, Line
<1>19. CASE HolderSteps
  <2>1. CASE GrantStale
    <3>1. queue # <<>> /\ queue[1].tab \in Tabs
      BY <2>1, HolderTypes DEF GrantStale
    <3>2. Landed(tab[queue[1].tab]) \in Tab /\ tab[queue[1].tab] \in Tab
      BY <1>2, <3>1, MemoryTypes
    <3>3. tab' \in [Tabs -> Tab]
      BY <2>1, <3>1, <3>2, SetTypes DEF GrantStale
    <3>. QED  BY <1>1, <2>1, <3>1, <3>3, TailKeepsLine DEF GrantStale, Release, Lined
  <2>2. CASE Grant
    <3>1. Holder({"boot", "refresh", "logout"}, "waiting") /\ queue' = [queue EXCEPT ![1].step = "sent"]
      BY <2>2 DEF Grant
    <3>2. queue # <<>> /\ 1 \in DOMAIN queue /\ queue[1] \in Mutation
      BY <3>1, HolderTypes
    <3>. DEFINE head == [queue[1] EXCEPT !.step = "sent"]
    <3>3. head \in Mutation /\ head.step = "sent" /\ head.kind # "login"
      BY <3>1, <3>2, HolderTypes DEF Mutation
    <3>4. queue' = [queue EXCEPT ![1] = head]
      BY <3>1
    <3>. HIDE DEF head
    <3>5. queue' \in Seq(Mutation) /\ Line'
      BY <3>2, <3>3, <3>4, HeadTypes
    <3>. QED  BY <1>1, <2>2, <3>5 DEF Grant, Lined
  <2>3. CASE GrantLogin
    <3>. DEFINE op == queue[1]
                d == [tab[op.tab] EXCEPT !.status = "bootstrapping", !.epoch = @ + 1]
    <3>1. Holder({"login"}, "waiting")
          /\ queue' = [queue EXCEPT ![1].step = "sent", ![1].epoch = tab[op.tab].epoch + 1]
      BY <2>3 DEF GrantLogin
    <3>2. queue # <<>> /\ 1 \in DOMAIN queue /\ op \in Mutation /\ op.tab \in Tabs
      BY <3>1, HolderTypes
    <3>. DEFINE head == [op EXCEPT !.step = "sent", !.epoch = tab[op.tab].epoch + 1]
    <3>7. /\ head \in Mutation /\ head.step = "sent"
          /\ (head.kind = "login" => head.user # None)
      BY <1>2, <3>1, <3>2, HolderTypes, NoneAssumption DEF Mutation
    <3>8. queue' = [queue EXCEPT ![1] = head]
      BY <3>1, <3>2
    <3>3. queue' \in Seq(Mutation) /\ Line'
      <4>. HIDE DEF head
      <4>. QED  BY <3>2, <3>7, <3>8, HeadTypes
    <3>5. d \in Tab
      BY <1>2, <3>2 DEF Tab, Status
    <3>6. tab' \in [Tabs -> Tab]
      BY <2>3, <3>2, <3>5, SetTypes DEF GrantLogin
    <3>. QED  BY <1>1, <2>3, <3>3, <3>6 DEF GrantLogin, Lined
  <2>4. ASSUME NEW lost \in BOOLEAN, Rotate(lost)
        PROVE  Lined'
    <3>1. queue # <<>> /\ UserOf(jar) \in Users /\ UNCHANGED acts
      BY <2>4, HolderTypes, IssuedTypes DEF Rotate
    <3>2. Misses \/ Arrives(UserOf(jar))
      BY <2>4 DEF Rotate
    <3>. QED  BY <1>1, <3>1, <3>2, ArrivesTypes, MissesTypes, TailKeepsLine DEF Lined
  <2>5. CASE RefreshFails \/ RefreshRejected
    <3>1. queue # <<>> /\ Misses /\ UNCHANGED acts
      BY <2>5, HolderTypes DEF RefreshFails, RefreshRejected
    <3>. QED  BY <1>1, <3>1, MissesTypes, TailKeepsLine DEF Lined
  <2>6. CASE LoginAccepted
    <3>. DEFINE op == queue[1]
                d == tab[op.tab]
    <3>1. Holder({"login"}, "sent") /\ UNCHANGED <<loading, inbox, acts>>
      BY <2>6 DEF LoginAccepted
    <3>2. queue # <<>> /\ 1 \in DOMAIN queue /\ op \in Mutation /\ op.tab \in Tabs
          /\ op.epoch \in Nat /\ op.user \in Users /\ op.kind = "login"
      BY <3>1, HolderTypes
    <3>3. CASE d.epoch = op.epoch
      <4>1. /\ queue' = [queue EXCEPT ![1].step = "profile"]
            /\ Set(op.tab, Replaced(d, Granted(op.user, op)))
        BY <2>6, <3>3 DEF LoginAccepted
      <4>2. Granted(op.user, op) \in Token
        BY <3>2 DEF Granted, Token
      <4>3. Replaced(d, Granted(op.user, op)) \in Tab
        BY <1>2, <3>2, <4>2, MemoryTypes
      <4>4. tab' \in [Tabs -> Tab]
        BY <3>2, <4>1, <4>3, SetTypes
      <4>. DEFINE head == [op EXCEPT !.step = "profile"]
      <4>5. head \in Mutation /\ head.kind = "login" /\ head.user # None
        BY <3>2, NoneAssumption DEF Mutation
      <4>6. queue' = [queue EXCEPT ![1] = head]
        BY <4>1
      <4>7. queue' \in Seq(Mutation) /\ Line'
        <5>. HIDE DEF head
        <5>. QED  BY <3>2, <4>5, <4>6, HeadTypes
      <4>. QED  BY <1>1, <3>1, <4>4, <4>7 DEF Lined
    <3>4. CASE d.epoch # op.epoch
      <4>1. queue' = Tail(queue) /\ tab' = tab
        BY <2>6, <3>4 DEF LoginAccepted, Release
      <4>. QED  BY <1>1, <3>1, <3>2, <4>1, TailKeepsLine DEF Lined
    <3>. QED  BY <3>3, <3>4
  <2>7. CASE LoginRejected
    <3>1. queue # <<>> /\ queue[1].tab \in Tabs
      BY <2>7, HolderTypes DEF LoginRejected
    <3>2. [tab[queue[1].tab] EXCEPT !.status = "unauthenticated"] \in Tab
      BY <1>2, <3>1 DEF Tab, Status
    <3>3. tab' \in [Tabs -> Tab]
      BY <2>7, <3>1, <3>2, SetTypes DEF LoginRejected
    <3>. QED  BY <1>1, <2>7, <3>1, <3>3, TailKeepsLine DEF LoginRejected, Release, Lined
  <2>8. CASE LoginCompletes
    <3>. DEFINE op == queue[1]
                d == [tab[op.tab] EXCEPT !.status = "authenticated", !.user = op.user]
    <3>1. queue # <<>> /\ op.tab \in Tabs /\ op.user \in Users
      BY <2>8, HolderTypes DEF LoginCompletes
    <3>2. d \in Tab
      BY <1>2, <3>1 DEF Tab, Status
    <3>3. tab' \in [Tabs -> Tab]
      BY <2>8, <3>1, <3>2, SetTypes DEF LoginCompletes
    <3>4. inbox' \in [Tabs -> Seq({"changed", "ended"})]
      BY <2>8, <3>1, TellTypes DEF LoginCompletes
    <3>. QED  BY <1>1, <2>8, <3>1, <3>3, <3>4, TailKeepsLine DEF LoginCompletes, Release, Lined
  <2>9. CASE \/ LoginSilent \/ Logout \/ LogoutFails
             \/ \E opened \in BOOLEAN : LoginFails(opened)
    <3>1. queue # <<>> /\ queue' = Tail(queue) /\ UNCHANGED <<tab, loading, inbox, acts>>
      BY <2>9, HolderTypes DEF LoginSilent, Logout, LogoutFails, LoginFails, Release
    <3>. QED  BY <1>1, <3>1, TailKeepsLine DEF Lined
  <2>. QED  BY <1>19, <2>1, <2>2, <2>3, <2>4, <2>5, <2>6, <2>7, <2>8, <2>9 DEF HolderSteps
<1>. QED  BY <1>16, <1>17, <1>18, <1>19 DEF Next

-----------------------------------------------------------------------------
(* What a step leaves of the memory of a tab *)

\* From d to e a tab learns of no new token, user or request, and a request is retried
\* with the token of the epoch.
Moved(d, e) ==
    /\ Memory(e)
    /\ d.epoch <= e.epoch
    /\ e.token # None => e.token = d.token
    /\ e.user # None => e.user = d.user
    /\ e.call.epoch = e.epoch /\ e.call.user # None =>
          /\ d.epoch = e.epoch /\ d.call.epoch = d.epoch /\ d.call.user = e.call.user
          /\ e.call.step = "retried" =>
                \/ d.call.step = "retried" /\ d.call.bearer = e.call.bearer
                \/ d.token # None /\ d.token.born = d.epoch /\ d.token = e.call.bearer

\* The token is not taken away within an epoch.
Retains(d, e) == d.epoch = e.epoch => d.token = e.token

LEMMA TabTypes ==
    \A d \in Tab : /\ d.epoch \in Nat /\ d.cleared \in Nat /\ d.token \in Token \cup {None}
                   /\ (d.token # None => d.token.born \in Nat /\ d.token.user \in Users)
                   /\ d.call \in Call /\ d.call.epoch \in Nat
                   /\ d.user \in Users \cup {None} /\ d.call.user \in Users \cup {None}
BY DEF Tab, Token, Call

\* What a new generation of the token leaves of the rest.
LEMMA ReplacedFields ==
    \A d \in Tab, token \in Token \cup {None} :
        LET r == Replaced(d, token) IN
        /\ r \in Tab
        /\ r.token = token /\ r.epoch = d.epoch /\ r.cleared = d.cleared /\ r.user = d.user
        /\ r.status = d.status /\ r.flight = d.flight
        /\ r.call.step = d.call.step /\ r.call.epoch = d.call.epoch
        /\ r.call.user = d.call.user /\ r.call.bearer = d.call.bearer
<1>. SUFFICES ASSUME NEW d \in Tab, NEW token \in Token \cup {None}
              PROVE  LET r == Replaced(d, token) IN
                     /\ r \in Tab
                     /\ r.token = token /\ r.epoch = d.epoch /\ r.cleared = d.cleared
                     /\ r.user = d.user /\ r.status = d.status /\ r.flight = d.flight
                     /\ r.call.step = d.call.step /\ r.call.epoch = d.call.epoch
                     /\ r.call.user = d.call.user /\ r.call.bearer = d.call.bearer
  OBVIOUS
<1>. DEFINE call == [d.call EXCEPT !.newer = d.call.step = "sent"]
<1>1. /\ call \in Call /\ call.step = d.call.step /\ call.epoch = d.call.epoch
      /\ call.user = d.call.user /\ call.bearer = d.call.bearer
  BY DEF Tab, Call
<1>2. Replaced(d, token) = [d EXCEPT !.token = token, !.call = call]
  BY DEF Replaced
<1>. HIDE DEF call
<1>3. /\ [d EXCEPT !.token = token, !.call = call] \in Tab
      /\ [d EXCEPT !.token = token, !.call = call].call = call
  BY <1>1 DEF Tab
<1>. QED  BY <1>1, <1>2, <1>3 DEF Tab

LEMMA MemoryMoves ==
    \A d \in Tab : Memory(d) =>
        /\ Moved(d, d)
        /\ \A e \in {Booting(d), Refreshing(d), Cleared(d), Rebooting(d), Landed(d),
                     Answered(d)} : Moved(d, e) /\ Retains(d, e)
        /\ Moved(d, Refused(d)) /\ Refused(d).epoch = d.epoch
        /\ Memory(Document)
<1>. SUFFICES ASSUME NEW d \in Tab, Memory(d)
              PROVE  /\ Moved(d, d)
                     /\ \A e \in {Booting(d), Refreshing(d), Cleared(d), Rebooting(d),
                                  Landed(d), Answered(d)} : Moved(d, e) /\ Retains(d, e)
                     /\ Moved(d, Refused(d)) /\ Refused(d).epoch = d.epoch
                     /\ Memory(Document)
  OBVIOUS
<1>1. /\ d.epoch \in Nat /\ d.cleared \in Nat /\ d.call.epoch \in Nat /\ d.call \in Call
      /\ (d.token # None => d.token.born \in Nat)
  BY TabTypes
<1>2. Moved(d, d)
  BY <1>1 DEF Moved, Memory
<1>3. \A e \in Tab :
        /\ e.call = d.call /\ e.user \in {d.user, None}
        /\ e.token = d.token \/ e.token = None
        /\ e.epoch = d.epoch + 1 /\ e.cleared \in {d.cleared, d.epoch + 1}
        /\ e.cleared = d.epoch + 1 => e.token = None
        /\ e.status # "authenticated"
        => Moved(d, e) /\ Retains(d, e)
  BY <1>1 DEF Moved, Memory, Retains
<1>4. Moved(d, Booting(d)) /\ Retains(d, Booting(d))
  <2>1. /\ Booting(d) \in Tab /\ Booting(d).call = d.call /\ Booting(d).user = d.user
        /\ Booting(d).token = d.token /\ Booting(d).epoch = d.epoch + 1
        /\ Booting(d).cleared = d.cleared /\ Booting(d).status = "bootstrapping"
    BY MemoryTypes DEF Booting, Tab
  <2>. DEFINE e == Booting(d)
  <2>. HIDE DEF e
  <2>2. Moved(d, e) /\ Retains(d, e)
    <3>1. e.cleared # d.epoch + 1
      BY <1>1, <2>1 DEF Memory, e
    <3>. QED  BY <1>3, <2>1, <3>1 DEF e
  <2>. QED  BY <2>2 DEF e
<1>5. ASSUME NEW e \in Tab, e.call.step = d.call.step, e.call.epoch = d.call.epoch,
             e.call.user = d.call.user, e.call.bearer = d.call.bearer,
             e.token = None, e.user = None, e.epoch = d.epoch + 1, e.cleared = d.epoch + 1,
             e.status # "authenticated"
      PROVE  Moved(d, e) /\ Retains(d, e)
  BY <1>1, <1>5 DEF Moved, Memory, Retains
<1>6. ASSUME NEW e \in {Cleared(d), Rebooting(d)}
      PROVE  Moved(d, e) /\ Retains(d, e)
  <2>1. e \in Tab
    BY MemoryTypes
  <2>2. /\ e.call.step = d.call.step /\ e.call.epoch = d.call.epoch
        /\ e.call.user = d.call.user /\ e.call.bearer = d.call.bearer
        /\ e.token = None /\ e.user = None /\ e.epoch = d.epoch + 1 /\ e.cleared = d.epoch + 1
        /\ e.status # "authenticated"
    <3>. DEFINE r == Replaced(d, None)
    <3>1. /\ r \in Tab
          /\ r.token = None /\ r.epoch = d.epoch
          /\ r.call.step = d.call.step /\ r.call.epoch = d.call.epoch
          /\ r.call.user = d.call.user /\ r.call.bearer = d.call.bearer
      BY ReplacedFields
    <3>2. /\ Cleared(d) = [r EXCEPT !.status = "unauthenticated", !.user = None,
                                   !.epoch = d.epoch + 1, !.cleared = d.epoch + 1]
          /\ Rebooting(d) = [Cleared(d) EXCEPT !.status = "bootstrapping", !.booted = TRUE]
      BY DEF Cleared, Rebooting
    <3>3. LET c == Cleared(d) IN
          /\ c.call = r.call /\ c.token = None /\ c.user = None
          /\ c.epoch = d.epoch + 1 /\ c.cleared = d.epoch + 1
          /\ c.status = "unauthenticated" /\ c \in Tab
      <4>. HIDE DEF r
      <4>. QED  BY <3>1, <3>2, MemoryTypes DEF Tab
    <3>. DEFINE c == Cleared(d)
    <3>4. Rebooting(d) = [c EXCEPT !.status = "bootstrapping", !.booted = TRUE]
      BY <3>2
    <3>. HIDE DEF r, c
    <3>5. LET b == Rebooting(d) IN
          /\ b.call = c.call /\ b.token = c.token /\ b.user = c.user
          /\ b.epoch = c.epoch /\ b.cleared = c.cleared /\ b.status = "bootstrapping"
      BY <3>3, <3>4 DEF Tab, c
    <3>. QED  BY <3>1, <3>3, <3>5 DEF c
  <2>. QED  BY <1>5, <2>1, <2>2
<1>7. ASSUME NEW e \in Tab, e.epoch = d.epoch, e.token = d.token, e.cleared = d.cleared,
             e.user = d.user, e.status = "authenticated" => d.status = "authenticated",
             e.call = d.call \/ e.call = NoCall
      PROVE  Moved(d, e) /\ Retains(d, e)
  BY <1>1, <1>7 DEF Moved, Memory, Retains, NoCall
<1>8. ASSUME NEW e \in {Refreshing(d), Landed(d), Answered(d)}
      PROVE  Moved(d, e) /\ Retains(d, e)
  <2>1. e \in Tab
    BY MemoryTypes
  <2>2. /\ e.epoch = d.epoch /\ e.token = d.token /\ e.cleared = d.cleared
        /\ e.user = d.user /\ (e.status = "authenticated" => d.status = "authenticated")
        /\ e.call = d.call \/ e.call = NoCall
    BY DEF Refreshing, Landed, Answered, Tab
  <2>. QED  BY <1>7, <2>1, <2>2
<1>9. Moved(d, Refused(d)) /\ Refused(d).epoch = d.epoch
  <2>. DEFINE e == Refused(d)
  <2>1. /\ e.call.step = d.call.step /\ e.call.epoch = d.call.epoch
        /\ e.call.user = d.call.user /\ e.call.bearer = d.call.bearer
        /\ e.token = None /\ e.user = None /\ e.epoch = d.epoch /\ e.cleared = d.cleared
        /\ e.status # "authenticated"
    <3>. DEFINE r == Replaced(d, None)
    <3>1. /\ r \in Tab
          /\ r.token = None /\ r.epoch = d.epoch /\ r.cleared = d.cleared
          /\ r.call.step = d.call.step /\ r.call.epoch = d.call.epoch
          /\ r.call.user = d.call.user /\ r.call.bearer = d.call.bearer
      BY ReplacedFields
    <3>2. e = [r EXCEPT !.status = "unauthenticated", !.user = None]
      BY DEF Refused
    <3>. HIDE DEF r, e
    <3>. QED  BY <3>1, <3>2 DEF Tab
  <2>. HIDE DEF e
  <2>2. Moved(d, e)
    BY <1>1, <2>1 DEF Moved, Memory
  <2>. QED  BY <2>1, <2>2 DEF e
<1>10. Memory(Document)
  BY DEF Memory, Document, NoCall
<1>. QED  BY <1>2, <1>4, <1>6, <1>8, <1>9, <1>10

LEMMA MovesCompose ==
    \A d, e, f \in Tab :
        /\ Moved(d, e) /\ Moved(e, f) => Moved(d, f)
        /\ Moved(d, e) /\ Moved(e, f) /\ Retains(d, e) /\ Retains(e, f) => Retains(d, f)
<1>. SUFFICES ASSUME NEW d \in Tab, NEW e \in Tab, NEW f \in Tab, Moved(d, e), Moved(e, f)
              PROVE  Moved(d, f) /\ (Retains(d, e) /\ Retains(e, f) => Retains(d, f))
  OBVIOUS
<1>1. d.epoch \in Nat /\ e.epoch \in Nat /\ f.epoch \in Nat
  BY TabTypes
<1>. QED  BY <1>1 DEF Moved, Retains

\* A token that arrives in the epoch that asked for it.
LEMMA MemoryOfToken ==
    \A d \in Tab, token \in Token : Memory(d) /\ token.born = d.epoch =>
        \A e \in {Replaced(d, token), Renewed(d, token)} :
            /\ Memory(e) /\ e.token = token /\ e.epoch = d.epoch /\ e.user = d.user
            /\ e.call.epoch = e.epoch /\ e.call.user # None =>
                  /\ d.call.epoch = d.epoch /\ d.call.user = e.call.user
                  /\ e.call.step = "retried" =>
                        \/ d.call.step = "retried" /\ d.call.bearer = e.call.bearer
                        \/ e.call.bearer = token
<1>. SUFFICES ASSUME NEW d \in Tab, NEW token \in Token, Memory(d), token.born = d.epoch,
                     NEW e \in {Replaced(d, token), Renewed(d, token)}
              PROVE  /\ Memory(e) /\ e.token = token /\ e.epoch = d.epoch /\ e.user = d.user
                     /\ e.call.epoch = e.epoch /\ e.call.user # None =>
                           /\ d.call.epoch = d.epoch /\ d.call.user = e.call.user
                           /\ e.call.step = "retried" =>
                                 \/ d.call.step = "retried" /\ d.call.bearer = e.call.bearer
                                 \/ e.call.bearer = token
  OBVIOUS
<1>1. d.epoch \in Nat /\ d.cleared \in Nat /\ d.call.epoch \in Nat /\ d.call \in Call
  BY TabTypes
<1>2. token # None
  BY NoneAssumption
<1>3. ASSUME e = Replaced(d, token)
      PROVE  /\ e.token = token /\ e.epoch = d.epoch /\ e.user = d.user /\ e.cleared = d.cleared
             /\ e.call.epoch = d.call.epoch /\ e.call.user = d.call.user
             /\ e.call.step = d.call.step /\ e.call.bearer = d.call.bearer
  BY <1>3, ReplacedFields
<1>4. ASSUME e = Renewed(d, token)
      PROVE  /\ e.token = token /\ e.epoch = d.epoch /\ e.user = d.user /\ e.cleared = d.cleared
             /\ e.call = NoCall \/ (e.call.epoch = d.call.epoch /\ e.call.user = d.call.user)
             /\ (e.call.step = "retried" =>
                   (d.call.step = "retried" /\ d.call.bearer = e.call.bearer)
                      \/ e.call.bearer = token)
  <2>. DEFINE r == Replaced(d, token)
  <2>1. /\ r \in Tab /\ r.token = token /\ r.epoch = d.epoch /\ r.user = d.user
        /\ r.cleared = d.cleared
        /\ r.call.epoch = d.call.epoch /\ r.call.user = d.call.user
        /\ r.call.step = d.call.step /\ r.call.bearer = d.call.bearer
    BY ReplacedFields
  <2>2. e = [r EXCEPT !.status = "authenticated", !.flight = None,
                      !.call = IF @.step = "joined"
                               THEN [@ EXCEPT !.step = "retried", !.bearer = token] ELSE @]
    BY <1>4 DEF Renewed
  <2>. HIDE DEF r
  <2>. QED  BY <2>1, <2>2 DEF Tab, Call
<1>5. Memory(e)
  BY <1>1, <1>2, <1>3, <1>4 DEF Memory, NoCall
<1>. QED  BY <1>1, <1>3, <1>4, <1>5 DEF NoCall

-----------------------------------------------------------------------------
(* Epochs of their own *)

\* Every request of the queue was one before, and no two were the same.
Thinner ==
    \E f \in [DOMAIN queue' -> DOMAIN queue] :
        /\ \A i \in DOMAIN queue' : queue'[i] = queue[f[i]]
        /\ \A i, j \in DOMAIN queue' : i # j => f[i] # f[j]

LEMMA TailIsThinner ==
    ASSUME TypeOK, queue # <<>>, queue' = Tail(queue)
    PROVE  Thinner
<1>. DEFINE f == [i \in DOMAIN queue' |-> i + 1]
<1>1. /\ f \in [DOMAIN queue' -> DOMAIN queue]
      /\ \A i \in DOMAIN queue' : i \in Nat /\ f[i] = i + 1 /\ queue'[i] = queue[f[i]]
  BY QueueTypes
<1>. HIDE DEF f
<1>2. \A i, j \in DOMAIN queue' : i # j => f[i] # f[j]
  BY <1>1
<1>. QED  BY <1>1, <1>2 DEF Thinner

LEMMA SameIsThinner ==
    ASSUME TypeOK, queue' = queue
    PROVE  Thinner
<1>. DEFINE f == [i \in DOMAIN queue |-> i]
<1>1. f \in [DOMAIN queue' -> DOMAIN queue] /\ \A i \in DOMAIN queue : f[i] = i
  OBVIOUS
<1>. HIDE DEF f
<1>. QED  BY <1>1 DEF Thinner

LEMMA ThinnedIsThinner ==
    ASSUME TypeOK, NEW t, queue' \in Seq(Mutation), Thinned(queue', queue, t)
    PROVE  Thinner
<1>1. PICK f \in [1..Len(queue') -> 1..Len(queue)] :
          /\ \A i \in 1..Len(queue') : queue'[i] = queue[f[i]]
          /\ \A i, j \in 1..Len(queue') : i < j => f[i] < f[j]
  BY DEF Thinned
<1>2. /\ DOMAIN queue' = 1..Len(queue') /\ DOMAIN queue = 1..Len(queue)
      /\ Len(queue) \in Nat /\ Len(queue') \in Nat
  BY QueueTypes
<1>3. \A i, j \in 1..Len(queue') : i # j => f[i] # f[j]
  <2>. SUFFICES ASSUME NEW i \in 1..Len(queue'), NEW j \in 1..Len(queue'), i < j
                PROVE  f[i] # f[j]
    BY <1>2
  <2>. QED  BY <1>1, <1>2
<1>. QED  BY <1>1, <1>2, <1>3 DEF Thinner

\* No request is new, no profile loads anew, and the tabs of those that stay go on.
LEMMA ThinnerKeepsEpochs ==
    ASSUME TypeOK, Epochs, tab' \in [Tabs -> Tab], \A t \in Tabs : Memory(tab'[t]),
           Thinner, loading' \subseteq loading,
           \A i \in DOMAIN queue' : tab[queue'[i].tab].epoch <= tab'[queue'[i].tab].epoch,
           \A p \in loading' : tab[p.tab].epoch <= tab'[p.tab].epoch
    PROVE  Epochs'
<1>1. PICK f \in [DOMAIN queue' -> DOMAIN queue] :
        /\ \A i \in DOMAIN queue' : queue'[i] = queue[f[i]]
        /\ \A i, j \in DOMAIN queue' : i # j => f[i] # f[j]
  BY DEF Thinner
<1>2. /\ \A i \in DOMAIN queue : /\ queue[i] \in Mutation
                                 /\ queue[i].tab \in Tabs /\ queue[i].epoch \in Nat
      /\ \A p \in loading : p.tab \in Tabs /\ p.epoch \in Nat
      /\ \A t \in Tabs : tab[t].epoch \in Nat /\ tab'[t].epoch \in Nat
  BY QueueTypes, TabTypes DEF TypeOK, Mutation, Profile
<1>3. ASSUME NEW i \in DOMAIN queue', Dated(queue'[i])
      PROVE  queue'[i].epoch <= tab'[queue'[i].tab].epoch
  <2>1. queue[f[i]].epoch <= tab[queue[f[i]].tab].epoch
    BY <1>1, <1>3 DEF Epochs
  <2>. QED  BY <1>1, <1>2, <2>1
<1>4. ASSUME NEW p \in loading'
      PROVE  p.epoch <= tab'[p.tab].epoch
  BY <1>2 DEF Epochs
<1>5. ASSUME NEW i \in DOMAIN queue', NEW j \in DOMAIN queue', i # j,
             queue'[i].kind = "boot", queue'[j].kind = "boot", queue'[i].tab = queue'[j].tab
      PROVE  queue'[i].epoch # queue'[j].epoch
  BY <1>1, <1>5 DEF Epochs
<1>6. ASSUME NEW i \in DOMAIN queue', NEW p \in loading', Dated(queue'[i]),
             queue'[i].kind # "refresh", queue'[i].tab = p.tab
      PROVE  queue'[i].epoch # p.epoch
  BY <1>1, <1>6 DEF Epochs
<1>7. \A p, q \in loading' : p.tab = q.tab /\ p.epoch = q.epoch => p = q
  BY DEF Epochs
<1>. QED  BY <1>3, <1>4, <1>5, <1>6, <1>7 DEF Epochs

\* A bootstrap is requested in an epoch that begins with it, a refresh in the present one.
LEMMA RequestKeepsEpochs ==
    ASSUME TypeOK, Epochs, tab' \in [Tabs -> Tab], \A s \in Tabs : Memory(tab'[s]),
           \A s \in Tabs : tab[s].epoch <= tab'[s].epoch,
           NEW t \in Tabs, NEW kind \in {"boot", "refresh", "login", "logout"},
           NEW epoch \in Nat, NEW user \in Users \cup {None},
           queue' = Request(t, kind, epoch, user), loading' = loading,
           kind \in {"boot", "refresh"} => epoch <= tab'[t].epoch,
           kind = "boot" => tab[t].epoch < epoch
    PROVE  Epochs'
<1>. DEFINE op == [tab |-> t, kind |-> kind, epoch |-> epoch, user |-> user, step |-> "waiting"]
<1>1. /\ \A i \in DOMAIN queue : queue'[i] = queue[i]
      /\ queue'[Len(queue) + 1] = op
      /\ \A i \in DOMAIN queue' : i \in DOMAIN queue \/ i = Len(queue) + 1
  BY RequestTypes
<1>2. /\ \A i \in DOMAIN queue : /\ queue[i] \in Mutation
                                 /\ queue[i].tab \in Tabs /\ queue[i].epoch \in Nat
      /\ \A p \in loading : p.tab \in Tabs /\ p.epoch \in Nat
      /\ \A s \in Tabs : tab[s].epoch \in Nat /\ tab'[s].epoch \in Nat
  BY QueueTypes, TabTypes DEF TypeOK, Mutation, Profile
<1>3. /\ op.tab = t /\ op.epoch = epoch /\ op.kind = kind
      /\ (Dated(op) => kind \in {"boot", "refresh"})
  BY DEF Dated
<1>. HIDE DEF op
<1>4. ASSUME NEW i \in DOMAIN queue', Dated(queue'[i])
      PROVE  queue'[i].epoch <= tab'[queue'[i].tab].epoch
  <2>1. CASE i \in DOMAIN queue
    BY <1>1, <1>2, <1>4, <2>1 DEF Epochs
  <2>2. CASE i = Len(queue) + 1
    BY <1>1, <1>3, <1>4, <2>2
  <2>. QED  BY <1>1, <2>1, <2>2
<1>5. ASSUME NEW p \in loading'
      PROVE  p.epoch <= tab'[p.tab].epoch
  BY <1>2 DEF Epochs
<1>6. ASSUME kind = "boot"
      PROVE  /\ \A i \in DOMAIN queue : queue[i].kind = "boot" /\ queue[i].tab = t =>
                                           queue[i].epoch # epoch
             /\ \A p \in loading : p.tab = t => p.epoch # epoch
  BY <1>2, <1>6 DEF Epochs, Dated
<1>7. ASSUME NEW i \in DOMAIN queue', NEW j \in DOMAIN queue', i # j,
             queue'[i].kind = "boot", queue'[j].kind = "boot", queue'[i].tab = queue'[j].tab
      PROVE  queue'[i].epoch # queue'[j].epoch
  <2>1. CASE i \in DOMAIN queue /\ j \in DOMAIN queue
    BY <1>1, <1>7, <2>1 DEF Epochs
  <2>2. CASE i = Len(queue) + 1
    BY <1>1, <1>3, <1>6, <1>7, <2>2
  <2>3. CASE j = Len(queue) + 1
    BY <1>1, <1>3, <1>6, <1>7, <2>3
  <2>. QED  BY <1>1, <2>1, <2>2, <2>3
<1>8. ASSUME NEW i \in DOMAIN queue', NEW p \in loading', Dated(queue'[i]),
             queue'[i].kind # "refresh", queue'[i].tab = p.tab
      PROVE  queue'[i].epoch # p.epoch
  <2>1. CASE i \in DOMAIN queue
    BY <1>1, <1>8, <2>1 DEF Epochs
  <2>2. CASE i = Len(queue) + 1
    BY <1>1, <1>3, <1>6, <1>8, <2>2
  <2>. QED  BY <1>1, <2>1, <2>2
<1>9. \A p, q \in loading' : p.tab = q.tab /\ p.epoch = q.epoch => p = q
  BY DEF Epochs
<1>. QED  BY <1>4, <1>5, <1>7, <1>8, <1>9 DEF Epochs

\* The holder goes on; a sign-in begins its epoch with the lock.
LEMMA HeadKeepsEpochs ==
    ASSUME TypeOK, Line, Epochs, tab' \in [Tabs -> Tab], \A s \in Tabs : Memory(tab'[s]),
           \A s \in Tabs : tab[s].epoch <= tab'[s].epoch,
           queue # <<>>, NEW op \in Mutation, queue' = [queue EXCEPT ![1] = op],
           op.tab = queue[1].tab, op.kind = queue[1].kind, loading' = loading,
           Dated(op) =>
              /\ op.epoch <= tab'[op.tab].epoch
              /\ \/ Dated(queue[1]) /\ queue[1].epoch = op.epoch
                 \/ op.kind # "boot" /\ tab[op.tab].epoch < op.epoch
    PROVE  Epochs'
<1>1. /\ queue'[1] = op /\ DOMAIN queue' = DOMAIN queue /\ 1 \in DOMAIN queue
      /\ \A i \in DOMAIN queue : i # 1 => queue'[i] = queue[i]
  BY QueueTypes
<1>2. /\ \A i \in DOMAIN queue : /\ queue[i] \in Mutation
                                 /\ queue[i].tab \in Tabs /\ queue[i].epoch \in Nat
      /\ \A p \in loading : p.tab \in Tabs /\ p.epoch \in Nat
      /\ \A s \in Tabs : tab[s].epoch \in Nat /\ tab'[s].epoch \in Nat
      /\ op.tab \in Tabs /\ op.epoch \in Nat
  BY QueueTypes, TabTypes DEF TypeOK, Mutation, Profile
<1>3. ASSUME NEW i \in DOMAIN queue', Dated(queue'[i])
      PROVE  queue'[i].epoch <= tab'[queue'[i].tab].epoch
  <2>1. CASE i = 1
    BY <1>1, <1>3, <2>1
  <2>2. CASE i # 1
    BY <1>1, <1>2, <1>3, <2>2 DEF Epochs
  <2>. QED  BY <2>1, <2>2
<1>4. ASSUME NEW p \in loading'
      PROVE  p.epoch <= tab'[p.tab].epoch
  BY <1>2 DEF Epochs
<1>5. op.kind = "boot" => op.epoch = queue[1].epoch
  BY DEF Dated
<1>6. ASSUME NEW i \in DOMAIN queue', NEW j \in DOMAIN queue', i # j,
             queue'[i].kind = "boot", queue'[j].kind = "boot", queue'[i].tab = queue'[j].tab
      PROVE  queue'[i].epoch # queue'[j].epoch
  <2>1. \A k \in DOMAIN queue : queue'[k].kind = queue[k].kind /\ queue'[k].tab = queue[k].tab
    BY <1>1
  <2>2. \A k \in DOMAIN queue : queue'[k].kind = "boot" => queue'[k].epoch = queue[k].epoch
    BY <1>1, <1>5
  <2>. QED  BY <1>1, <1>6, <2>1, <2>2 DEF Epochs
<1>7. ASSUME NEW i \in DOMAIN queue', NEW p \in loading', Dated(queue'[i]),
             queue'[i].kind # "refresh", queue'[i].tab = p.tab
      PROVE  queue'[i].epoch # p.epoch
  <2>1. CASE i = 1
    <3>1. CASE Dated(queue[1]) /\ queue[1].epoch = op.epoch
      BY <1>1, <1>7, <2>1, <3>1 DEF Epochs
    <3>2. CASE tab[op.tab].epoch < op.epoch
      <4>1. p.epoch <= tab[p.tab].epoch
        BY DEF Epochs
      <4>. QED  BY <1>1, <1>2, <1>7, <2>1, <3>2, <4>1
    <3>. QED  BY <1>1, <1>7, <2>1, <3>1, <3>2
  <2>2. CASE i # 1
    BY <1>1, <1>7, <2>2 DEF Epochs
  <2>. QED  BY <2>1, <2>2
<1>8. \A p, q \in loading' : p.tab = q.tab /\ p.epoch = q.epoch => p = q
  BY DEF Epochs
<1>. QED  BY <1>3, <1>4, <1>6, <1>7, <1>8 DEF Epochs

\* The answer to a bootstrap leaves the queue and its profile loads.
LEMMA BootKeepsEpochs ==
    ASSUME TypeOK, Line, Epochs, tab' \in [Tabs -> Tab], \A s \in Tabs : Memory(tab'[s]),
           \A s \in Tabs : tab[s].epoch <= tab'[s].epoch,
           queue # <<>>, queue' = Tail(queue), queue[1].kind = "boot", NEW u \in Users,
           loading' = loading \cup
                        {[tab |-> queue[1].tab, epoch |-> queue[1].epoch, user |-> u]}
    PROVE  Epochs'
<1>. DEFINE new == [tab |-> queue[1].tab, epoch |-> queue[1].epoch, user |-> u]
<1>1. /\ queue[1] \in Mutation /\ 1 \in DOMAIN queue
      /\ \A i \in DOMAIN queue' : i \in Nat \ {0} /\ i + 1 \in DOMAIN queue
                                  /\ queue'[i] = queue[i + 1]
  BY QueueTypes
<1>2. /\ \A i \in DOMAIN queue : /\ queue[i] \in Mutation
                                 /\ queue[i].tab \in Tabs /\ queue[i].epoch \in Nat
      /\ \A p \in loading : p.tab \in Tabs /\ p.epoch \in Nat
      /\ \A s \in Tabs : tab[s].epoch \in Nat /\ tab'[s].epoch \in Nat
  BY QueueTypes, TabTypes DEF TypeOK, Mutation, Profile
<1>3. new.tab = queue[1].tab /\ new.epoch = queue[1].epoch /\ loading' = loading \cup {new}
  OBVIOUS
<1>. HIDE DEF new
<1>4. ASSUME NEW i \in DOMAIN queue', Dated(queue'[i])
      PROVE  queue'[i].epoch <= tab'[queue'[i].tab].epoch
  <2>1. queue[i + 1].epoch <= tab[queue[i + 1].tab].epoch
    BY <1>1, <1>4 DEF Epochs
  <2>. QED  BY <1>1, <1>2, <2>1
<1>5. ASSUME NEW p \in loading'
      PROVE  p.epoch <= tab'[p.tab].epoch
  <2>1. CASE p \in loading
    BY <1>2, <2>1 DEF Epochs
  <2>2. CASE p = new
    <3>1. queue[1].epoch <= tab[queue[1].tab].epoch
      BY <1>1 DEF Epochs, Dated
    <3>. QED  BY <1>1, <1>2, <1>3, <2>2, <3>1
  <2>. QED  BY <1>3, <2>1, <2>2
<1>6. ASSUME NEW i \in DOMAIN queue', NEW j \in DOMAIN queue', i # j,
             queue'[i].kind = "boot", queue'[j].kind = "boot", queue'[i].tab = queue'[j].tab
      PROVE  queue'[i].epoch # queue'[j].epoch
  <2>1. i + 1 # j + 1 /\ i + 1 \in DOMAIN queue /\ j + 1 \in DOMAIN queue
    BY <1>1, <1>6
  <2>. QED  BY <1>1, <1>6, <2>1 DEF Epochs
<1>7. ASSUME NEW i \in DOMAIN queue', NEW p \in loading', Dated(queue'[i]),
             queue'[i].kind # "refresh", queue'[i].tab = p.tab
      PROVE  queue'[i].epoch # p.epoch
  <2>1. CASE p \in loading
    BY <1>1, <1>7, <2>1 DEF Epochs
  <2>2. CASE p = new
    <3>1. i + 1 # 1 /\ i + 1 \in DOMAIN queue /\ queue'[i] = queue[i + 1]
      BY <1>1
    <3>2. CASE queue'[i].kind = "boot"
      BY <1>1, <1>3, <1>7, <2>2, <3>1, <3>2 DEF Epochs
    <3>3. CASE queue'[i].kind = "login"
      <4>1. i + 1 > 1
        BY <1>1
      <4>2. queue[i + 1].step = "waiting"
        BY <3>1, <4>1 DEF Line
      <4>. QED  BY <1>7, <3>1, <3>3, <4>2 DEF Dated
    <3>. QED  BY <1>7, <3>2, <3>3 DEF Dated
  <2>. QED  BY <1>3, <2>1, <2>2
<1>8. ASSUME NEW p \in loading', NEW q \in loading', p.tab = q.tab, p.epoch = q.epoch
      PROVE  p = q
  <2>1. \A r \in loading : r.tab = new.tab => r.epoch # new.epoch
    BY <1>1, <1>3 DEF Epochs, Dated
  <2>. QED  BY <1>3, <1>8, <2>1 DEF Epochs
<1>. QED  BY <1>4, <1>5, <1>6, <1>7, <1>8 DEF Epochs

-----------------------------------------------------------------------------
(* Tabs that nothing new reaches *)

\* The sign-in at the head, once sent, is the one that was there.
HeadKept ==
    \A step \in {"sent", "profile"} :
        Holder({"login"}, step)' => Holder({"login"}, step) /\ queue'[1] = queue[1]

\* The cookie is not a new user's, nor another one before its sign-in is announced.
CookieKnown == jar' # None => jar # None /\ UserOf(jar)' = UserOf(jar)
CookieKept == CookieKnown /\ (Announcing' => jar' = jar)

\* Tab t hears of no user it did not know of.
Undisturbed(t) ==
    /\ \A p \in loading' : p.tab = t => p \in loading
    /\ seen.silent => seen'.silent
    /\ Notified(t) => Notified(t)'
    /\ Announcing => Announcing' \/ seen'.silent

\* The token is taken away within the epoch, when nobody waits for a profile with it.
Drops(t) ==
    /\ tab'[t].epoch = tab[t].epoch
    /\ \A p \in loading' : p.tab = t => p.epoch # tab[t].epoch
    /\ Announcing' => queue[1].tab # t \/ queue[1].epoch # tab[t].epoch

Keeps(t) == Moved(tab[t], tab'[t]) /\ (Retains(tab[t], tab'[t]) \/ Drops(t))

LEMMA UndisturbedStaysFaithful ==
    ASSUME TypeOK, Epochs, NEW t \in Tabs, Faithful(t), tab' \in [Tabs -> Tab],
           HeadKept, CookieKept, Undisturbed(t), Keeps(t)
    PROVE  Faithful(t)'
<1>. DEFINE d == tab[t]
            e == tab'[t]
<1>1. /\ d \in Tab /\ e \in Tab /\ d.epoch \in Nat /\ e.epoch \in Nat
      /\ d.call.epoch \in Nat /\ e.call.epoch \in Nat
      /\ \A p \in loading : p.epoch \in Nat /\ p.user \in Users
      /\ d.epoch <= e.epoch
  BY TabTypes DEF TypeOK, Profile, Moved, Keeps
<1>2. \A p \in loading' : p.tab = t /\ p.epoch = e.epoch => p \in loading /\ d.epoch = e.epoch
  BY <1>1 DEF Undisturbed, Epochs
<1>3. Announcing' => Announcing /\ queue'[1] = queue[1] /\ jar' = jar
  BY DEF HeadKept, CookieKept, Announcing
<1>4. /\ Holder({"login"}, "sent")' => Holder({"login"}, "sent") /\ queue'[1] = queue[1]
      /\ Holder({"login"}, "sent") => queue[1].epoch \in Nat /\ Dated(queue[1])
      /\ Announcing => queue[1].epoch \in Nat /\ Dated(queue[1])
  BY QueueTypes DEF HeadKept, Holder, Mutation, Dated, Announcing
<1>5. /\ (Holder({"login"}, "sent") \/ Announcing) /\ queue[1].tab = t => queue[1].epoch <= d.epoch
  BY <1>4, QueueTypes DEF Holder, Announcing, Epochs
<1>6. Held(t)'
  <2>1. ASSUME NEW p \in loading', p.tab = t, p.epoch = e.epoch
        PROVE  e.token # None
    BY <1>2, <2>1 DEF Faithful, Held, Retains, Keeps, Drops
  <2>2. ASSUME Announcing', queue[1].tab = t, queue[1].epoch = e.epoch
        PROVE  e.token = [user |-> queue[1].user, born |-> queue[1].epoch]
    <3>1. d.epoch = e.epoch
      BY <1>1, <1>3, <1>4, <1>5, <2>2
    <3>. QED  BY <1>3, <2>2, <3>1 DEF Faithful, Held, Retains, Keeps, Drops
  <2>. QED  BY <1>3, <2>1, <2>2 DEF Held
<1>7. Awaits(t)'
  <2>. SUFFICES ASSUME Holder({"login"}, "sent")', queue[1].tab = t, queue[1].epoch = e.epoch
                PROVE  /\ e.token # None => e.token.born < e.epoch
                       /\ e.call.epoch = e.epoch => e.call.user = None
    BY <1>4 DEF Awaits
  <2>1. d.epoch = e.epoch /\ Holder({"login"}, "sent")
    BY <1>1, <1>4, <1>5
  <2>. QED  BY <2>1 DEF Faithful, Awaits, Moved, Keeps
<1>8. Warned(t) => Warned(t)'
  BY DEF Undisturbed, Warned
<1>9. Agree(t)'
  <2>. SUFFICES ASSUME ~Warned(t)', ~Announcing', NEW u \in Users, NEW v \in Users,
                       Claims(t, u)', Claims(t, v)'
                PROVE  u = v
    BY DEF Agree
  <2>1. ~Warned(t) /\ ~Announcing
    BY <1>8 DEF Undisturbed, Warned
  <2>2. ASSUME NEW w \in Users, Claims(t, w)'
        PROVE  Claims(t, w)
    <3>1. CASE jar' # None /\ w = UserOf(jar)'
      BY <3>1 DEF CookieKept, CookieKnown, Claims
    <3>2. CASE e.token # None /\ w = e.token.user
      BY <3>2 DEF Keeps, Moved, Claims
    <3>3. CASE e.user # None /\ w = e.user
      BY <3>3 DEF Keeps, Moved, Claims
    <3>4. CASE \E p \in loading' : p.tab = t /\ p.epoch = e.epoch /\ w = p.user
      BY <1>2, <3>4 DEF Claims
    <3>5. CASE e.call.epoch = e.epoch /\ e.call.user # None /\ w = e.call.user
      BY <3>5 DEF Keeps, Moved, Claims
    <3>. QED  BY <2>2, <3>1, <3>2, <3>3, <3>4, <3>5 DEF Claims
  <2>. QED  BY <2>1, <2>2 DEF Faithful, Agree
<1>10. Loyal(t)'
  <2>. SUFFICES ASSUME ~Warned(t)', e.call.epoch = e.epoch, e.call.user # None
                PROVE  /\ e.token # None /\ e.token.born = e.epoch =>
                            e.token.user = e.call.user
                       /\ e.call.step = "retried" => e.call.bearer.user = e.call.user
    BY DEF Loyal
  <2>1. ~Warned(t) /\ d.epoch = e.epoch /\ d.call.epoch = d.epoch /\ d.call.user = e.call.user
    BY <1>8 DEF Keeps, Moved
  <2>2. /\ d.token # None /\ d.token.born = d.epoch => d.token.user = d.call.user
        /\ d.call.step = "retried" => d.call.bearer.user = d.call.user
    BY <2>1 DEF Faithful, Loyal
  <2>. QED  BY <2>1, <2>2 DEF Keeps, Moved
<1>. QED  BY <1>6, <1>7, <1>9, <1>10 DEF Faithful

LEMMA PaidKept ==
    ASSUME Paid, HeadKept, CookieKept
    PROVE  Paid'
BY DEF Paid, HeadKept, CookieKept, CookieKnown, Announcing

\* How the queue changes without another head that was sent.
LEMMA SameKeepsHead ==
    ASSUME queue' = queue
    PROVE  HeadKept /\ (Announcing => Announcing')
BY DEF HeadKept, Holder, Announcing

LEMMA TailKeepsHead ==
    ASSUME TypeOK, Line, queue # <<>>, queue' = Tail(queue)
    PROVE  HeadKept /\ ~Announcing'
<1>1. queue' # <<>> => queue'[1].step = "waiting"
  <2>. SUFFICES ASSUME queue' # <<>>
                PROVE  queue'[1].step = "waiting"
    OBVIOUS
  <2>1. 1 \in DOMAIN queue'
    BY QueueTypes
  <2>2. queue'[1] = queue[1 + 1] /\ 1 + 1 \in DOMAIN queue
    BY <2>1, QueueTypes
  <2>. QED  BY <2>2 DEF Line
<1>. QED  BY <1>1 DEF HeadKept, Holder, Announcing

LEMMA RequestKeepsHead ==
    ASSUME TypeOK, NEW t \in Tabs, NEW kind \in {"boot", "refresh", "login", "logout"},
           NEW epoch \in Nat, NEW user \in Users \cup {None},
           queue' = Request(t, kind, epoch, user)
    PROVE  HeadKept /\ (Announcing => Announcing')
<1>1. CASE queue = <<>>
  <2>1. queue'[1].step = "waiting"
    BY <1>1 DEF Request
  <2>. QED  BY <1>1, <2>1 DEF HeadKept, Holder, Announcing
<1>2. CASE queue # <<>>
  <2>1. 1 \in DOMAIN queue
    BY <1>2, QueueTypes
  <2>2. queue'[1] = queue[1] /\ queue' # <<>>
    <3>1. /\ \A i \in DOMAIN queue : queue'[i] = queue[i]
          /\ queue' \in Seq(Mutation) /\ Len(queue') = Len(queue) + 1
      BY RequestTypes
    <3>. QED  BY <2>1, <3>1, QueueTypes
  <2>. QED  BY <1>2, <2>2 DEF HeadKept, Holder, Announcing
<1>. QED  BY <1>1, <1>2

LEMMA HeadGoesOn ==
    ASSUME TypeOK, queue # <<>>, NEW op \in Mutation, queue' = [queue EXCEPT ![1] = op],
           op.kind # "login"
    PROVE  HeadKept
<1>1. queue'[1] = op
  BY QueueTypes
<1>. QED  BY <1>1 DEF HeadKept, Holder

LEMMA ThinnedKeepsHead ==
    ASSUME TypeOK, Line, NEW t, queue' \in Seq(Mutation), Thinned(queue', queue, t)
    PROVE  /\ HeadKept
           /\ Announcing => Announcing' \/ queue[1].tab = t
           /\ queue' # <<>> => queue'[1].tab # t
<1>1. PICK f \in [1..Len(queue') -> 1..Len(queue)] :
          /\ \A i \in 1..Len(queue') : queue'[i] = queue[f[i]] /\ queue[f[i]].tab # t
          /\ \A i, j \in 1..Len(queue') : i < j => f[i] < f[j]
          /\ \A k \in 1..Len(queue) : queue[k].tab # t => \E i \in 1..Len(queue') : f[i] = k
  BY DEF Thinned
<1>2. /\ DOMAIN queue' = 1..Len(queue') /\ DOMAIN queue = 1..Len(queue)
      /\ Len(queue) \in Nat /\ Len(queue') \in Nat
      /\ queue' # <<>> => 1 \in 1..Len(queue')
      /\ queue # <<>> => 1 \in 1..Len(queue)
  BY QueueTypes
<1>3. HeadKept /\ (queue' # <<>> => queue'[1].tab # t)
  <2>. SUFFICES ASSUME queue' # <<>>
                PROVE  /\ queue'[1].tab # t
                       /\ queue'[1].step = "waiting" \/ (queue'[1] = queue[1] /\ queue # <<>>)
    BY DEF HeadKept, Holder
  <2>1. f[1] \in DOMAIN queue /\ queue'[1] = queue[f[1]] /\ queue[f[1]].tab # t
    BY <1>1, <1>2
  <2>2. CASE f[1] > 1
    BY <2>1, <2>2 DEF Line
  <2>3. CASE f[1] = 1
    BY <2>1, <2>3, QueueTypes
  <2>. QED  BY <1>2, <2>1, <2>2, <2>3
<1>4. ASSUME Announcing, queue[1].tab # t
      PROVE  Announcing'
  <2>1. 1 \in 1..Len(queue)
    BY <1>2, <1>4 DEF Announcing, Holder
  <2>2. PICK i \in 1..Len(queue') : f[i] = 1
    BY <1>1, <1>4, <2>1
  <2>3. i = 1
    <3>. SUFFICES ASSUME i # 1
                  PROVE  FALSE
      OBVIOUS
    <3>1. 1 \in 1..Len(queue') /\ 1 < i
      BY <1>2
    <3>2. f[1] < f[i]
      BY <1>1, <3>1
    <3>. QED  BY <1>1, <2>2, <3>1, <3>2
  <2>4. queue'[1] = queue[1] /\ queue' # <<>>
    BY <1>1, <1>2, <2>2, <2>3
  <2>. QED  BY <1>4, <2>4 DEF Announcing, Holder
<1>. QED  BY <1>3, <1>4

\* How the cookie stays.
LEMMA CookieStays ==
    ASSUME TypeOK, Sessions, Remembered, jar' = jar
    PROVE  CookieKept
BY IssuedTypes DEF Remembered, CookieKept, CookieKnown

LEMMA CookieRotates ==
    ASSUME TypeOK, Sessions, jar # None, RotateFamily(jar), jar' \in {jar, Issued + 1}
    PROVE  CookieKnown
<1>1. Remembered /\ family'[lineage'[Issued + 1]].user = UserOf(jar) /\ jar \in 1..Issued
  BY RotateFamilyKeeps, IssuedTypes
<1>2. CASE jar' = jar
  BY <1>1, <1>2 DEF CookieKnown, Remembered
<1>3. CASE jar' = Issued + 1
  BY <1>1, <1>3 DEF CookieKnown, UserOf
<1>. QED  BY <1>2, <1>3

LEMMA UnchangedRemembered ==
    ASSUME TypeOK, UNCHANGED <<family, lineage>>
    PROVE  Remembered
BY DEF Remembered, UserOf, Issued, TypeOK

\* How messages stay.
LEMMA TellKeepsMessages ==
    ASSUME TypeOK, NEW t \in Tabs, NEW message, Tell(t, message)
    PROVE  /\ \A s \in Tabs : Notified(s) => Notified(s)'
           /\ inbox'[t] = inbox[t]
           /\ \A s \in Tabs : s # t /\ message = "changed" => Notified(s)'
<1>1. ASSUME NEW s \in Tabs, s # t
      PROVE  /\ Notified(s) => Notified(s)'
             /\ message = "changed" => Notified(s)'
  <2>1. inbox'[s] = Append(inbox[s], message) /\ inbox[s] \in Seq({"changed", "ended"})
    BY <1>1 DEF Tell, TypeOK
  <2>2. /\ DOMAIN inbox[s] \subseteq DOMAIN inbox'[s]
        /\ \A i \in DOMAIN inbox[s] : inbox'[s][i] = inbox[s][i]
        /\ Len(inbox[s]) + 1 \in DOMAIN inbox'[s]
        /\ inbox'[s][Len(inbox[s]) + 1] = message
    BY <2>1
  <2>. QED  BY <2>2 DEF Notified
<1>2. inbox'[t] = inbox[t]
  BY DEF Tell
<1>3. Notified(t)' = Notified(t)
  BY <1>2 DEF Notified
<1>. QED  BY <1>1, <1>2, <1>3

-----------------------------------------------------------------------------
(* Steps that bring nothing new *)

\* The types and the line after a step.
Typed == TypeOK /\ Sessions /\ Line

LEMMA TypedStep ==
    ASSUME TypeOK, Sessions, HonestCookie, Line, Next
    PROVE  Typed' /\ HonestCookie'
<1>1. Served' /\ Lined'
  BY ServedStep, LinedStep
<1>. QED  BY <1>1 DEF Served, ServerTypes, Lined, Typed, TypeOK

LEMMA OrdinaryStep ==
    ASSUME TypeOK, Rest, Typed', Epochs', HeadKept, CookieKept,
           \A t \in Tabs : Undisturbed(t) /\ Keeps(t)
    PROVE  Rest'
<1>1. \A t \in Tabs : Faithful(t)'
  <2>. SUFFICES ASSUME NEW t \in Tabs
                PROVE  Faithful(t)'
    OBVIOUS
  <2>1. tab' \in [Tabs -> Tab] /\ Epochs /\ Faithful(t)
    BY DEF Typed, TypeOK, Rest
  <2>. QED  BY <2>1, UndisturbedStaysFaithful
<1>2. Paid'
  BY PaidKept DEF Rest
<1>. QED  BY <1>1, <1>2 DEF Rest

\* One tab moves, the others stay.
LEMMA OneTabMoves ==
    ASSUME TypeOK, Epochs, Typed', NEW t \in Tabs, NEW d, Set(t, d),
           Moved(tab[t], d), Retains(tab[t], d) \/ Drops(t)
    PROVE  tab'[t] = d /\ \A s \in Tabs : Keeps(s) /\ (s # t => tab'[s] = tab[s])
<1>1. /\ tab' \in [Tabs -> Tab] /\ tab'[t] = d /\ tab \in [Tabs -> Tab]
      /\ \A s \in Tabs : s # t => tab'[s] = tab[s]
  BY DEF Set, Typed, TypeOK
<1>2. \A s \in Tabs : Moved(tab[s], tab[s])
  BY <1>1, MemoryMoves DEF Epochs
<1>. QED  BY <1>1, <1>2 DEF Keeps, Retains

LEMMA NoTabMoves ==
    ASSUME TypeOK, Epochs, tab' = tab
    PROVE  \A s \in Tabs : Keeps(s)
<1>1. \A s \in Tabs : Memory(tab[s]) /\ Moved(tab[s], tab[s])
  BY MemoryMoves DEF Epochs, TypeOK
<1>. QED  BY <1>1 DEF Keeps, Retains

\* A tab asks for the lock.
LEMMA RequestStep ==
    ASSUME TypeOK, Sessions, Rest, Typed', NEW t \in Tabs,
           NEW kind \in {"boot", "refresh", "login", "logout"},
           NEW epoch \in Nat, NEW user \in Users \cup {None},
           queue' = Request(t, kind, epoch, user),
           kind \in {"boot", "refresh"} => epoch <= tab'[t].epoch,
           kind = "boot" => tab[t].epoch < epoch,
           \A s \in Tabs : Keeps(s),
           \A s \in Tabs : Notified(s) => Notified(s)',
           UNCHANGED <<family, lineage, jar, loading, seen>>
    PROVE  Rest'
<1>1. HeadKept /\ (Announcing => Announcing')
  BY RequestKeepsHead
<1>2. CookieKept
  BY CookieStays, UnchangedRemembered
<1>3. Epochs'
  BY RequestKeepsEpochs DEF Rest, Keeps, Moved, Typed, TypeOK
<1>4. \A s \in Tabs : Undisturbed(s)
  BY <1>1 DEF Undisturbed
<1>. QED  BY <1>1, <1>2, <1>3, <1>4, OrdinaryStep

\* The queue stays.
LEMMA QuietStep ==
    ASSUME TypeOK, Sessions, Rest, Typed',
           \A s \in Tabs : Keeps(s),
           \A s \in Tabs : Notified(s) => Notified(s)',
           Remembered, UNCHANGED <<jar, queue, seen>>, loading' \subseteq loading
    PROVE  Rest'
<1>1. HeadKept /\ (Announcing => Announcing')
  BY SameKeepsHead
<1>2. CookieKept
  BY CookieStays
<1>3. /\ \A i \in DOMAIN queue' : tab[queue'[i].tab].epoch <= tab'[queue'[i].tab].epoch
      /\ \A p \in loading' : tab[p.tab].epoch <= tab'[p.tab].epoch
  BY QueueTypes DEF Keeps, Moved, Mutation, Profile, TypeOK
<1>4. Epochs'
  BY <1>3, ThinnerKeepsEpochs, SameIsThinner DEF Rest, Keeps, Moved, Typed, TypeOK
<1>5. \A s \in Tabs : Undisturbed(s)
  BY <1>1 DEF Undisturbed
<1>. QED  BY <1>1, <1>2, <1>4, <1>5, OrdinaryStep

\* The lock is released by who was not about to announce a sign-in, or never will.
LEMMA ReleaseStep ==
    ASSUME TypeOK, Sessions, Rest, Line, Typed', queue # <<>>, queue' = Tail(queue),
           \A s \in Tabs : Keeps(s),
           \A s \in Tabs : Notified(s) => Notified(s)',
           Announcing => seen'.silent, seen.silent => seen'.silent,
           CookieKnown, loading' \subseteq loading
    PROVE  Rest'
<1>1. HeadKept /\ ~Announcing'
  BY TailKeepsHead
<1>2. CookieKept
  BY <1>1 DEF CookieKept
<1>3. Thinner
  BY TailIsThinner
<1>4. /\ \A i \in DOMAIN queue' : tab[queue'[i].tab].epoch <= tab'[queue'[i].tab].epoch
      /\ \A p \in loading' : tab[p.tab].epoch <= tab'[p.tab].epoch
  <2>1. \A i \in DOMAIN queue' : queue'[i].tab \in Tabs
    <3>1. queue' \in Seq(Mutation)
      BY DEF Typed, TypeOK
    <3>2. \A i \in DOMAIN queue' : queue'[i] \in Mutation
      BY <3>1
    <3>. QED  BY <3>2 DEF Mutation
  <2>. QED  BY <2>1 DEF Keeps, Moved, Profile, TypeOK
<1>5. Epochs'
  BY <1>3, <1>4, ThinnerKeepsEpochs DEF Rest, Keeps, Moved, Typed, TypeOK
<1>6. \A s \in Tabs : Undisturbed(s)
  BY DEF Undisturbed
<1>. QED  BY <1>1, <1>2, <1>5, <1>6, OrdinaryStep

-----------------------------------------------------------------------------
(* The steps of users, of requests and of messages *)

LEMMA InvTypes ==
    ASSUME IInv
    PROVE  /\ TypeOK /\ Sessions /\ Line /\ Rest /\ Epochs
           /\ \A t \in Tabs : /\ tab[t] \in Tab /\ Memory(tab[t]) /\ tab[t].epoch \in Nat
                              /\ Bearer(t) \in Users \cup {None}
BY DEF IInv, Rest, Epochs, TypeOK, Tab, Bearer, Token

LEMMA NothingSaid ==
    ASSUME inbox' = inbox
    PROVE  \A s \in Tabs : Notified(s) => Notified(s)'
BY DEF Notified

LEMMA OpenStep ==
    ASSUME IInv, Typed', NEW t \in Tabs, Open(t)
    PROVE  Rest'
<1>. DEFINE d == Booting(tab[t])
<1>1. /\ Set(t, d) /\ queue' = Request(t, "boot", tab[t].epoch + 1, None)
      /\ UNCHANGED <<family, lineage, jar, loading, inbox, seen>>
  BY DEF Open
<1>2. Moved(tab[t], d) /\ Retains(tab[t], d) /\ d.epoch = tab[t].epoch + 1
  BY InvTypes, MemoryMoves DEF Booting, Tab
<1>. HIDE DEF d
<1>3. tab'[t] = d /\ \A s \in Tabs : Keeps(s)
  BY <1>1, <1>2, InvTypes, OneTabMoves
<1>4. /\ tab[t].epoch + 1 \in Nat /\ tab[t].epoch < tab[t].epoch + 1
      /\ tab[t].epoch + 1 <= tab'[t].epoch
  BY <1>2, <1>3, InvTypes
<1>. QED  BY <1>1, <1>3, <1>4, InvTypes, NothingSaid, RequestStep

LEMMA SignInStep ==
    ASSUME IInv, Typed', NEW t \in Tabs, NEW u \in Users, SignIn(t, u)
    PROVE  Rest'
<1>1. /\ queue' = Request(t, "login", 0, u)
      /\ UNCHANGED <<family, lineage, jar, tab, loading, inbox, seen>>
  BY DEF SignIn
<1>2. \A s \in Tabs : Keeps(s)
  BY <1>1, InvTypes, NoTabMoves
<1>. QED  BY <1>1, <1>2, InvTypes, NothingSaid, RequestStep

LEMMA SignOutStep ==
    ASSUME IInv, Typed', NEW t \in Tabs, SignOut(t)
    PROVE  Rest'
<1>1. /\ Set(t, Cleared(tab[t])) /\ queue' = Request(t, "logout", 0, Bearer(t))
      /\ Tell(t, "ended") /\ UNCHANGED <<family, lineage, jar, loading, seen>>
  BY DEF SignOut
<1>2. Moved(tab[t], Cleared(tab[t])) /\ Retains(tab[t], Cleared(tab[t]))
  BY InvTypes, MemoryMoves
<1>3. \A s \in Tabs : Keeps(s)
  BY <1>1, <1>2, InvTypes, OneTabMoves
<1>4. \A s \in Tabs : Notified(s) => Notified(s)'
  BY <1>1, InvTypes, TellKeepsMessages
<1>. QED  BY <1>1, <1>3, <1>4, InvTypes, RequestStep

LEMMA RefreshStep ==
    ASSUME IInv, Typed', NEW t \in Tabs, Refresh(t)
    PROVE  Rest'
<1>. DEFINE d == Refreshing(tab[t])
<1>1. /\ Set(t, d) /\ queue' = Request(t, "refresh", tab[t].epoch, None)
      /\ UNCHANGED <<family, lineage, jar, loading, inbox, seen>>
  BY DEF Refresh
<1>2. Moved(tab[t], d) /\ Retains(tab[t], d) /\ d.epoch = tab[t].epoch
  BY InvTypes, MemoryMoves DEF Refreshing, Tab
<1>. HIDE DEF d
<1>3. tab'[t] = d /\ \A s \in Tabs : Keeps(s)
  BY <1>1, <1>2, InvTypes, OneTabMoves
<1>4. tab[t].epoch \in Nat /\ tab[t].epoch <= tab'[t].epoch
  BY <1>2, <1>3, InvTypes
<1>. QED  BY <1>1, <1>3, <1>4, InvTypes, NothingSaid, RequestStep

LEMMA GiveUpStep ==
    ASSUME IInv, Typed', NEW t \in Tabs, GiveUp(t),
           UNCHANGED <<family, lineage, jar, queue, loading, seen>>
    PROVE  Rest'
<1>. DEFINE a == Answered(tab[t])
<1>1. a \in Tab /\ Memory(a) /\ Moved(tab[t], a) /\ Retains(tab[t], a)
  BY InvTypes, MemoryMoves, MemoryTypes DEF Moved
<1>2. /\ Cleared(a) \in Tab /\ Moved(a, Cleared(a)) /\ Retains(a, Cleared(a))
  <2>. HIDE DEF a
  <2>. QED  BY <1>1, MemoryMoves, MemoryTypes
<1>3. Moved(tab[t], Cleared(a)) /\ Retains(tab[t], Cleared(a))
  BY <1>1, <1>2, InvTypes, MovesCompose
<1>4. \/ Set(t, Cleared(a)) /\ Tell(t, "ended")
      \/ Set(t, a) /\ UNCHANGED inbox
  BY DEF GiveUp
<1>. HIDE DEF a
<1>5. \A s \in Tabs : Keeps(s)
  BY <1>1, <1>3, <1>4, InvTypes, OneTabMoves
<1>6. \A s \in Tabs : Notified(s) => Notified(s)'
  BY <1>4, InvTypes, TellKeepsMessages, NothingSaid
<1>. QED  BY <1>5, <1>6, InvTypes, UnchangedRemembered, QuietStep

LEMMA CallAnsweredStep ==
    ASSUME IInv, Typed', NEW t \in Tabs, Set(t, Answered(tab[t])),
           UNCHANGED <<family, lineage, jar, queue, loading, inbox, seen>>
    PROVE  Rest'
<1>1. Moved(tab[t], Answered(tab[t])) /\ Retains(tab[t], Answered(tab[t]))
  BY InvTypes, MemoryMoves
<1>2. \A s \in Tabs : Keeps(s)
  BY <1>1, InvTypes, OneTabMoves
<1>. QED  BY <1>2, InvTypes, NothingSaid, UnchangedRemembered, QuietStep

LEMMA CallRejectedStep ==
    ASSUME IInv, Typed', NEW t \in Tabs, CallRejected(t)
    PROVE  Rest'
<1>. DEFINE d == tab[t]
            retried == [d EXCEPT !.call.step = "retried", !.call.bearer = d.token]
            joined == [Refreshing(d) EXCEPT
                          !.call.step = "joined",
                          !.status = IF d.flight = None THEN "refreshing" ELSE d.status]
<1>1. /\ d \in Tab /\ Memory(d) /\ d.epoch \in Nat /\ d.call \in Call /\ d.call.step = "sent"
      /\ UNCHANGED <<family, lineage, jar, loading, seen>>
  BY InvTypes DEF CallRejected, Tab
<1>2. CASE Set(t, Answered(d)) /\ UNCHANGED <<queue, inbox>>
  BY <1>1, <1>2, CallAnsweredStep
<1>3. CASE GiveUp(t) /\ UNCHANGED queue
  BY <1>1, <1>3, GiveUpStep
<1>4. ASSUME Set(t, retried), UNCHANGED <<queue, inbox>>,
             d.epoch = d.call.epoch, d.call.newer, d.token # None
      PROVE  Rest'
  <2>1. /\ retried.epoch = d.epoch /\ retried.cleared = d.cleared /\ retried.user = d.user
        /\ retried.token = d.token /\ retried.status = d.status
        /\ retried.call = [d.call EXCEPT !.step = "retried", !.bearer = d.token]
    BY <1>1 DEF Tab
  <2>2. /\ retried.call.step = "retried" /\ retried.call.bearer = d.token
        /\ retried.call.epoch = d.call.epoch /\ retried.call.user = d.call.user
    <3>1. \A c \in Call : LET r == [c EXCEPT !.step = "retried", !.bearer = d.token] IN
            /\ r.step = "retried" /\ r.bearer = d.token
            /\ r.epoch = c.epoch /\ r.user = c.user
      BY DEF Call
    <3>. HIDE DEF retried
    <3>. QED  BY <1>1, <2>1, <3>1
  <2>. HIDE DEF retried
  <2>3. Moved(d, retried) /\ Retains(d, retried)
    BY <1>1, <1>4, <2>1, <2>2 DEF Moved, Memory, Retains
  <2>4. \A s \in Tabs : Keeps(s)
    BY <1>4, <2>3, InvTypes, OneTabMoves
  <2>. QED  BY <1>1, <1>4, <2>4, InvTypes, NothingSaid, UnchangedRemembered, QuietStep
<1>5. ASSUME Set(t, joined), UNCHANGED inbox,
             queue' = IF d.flight = None THEN Request(t, "refresh", d.epoch, None) ELSE queue
      PROVE  Rest'
  <2>1. /\ joined.epoch = d.epoch /\ joined.cleared = d.cleared /\ joined.user = d.user
        /\ joined.token = d.token
        /\ joined.status = "authenticated" => d.status = "authenticated"
        /\ joined.call = [d.call EXCEPT !.step = "joined"]
    BY <1>1 DEF Tab, Refreshing
  <2>2. /\ joined.call.step = "joined"
        /\ joined.call.epoch = d.call.epoch /\ joined.call.user = d.call.user
    BY <1>1, <2>1 DEF Call
  <2>. HIDE DEF joined
  <2>3. Moved(d, joined) /\ Retains(d, joined)
    BY <1>1, <2>1, <2>2 DEF Moved, Memory, Retains
  <2>4. tab'[t] = joined /\ \A s \in Tabs : Keeps(s)
    BY <1>5, <2>3, InvTypes, OneTabMoves
  <2>5. CASE d.flight = None
    <3>1. queue' = Request(t, "refresh", d.epoch, None) /\ d.epoch <= tab'[t].epoch
      BY <1>1, <1>5, <2>1, <2>4, <2>5
    <3>. QED  BY <1>1, <1>5, <2>4, <3>1, InvTypes, NothingSaid, RequestStep
  <2>6. CASE d.flight # None
    BY <1>1, <1>5, <2>4, <2>6, InvTypes, NothingSaid, UnchangedRemembered, QuietStep
  <2>. QED  BY <2>5, <2>6
<1>. HIDE DEF retried, joined
<1>. QED  BY <1>2, <1>3, <1>4, <1>5 DEF CallRejected, retried, joined

\* A request carries the user of the token it finds.
LEMMA SendCallStep ==
    ASSUME IInv, Typed', NEW t \in Tabs, SendCall(t)
    PROVE  Rest'
<1>. DEFINE d == tab[t]
            e == [d EXCEPT !.call = [NoCall EXCEPT !.step = "sent", !.epoch = d.epoch,
                                                   !.user = Sender(t)]]
<1>1. /\ Set(t, e) /\ UNCHANGED <<family, lineage, jar, queue, loading, inbox, seen>>
      /\ d \in Tab /\ Memory(d) /\ d.epoch \in Nat
  BY InvTypes DEF SendCall
<1>2. /\ e.epoch = d.epoch /\ e.cleared = d.cleared /\ e.user = d.user /\ e.token = d.token
      /\ e.status = d.status
      /\ e.call.step = "sent" /\ e.call.epoch = d.epoch /\ e.call.user = Sender(t)
      /\ ~e.call.newer
  BY <1>1 DEF Tab, NoCall
<1>. HIDE DEF e
<1>3. /\ tab'[t] = e /\ tab' \in [Tabs -> Tab] /\ tab \in [Tabs -> Tab]
      /\ \A s \in Tabs : s # t => tab'[s] = tab[s]
  BY <1>1, InvTypes DEF Set, Typed, TypeOK
<1>4. Sender(t) # None => d.token # None /\ d.token.born = d.epoch /\ Sender(t) = d.token.user
  BY DEF Sender
<1>5. \A s \in Tabs : s # t => Keeps(s)
  BY <1>3, MemoryMoves, InvTypes DEF Keeps, Retains
<1>6. Memory(e)
  BY <1>1, <1>2 DEF Memory
<1>7. HeadKept /\ (Announcing => Announcing') /\ CookieKept
  BY <1>1, InvTypes, SameKeepsHead, CookieStays, UnchangedRemembered
<1>8. \A s \in Tabs : Undisturbed(s) /\ Notified(s)' = Notified(s)
  BY <1>1, <1>7 DEF Undisturbed, Notified
<1>9. Epochs'
  <2>1. \A s \in Tabs : Memory(tab'[s]) /\ tab[s].epoch <= tab'[s].epoch
    BY <1>1, <1>2, <1>3, <1>6, InvTypes
  <2>2. /\ \A i \in DOMAIN queue' : tab[queue'[i].tab].epoch <= tab'[queue'[i].tab].epoch
        /\ \A p \in loading' : tab[p.tab].epoch <= tab'[p.tab].epoch
    BY <1>1, <2>1, InvTypes, QueueTypes DEF Mutation, Profile, TypeOK
  <2>. QED  BY <1>1, <1>3, <2>1, <2>2, InvTypes, SameIsThinner, ThinnerKeepsEpochs
<1>10. Paid'
  BY <1>7, PaidKept, InvTypes DEF Rest
<1>11. Faithful(t)'
  <2>1. Faithful(t) /\ Paid
    BY InvTypes DEF Rest
  <2>2. Held(t)'
    BY <1>1, <1>2, <1>3, <2>1 DEF Faithful, Held, Announcing, Holder
  <2>3. Awaits(t)'
    BY <1>1, <1>2, <1>3, <1>4, <2>1, InvTypes DEF Faithful, Awaits, Holder
  <2>4. Agree(t)'
    <3>. SUFFICES ASSUME ~Warned(t)', ~Announcing', NEW u \in Users, NEW v \in Users,
                         Claims(t, u)', Claims(t, v)'
                  PROVE  u = v
      BY DEF Agree
    <3>1. ~Warned(t) /\ ~Announcing
      BY <1>1, <1>7, <1>8 DEF Warned
    <3>2. ASSUME NEW w \in Users, Claims(t, w)'
          PROVE  Claims(t, w)
      BY <1>1, <1>2, <1>3, <1>4, <3>2 DEF Claims, UserOf
    <3>. QED  BY <2>1, <3>1, <3>2 DEF Faithful, Agree
  <2>5. Loyal(t)'
    BY <1>2, <1>3, <1>4 DEF Loyal
  <2>. QED  BY <2>2, <2>3, <2>4, <2>5 DEF Faithful
<1>12. ASSUME NEW s \in Tabs, s # t
       PROVE  Faithful(s)'
  BY <1>3, <1>5, <1>7, <1>8, <1>12, InvTypes, UndisturbedStaysFaithful DEF Rest, Typed, TypeOK
<1>. QED  BY <1>9, <1>10, <1>11, <1>12 DEF Rest

-----------------------------------------------------------------------------
(* A sign-in elsewhere, a profile, a document that goes *)

LEMMA HearStep ==
    ASSUME IInv, Typed', NEW t \in Tabs, Hear(t)
    PROVE  Rest'
<1>1. /\ inbox[t] # <<>> /\ inbox' = [inbox EXCEPT ![t] = Tail(@)]
      /\ UNCHANGED <<family, lineage, jar, loading, acts, seen>>
  BY DEF Hear
<1>2. /\ inbox \in [Tabs -> Seq({"changed", "ended"})]
      /\ inbox'[t] = Tail(inbox[t]) /\ \A s \in Tabs : s # t => inbox'[s] = inbox[s]
  BY <1>1, InvTypes DEF TypeOK
<1>3. \A s \in Tabs : s # t => Notified(s)' = Notified(s)
  BY <1>2 DEF Notified
<1>4. CookieKept
  BY <1>1, InvTypes, UnchangedRemembered, CookieStays
<1>5. CASE Head(inbox[t]) = "ended"
  <2>1. Set(t, Cleared(tab[t])) /\ UNCHANGED queue
    BY <1>5 DEF Hear
  <2>2. Moved(tab[t], Cleared(tab[t])) /\ Retains(tab[t], Cleared(tab[t]))
    BY InvTypes, MemoryMoves
  <2>3. \A s \in Tabs : Keeps(s)
    BY <2>1, <2>2, InvTypes, OneTabMoves
  <2>4. Notified(t) => Notified(t)'
    <3>. SUFFICES ASSUME NEW i \in DOMAIN inbox[t], inbox[t][i] = "changed"
                  PROVE  \E j \in DOMAIN inbox'[t] : inbox'[t][j] = "changed"
      BY DEF Notified
    <3>1. i # 1 /\ i \in 1..Len(inbox[t]) /\ inbox[t] \in Seq({"changed", "ended"})
      BY <1>2, <1>5
    <3>2. i - 1 \in DOMAIN inbox'[t] /\ inbox'[t][i - 1] = inbox[t][i]
      BY <1>1, <1>2, <3>1
    <3>. QED  BY <3>2
  <2>5. \A s \in Tabs : Notified(s) => Notified(s)'
    BY <1>3, <2>4
  <2>. QED  BY <1>1, <2>1, <2>3, <2>5, InvTypes, UnchangedRemembered, QuietStep
<1>6. CASE Head(inbox[t]) # "ended"
  <2>. DEFINE e == Rebooting(tab[t])
  <2>1. Set(t, e) /\ queue' = Request(t, "boot", tab[t].epoch + 1, None)
    BY <1>6 DEF Hear
  <2>2. /\ Moved(tab[t], e) /\ Retains(tab[t], e) /\ e.epoch = tab[t].epoch + 1
        /\ e.token = None /\ e.user = None
    <3>. DEFINE c == Cleared(tab[t])
    <3>1. c \in Tab
      BY InvTypes, MemoryTypes
    <3>2. c.epoch = tab[t].epoch + 1 /\ c.token = None /\ c.user = None
      <4>. DEFINE r == Replaced(tab[t], None)
      <4>1. r \in Tab /\ r.token = None
        BY InvTypes, ReplacedFields
      <4>2. c = [r EXCEPT !.status = "unauthenticated", !.user = None,
                          !.epoch = tab[t].epoch + 1, !.cleared = tab[t].epoch + 1]
        BY DEF Cleared
      <4>. HIDE DEF r, c
      <4>. QED  BY <4>1, <4>2 DEF Tab
    <3>3. e = [c EXCEPT !.status = "bootstrapping", !.booted = TRUE]
      BY DEF Rebooting
    <3>. HIDE DEF c
    <3>4. e.epoch = c.epoch /\ e.token = c.token /\ e.user = c.user
      BY <3>1, <3>3 DEF Tab
    <3>. QED  BY <3>2, <3>4, InvTypes, MemoryMoves
  <2>. HIDE DEF e
  <2>3. tab'[t] = e /\ \A s \in Tabs : Keeps(s)
    BY <2>1, <2>2, InvTypes, OneTabMoves
  <2>4. /\ tab[t].epoch + 1 \in Nat /\ tab[t].epoch \in Nat
        /\ tab[t].epoch < e.epoch /\ e.epoch \in Nat
    BY <2>2, InvTypes
  <2>5. HeadKept /\ (Announcing => Announcing')
    BY <2>1, <2>4, InvTypes, RequestKeepsHead
  <2>6. Epochs'
    BY <1>1, <2>1, <2>2, <2>3, <2>4, InvTypes, RequestKeepsEpochs DEF Keeps, Moved, Typed, TypeOK
  <2>7. Paid'
    BY <1>4, <2>5, PaidKept, InvTypes DEF Rest
  <2>8. ASSUME NEW s \in Tabs, s # t
        PROVE  Faithful(s)'
    <3>1. Undisturbed(s)
      BY <1>1, <1>3, <2>5, <2>8 DEF Undisturbed
    <3>. QED  BY <1>4, <2>3, <2>5, <3>1, InvTypes, UndisturbedStaysFaithful DEF Rest, Typed, TypeOK
  <2>9. Faithful(t)'
    <3>1. \A p \in loading' : p.tab = t => p.epoch # e.epoch
      BY <1>1, <2>4, InvTypes DEF Epochs, TypeOK, Profile
    <3>2. \A step \in {"sent", "profile"} :
             Holder({"login"}, step)' /\ queue'[1].tab = t => queue'[1].epoch # e.epoch
      <4>. SUFFICES ASSUME NEW step \in {"sent", "profile"}, Holder({"login"}, step)',
                           queue'[1].tab = t
                    PROVE  queue'[1].epoch # e.epoch
        OBVIOUS
      <4>1. Holder({"login"}, step) /\ queue'[1] = queue[1]
        BY <2>5 DEF HeadKept
      <4>2. 1 \in DOMAIN queue /\ Dated(queue[1]) /\ queue[1].epoch \in Nat
        BY <4>1, InvTypes, QueueTypes DEF Holder, Dated, Mutation
      <4>3. queue[1].epoch <= tab[t].epoch
        BY <4>1, <4>2, InvTypes DEF Epochs
      <4>. QED  BY <2>4, <4>1, <4>2, <4>3
    <3>3. ~(e.call.epoch = e.epoch /\ e.call.user # None)
      BY <2>2, <2>4 DEF Moved
    <3>4. Held(t)'
      BY <2>3, <3>1, <3>2 DEF Held, Announcing
    <3>5. Awaits(t)'
      BY <2>3, <3>2 DEF Awaits
    <3>6. Agree(t)'
      <4>1. \A w \in Users : Claims(t, w)' => w = UserOf(jar)'
        BY <2>2, <2>3, <3>1, <3>3 DEF Claims
      <4>. QED  BY <4>1 DEF Agree
    <3>7. Loyal(t)'
      BY <2>3, <3>3 DEF Loyal
    <3>. QED  BY <3>4, <3>5, <3>6, <3>7 DEF Faithful
  <2>. QED  BY <2>6, <2>7, <2>8, <2>9 DEF Rest
<1>. QED  BY <1>5, <1>6

LEMMA SignOutElsewhereStep ==
    ASSUME IInv, Typed', NEW u \in Users, SignOutElsewhere(u)
    PROVE  Rest'
<1>1. /\ EndFamilies(LiveFamilies(u)) /\ UNCHANGED <<jar, queue, tab, loading, inbox, seen>>
  BY DEF SignOutElsewhere
<1>2. Remembered
  BY <1>1, InvTypes, EndFamiliesKeeps
<1>3. \A s \in Tabs : Keeps(s)
  BY <1>1, InvTypes, NoTabMoves
<1>. QED  BY <1>1, <1>2, <1>3, InvTypes, NothingSaid, QuietStep

LEMMA LoadProfileStep ==
    ASSUME IInv, Typed', NEW p \in loading, NEW arrives \in BOOLEAN, LoadProfile(p, arrives)
    PROVE  Rest'
<1>. DEFINE t == p.tab
            d == tab[t]
            shown == [d EXCEPT !.status = "authenticated", !.user = p.user]
<1>1. /\ loading' = loading \ {p}
      /\ Set(t, IF d.epoch # p.epoch THEN d ELSE IF arrives THEN shown ELSE Refused(d))
      /\ UNCHANGED <<family, lineage, jar, queue, inbox, acts, seen>>
  BY DEF LoadProfile
<1>2. /\ t \in Tabs /\ d \in Tab /\ Memory(d) /\ p.user \in Users
  BY InvTypes DEF TypeOK, Profile
<1>. HIDE DEF t
<1>3. HeadKept /\ (Announcing => Announcing') /\ CookieKept /\ Remembered
  BY <1>1, InvTypes, SameKeepsHead, CookieStays, UnchangedRemembered
<1>4. \A q \in loading' : q.tab = t => q.epoch # p.epoch
  BY <1>1, InvTypes DEF Epochs, t
<1>5. ASSUME Holder({"login"}, "sent") \/ Announcing, queue[1].tab = t
      PROVE  queue[1].epoch # p.epoch
  <2>1. 1 \in DOMAIN queue /\ Dated(queue[1]) /\ queue[1].kind # "refresh"
    BY <1>5, InvTypes, QueueTypes DEF Holder, Announcing, Dated
  <2>. QED  BY <1>5, <2>1, InvTypes DEF Epochs, t
<1>6. CASE d.epoch # p.epoch
  <2>1. Moved(d, d) /\ Retains(d, d) /\ Set(t, d)
    BY <1>1, <1>2, <1>6, MemoryMoves DEF Retains
  <2>2. \A s \in Tabs : Keeps(s)
    BY <1>2, <2>1, InvTypes, OneTabMoves
  <2>. QED  BY <1>1, <1>3, <2>2, InvTypes, NothingSaid, QuietStep
<1>7. CASE d.epoch = p.epoch /\ ~arrives
  <2>1. Moved(d, Refused(d)) /\ Refused(d).epoch = d.epoch /\ Set(t, Refused(d))
    BY <1>1, <1>2, <1>7, MemoryMoves
  <2>2. tab'[t] = Refused(d)
    BY <1>2, <2>1, InvTypes DEF Set, TypeOK
  <2>3. Announcing' => Announcing
    BY <1>3 DEF HeadKept, Announcing
  <2>4. Drops(t)
    BY <1>4, <1>5, <1>7, <2>1, <2>2, <2>3 DEF Drops
  <2>5. \A s \in Tabs : Keeps(s)
    BY <1>2, <2>1, <2>4, InvTypes, OneTabMoves
  <2>. QED  BY <1>1, <1>3, <2>5, InvTypes, NothingSaid, QuietStep
<1>8. CASE d.epoch = p.epoch /\ arrives
  <2>1. /\ shown.epoch = d.epoch /\ shown.cleared = d.cleared /\ shown.token = d.token
        /\ shown.call = d.call /\ shown.user = p.user /\ shown.status = "authenticated"
    BY <1>2 DEF Tab
  <2>2. Set(t, shown)
    BY <1>1, <1>8
  <2>. HIDE DEF shown
  <2>3. /\ tab'[t] = shown /\ tab' \in [Tabs -> Tab]
        /\ \A s \in Tabs : s # t => tab'[s] = tab[s]
    BY <1>2, <2>2, InvTypes DEF Set, TypeOK, Typed
  <2>4. Faithful(t) /\ Paid /\ Epochs
    BY <1>2, InvTypes DEF Rest
  <2>5. d.token # None
    BY <1>8, <2>4 DEF Faithful, Held, t
  <2>6. Memory(shown) /\ d.epoch \in Nat
    BY <1>2, <2>1, <2>5, TabTypes DEF Memory
  <2>7. \A s \in Tabs : Memory(tab'[s]) /\ tab[s].epoch <= tab'[s].epoch
    BY <2>1, <2>3, <2>6, InvTypes
  <2>8. Epochs'
    <3>1. /\ \A i \in DOMAIN queue' : tab[queue'[i].tab].epoch <= tab'[queue'[i].tab].epoch
          /\ \A q \in loading' : tab[q.tab].epoch <= tab'[q.tab].epoch
      BY <1>1, <2>7, InvTypes, QueueTypes DEF Mutation, Profile, TypeOK
    <3>. QED  BY <1>1, <2>3, <2>7, <3>1, InvTypes, SameIsThinner, ThinnerKeepsEpochs
  <2>9. Paid'
    BY <1>3, <2>4, PaidKept
  <2>10. ASSUME NEW s \in Tabs, s # t
         PROVE  Faithful(s)'
    <3>1. Undisturbed(s)
      BY <1>1, <1>3 DEF Undisturbed, Notified
    <3>2. Keeps(s)
      BY <2>3, <2>10, InvTypes, MemoryMoves DEF Keeps, Retains
    <3>. QED  BY <1>3, <2>3, <3>1, <3>2, InvTypes, UndisturbedStaysFaithful DEF Rest
  <2>11. Faithful(t)'
    <3>1. Held(t)'
      BY <1>1, <2>1, <2>3, <2>4, <2>5 DEF Faithful, Held, Announcing, Holder
    <3>2. Awaits(t)'
      BY <1>1, <2>1, <2>3, <2>4 DEF Faithful, Awaits, Holder
    <3>3. Agree(t)'
      <4>. SUFFICES ASSUME ~Warned(t)', ~Announcing', NEW u \in Users, NEW v \in Users,
                           Claims(t, u)', Claims(t, v)'
                    PROVE  u = v
        BY DEF Agree
      <4>1. ~Warned(t) /\ ~Announcing
        BY <1>1, <1>3 DEF Warned, Notified
      <4>2. ASSUME NEW w \in Users, Claims(t, w)'
            PROVE  Claims(t, w)
        <5>1. p.tab = t /\ p.epoch = tab[t].epoch /\ p \in loading
          BY <1>8 DEF t
        <5>2. UserOf(jar)' = UserOf(jar) /\ jar' = jar /\ loading' \subseteq loading
          BY <1>1 DEF UserOf
        <5>. QED  BY <2>1, <2>3, <4>2, <5>1, <5>2 DEF Claims
      <4>. QED  BY <2>4, <4>1, <4>2 DEF Faithful, Agree
    <3>4. Loyal(t)'
      BY <1>1, <2>1, <2>3, <2>4 DEF Faithful, Loyal, Warned, Notified
    <3>. QED  BY <3>1, <3>2, <3>3, <3>4 DEF Faithful
  <2>. QED  BY <2>8, <2>9, <2>10, <2>11 DEF Rest
<1>. QED  BY <1>6, <1>7, <1>8

LEMMA AbandonStep ==
    ASSUME IInv, Typed', NEW t \in Tabs, Abandon(t), CookieKnown,
           Announcing => jar' = jar, seen.silent => seen'.silent,
           Announcing /\ queue[1].tab = t => seen'.silent
    PROVE  Rest'
<1>1. /\ queue' \in Seq(Mutation) /\ Thinned(queue', queue, t)
      /\ tab' \in [Tabs -> Tab] /\ tab'[t] = Document
      /\ \A s \in Tabs : s # t => tab'[s] = tab[s]
  BY InvTypes, AbandonTypes
<1>2. /\ loading' = {p \in loading : p.tab # t}
      /\ inbox' = [inbox EXCEPT ![t] = <<>>]
  BY DEF Abandon
<1>3. /\ HeadKept /\ (Announcing => Announcing' \/ queue[1].tab = t)
      /\ queue' # <<>> => queue'[1].tab # t
  BY <1>1, InvTypes, ThinnedKeepsHead
<1>4. CookieKept
  BY <1>3 DEF CookieKept, HeadKept, Announcing
<1>5. \A s \in Tabs : s # t => Keeps(s) /\ Notified(s)' = Notified(s)
  BY <1>1, <1>2, InvTypes, MemoryMoves DEF Keeps, Retains, Notified, TypeOK
<1>6. Epochs'
  <2>1. \A s \in Tabs : Memory(tab'[s])
    <3>1. Memory(Document)
      BY InvTypes, MemoryMoves
    <3>. QED  BY <1>1, <3>1, InvTypes
  <2>2. Thinner
    BY <1>1, InvTypes, ThinnedIsThinner
  <2>3. \A i \in DOMAIN queue' : queue'[i].tab \in Tabs /\ queue'[i].tab # t
    <3>1. /\ \A i \in 1..Len(queue') : queue'[i].tab # t
          /\ DOMAIN queue' = 1..Len(queue')
      BY <1>1 DEF Thinned
    <3>2. \A i \in DOMAIN queue' : queue'[i] \in Mutation
      BY <1>1
    <3>. QED  BY <3>1, <3>2 DEF Mutation
  <2>4. /\ \A i \in DOMAIN queue' : tab[queue'[i].tab].epoch <= tab'[queue'[i].tab].epoch
        /\ \A p \in loading' : tab[p.tab].epoch <= tab'[p.tab].epoch
    BY <1>1, <1>2, <2>3, InvTypes DEF TypeOK, Profile
  <2>. QED  BY <1>1, <1>2, <2>1, <2>2, <2>4, InvTypes, ThinnerKeepsEpochs
<1>7. Paid'
  BY <1>3, <1>4, PaidKept, InvTypes DEF Rest
<1>8. ASSUME NEW s \in Tabs, s # t
      PROVE  Faithful(s)'
  <2>1. Undisturbed(s)
    BY <1>2, <1>3, <1>5, <1>8 DEF Undisturbed
  <2>. QED  BY <1>1, <1>3, <1>4, <1>5, <1>8, <2>1, InvTypes, UndisturbedStaysFaithful DEF Rest
<1>9. Faithful(t)'
  <2>1. /\ Document.call.user = None /\ Document.token = None /\ Document.user = None
    BY DEF Document, NoCall
  <2>2. \A step : Holder({"login"}, step)' => queue'[1].tab # t
    BY <1>3 DEF Holder
  <2>3. Held(t)' /\ Awaits(t)'
    BY <1>1, <1>2, <2>2 DEF Held, Awaits, Announcing
  <2>4. Agree(t)'
    <3>1. \A w \in Users : Claims(t, w)' => w = UserOf(jar)'
      BY <1>1, <1>2, <2>1 DEF Claims
    <3>. QED  BY <3>1 DEF Agree
  <2>5. Loyal(t)'
    BY <1>1, <2>1 DEF Loyal
  <2>. QED  BY <2>3, <2>4, <2>5 DEF Faithful
<1>. QED  BY <1>6, <1>7, <1>8, <1>9 DEF Rest

LEMMA CloseStep ==
    ASSUME IInv, Typed', NEW t \in Tabs, Close(t)
    PROVE  Rest'
<1>1. /\ Abandon(t) /\ UNCHANGED <<family, lineage, jar>>
      /\ seen' = [seen EXCEPT !.silent =
                     @ \/ (queue # <<>> /\ queue[1].tab = t /\ queue[1].step = "profile")]
  BY DEF Close
<1>2. CookieKept
  BY <1>1, InvTypes, UnchangedRemembered, CookieStays
<1>3. /\ seen.silent => seen'.silent
      /\ Announcing /\ queue[1].tab = t => seen'.silent
  BY <1>1, InvTypes DEF TypeOK, Seen, Announcing, Holder
<1>. QED  BY <1>1, <1>2, <1>3, AbandonStep DEF CookieKept

LEMMA CloseDuringRotationStep ==
    ASSUME IInv, Typed', NEW t \in Tabs, NEW stored \in BOOLEAN,
           CloseDuringRotation(t, stored)
    PROVE  Rest'
<1>1. /\ Abandon(t) /\ jar # None /\ RotateFamily(jar) /\ jar' \in {jar, Issued + 1}
      /\ seen' = [seen EXCEPT !.lost = @ \/ ~stored] /\ ~Announcing
  BY DEF CloseDuringRotation, Holder, Announcing
<1>2. CookieKnown
  BY <1>1, InvTypes, CookieRotates
<1>3. seen.silent => seen'.silent
  BY <1>1, InvTypes DEF TypeOK, Seen
<1>. QED  BY <1>1, <1>2, <1>3, AbandonStep

-----------------------------------------------------------------------------
(* The steps under the lock *)

LEMMA GrantStaleStep ==
    ASSUME IInv, Typed', GrantStale
    PROVE  Rest'
<1>. DEFINE t == queue[1].tab
<1>1. /\ queue # <<>> /\ t \in Tabs /\ ~Announcing /\ queue' = Tail(queue)
      /\ \/ Set(t, Landed(tab[t])) \/ Set(t, tab[t])
      /\ UNCHANGED <<family, lineage, jar, loading, inbox, acts, seen>>
  BY InvTypes, HolderTypes DEF GrantStale, Release, Announcing, Holder
<1>. HIDE DEF t
<1>2. /\ Moved(tab[t], Landed(tab[t])) /\ Retains(tab[t], Landed(tab[t]))
      /\ Moved(tab[t], tab[t]) /\ Retains(tab[t], tab[t])
  BY <1>1, InvTypes, MemoryMoves DEF Retains
<1>3. \A s \in Tabs : Keeps(s)
  BY <1>1, <1>2, InvTypes, OneTabMoves
<1>4. CookieKnown
  BY <1>1, InvTypes, UnchangedRemembered, CookieStays DEF CookieKept
<1>. QED  BY <1>1, <1>3, <1>4, InvTypes, NothingSaid, ReleaseStep

LEMMA GrantStep ==
    ASSUME IInv, Typed', Grant
    PROVE  Rest'
<1>. DEFINE op == [queue[1] EXCEPT !.step = "sent"]
<1>1. /\ queue # <<>> /\ queue[1] \in Mutation /\ ~Announcing
      /\ queue[1].kind # "login" /\ queue[1].step = "waiting"
      /\ queue' = [queue EXCEPT ![1] = op]
      /\ UNCHANGED <<family, lineage, jar, tab, loading, inbox, acts, seen>>
  BY InvTypes, HolderTypes DEF Grant, Announcing, Holder
<1>2. /\ op \in Mutation /\ op.tab = queue[1].tab /\ op.kind = queue[1].kind
      /\ op.epoch = queue[1].epoch
  BY <1>1 DEF Mutation
<1>. HIDE DEF op
<1>3. \A s \in Tabs : Keeps(s) /\ Memory(tab'[s]) /\ tab[s].epoch <= tab'[s].epoch
  BY <1>1, InvTypes, NoTabMoves DEF Keeps, Moved
<1>4. HeadKept /\ CookieKept
  BY <1>1, <1>2, InvTypes, HeadGoesOn, UnchangedRemembered, CookieStays
<1>5. Epochs'
  <2>1. Dated(op) => Dated(queue[1]) /\ queue[1].epoch = op.epoch
    BY <1>1, <1>2 DEF Dated
  <2>2. Dated(op) => op.epoch <= tab'[op.tab].epoch
    BY <1>1, <1>2, <2>1, InvTypes, QueueTypes DEF Epochs
  <2>. QED  BY <1>1, <1>2, <1>3, <2>1, <2>2, InvTypes, HeadKeepsEpochs DEF TypeOK, Typed
<1>6. \A s \in Tabs : Undisturbed(s)
  BY <1>1 DEF Undisturbed, Notified
<1>. QED  BY <1>3, <1>4, <1>5, <1>6, InvTypes, OrdinaryStep

\* With the lock a sign-in begins an epoch that no token and no request knows.
LEMMA GrantLoginStep ==
    ASSUME IInv, Typed', GrantLogin, NEW t \in Tabs, t = queue[1].tab
    PROVE  Rest'
<1>. DEFINE d == tab[t]
            op == [queue[1] EXCEPT !.step = "sent", !.epoch = d.epoch + 1]
            e == [d EXCEPT !.status = "bootstrapping", !.epoch = @ + 1]
<1>1. /\ queue # <<>> /\ queue[1] \in Mutation /\ ~Announcing /\ t \in Tabs
      /\ queue[1].kind = "login" /\ d \in Tab /\ Memory(d)
      /\ d.epoch \in Nat /\ d.epoch + 1 \in Nat
      /\ queue' = [queue EXCEPT ![1] = op] /\ Set(t, e)
      /\ UNCHANGED <<family, lineage, jar, loading, inbox, acts, seen>>
  <2>1. /\ queue # <<>> /\ queue[1] \in Mutation /\ queue[1].step = "waiting"
        /\ queue[1].kind = "login" /\ 1 \in DOMAIN queue
    BY InvTypes, HolderTypes DEF GrantLogin
  <2>2. d \in Tab /\ Memory(d) /\ d.epoch \in Nat /\ d.epoch + 1 \in Nat
    BY InvTypes
  <2>3. /\ queue' = [queue EXCEPT ![1].step = "sent", ![1].epoch = tab[t].epoch + 1]
        /\ Set(t, e)
        /\ UNCHANGED <<family, lineage, jar, loading, inbox, acts, seen>>
    BY DEF GrantLogin
  <2>4. queue' = [queue EXCEPT ![1] = op]
    BY <2>1, <2>3
  <2>. QED  BY <2>1, <2>2, <2>3, <2>4 DEF Announcing, Holder
<1>2. /\ op \in Mutation /\ op.tab = t /\ op.kind = "login" /\ op.step = "sent"
      /\ op.epoch = d.epoch + 1
  BY <1>1 DEF Mutation
<1>3. /\ e.epoch = d.epoch + 1 /\ e.token = d.token /\ e.user = d.user /\ e.call = d.call
      /\ e.cleared = d.cleared /\ e.status = "bootstrapping"
  BY <1>1 DEF Tab
<1>4. queue'[1] = op /\ queue' # <<>> /\ ~Announcing'
  <2>1. queue'[1] = op
    <3>. HIDE DEF op, e
    <3>1. 1 \in DOMAIN queue
      BY <1>1, QueueTypes, InvTypes
    <3>. QED  BY <1>1, <3>1
  <2>. QED  BY <1>1, <1>2, <2>1 DEF Announcing, Holder
<1>. HIDE DEF op, e
<1>5. /\ tab'[t] = e /\ tab' \in [Tabs -> Tab]
      /\ \A s \in Tabs : s # t => tab'[s] = tab[s]
  BY <1>1, InvTypes DEF Set, TypeOK, Typed
<1>6. /\ d.call.epoch \in Nat /\ d.call.epoch <= d.epoch /\ d.cleared \in Nat
      /\ d.cleared <= d.epoch
      /\ d.token # None => d.token.born \in Nat /\ d.token.born <= d.epoch
  BY <1>1, TabTypes DEF Memory
<1>7. Memory(e)
  BY <1>1, <1>3, <1>6 DEF Memory
<1>8. \A s \in Tabs : Memory(tab'[s]) /\ tab[s].epoch <= tab'[s].epoch
  BY <1>1, <1>3, <1>5, <1>7, InvTypes
<1>9. Epochs'
  <2>1. Dated(op) => /\ op.epoch <= tab'[op.tab].epoch
                     /\ op.kind # "boot" /\ tab[op.tab].epoch < op.epoch
    BY <1>1, <1>2, <1>3, <1>5
  <2>. QED  BY <1>1, <1>2, <1>5, <1>8, <2>1, InvTypes, HeadKeepsEpochs
<1>10. Paid'
  BY <1>4 DEF Paid
<1>11. /\ \A s \in Tabs : Warned(s)' = Warned(s)
       /\ jar' = jar /\ UserOf(jar)' = UserOf(jar) /\ loading' = loading
  BY <1>1 DEF Warned, Notified, UserOf
<1>12. ASSUME NEW s \in Tabs, s # t
       PROVE  Faithful(s)'
  <2>1. Faithful(s) /\ tab'[s] = tab[s]
    BY <1>5, <1>12, InvTypes DEF Rest
  <2>2. Held(s)'
    BY <1>4, <1>11, <2>1 DEF Faithful, Held
  <2>3. Awaits(s)'
    BY <1>2, <1>4, <1>12 DEF Awaits
  <2>4. Agree(s)'
    BY <1>1, <1>11, <2>1 DEF Faithful, Agree, Claims
  <2>5. Loyal(s)'
    BY <1>11, <2>1 DEF Faithful, Loyal
  <2>. QED  BY <2>2, <2>3, <2>4, <2>5 DEF Faithful
<1>13. Faithful(t)'
  <2>1. Faithful(t) /\ Epochs
    BY <1>1, InvTypes DEF Rest
  <2>2. \A p \in loading : p.tab = t => p.epoch # e.epoch
    BY <1>1, <1>3, <2>1, InvTypes DEF Epochs, TypeOK, Profile
  <2>3. Held(t)'
    BY <1>4, <1>5, <1>11, <2>2 DEF Held
  <2>4. Awaits(t)'
    BY <1>1, <1>3, <1>5, <1>6 DEF Awaits
  <2>5. Agree(t)'
    <3>. SUFFICES ASSUME ~Warned(t)', NEW u \in Users, NEW v \in Users,
                         Claims(t, u)', Claims(t, v)'
                  PROVE  u = v
      BY DEF Agree
    <3>1. e.call.epoch # e.epoch
      BY <1>1, <1>3, <1>6
    <3>2. ASSUME NEW w \in Users, Claims(t, w)'
          PROVE  Claims(t, w)
      BY <1>3, <1>5, <1>11, <2>2, <3>1, <3>2 DEF Claims
    <3>. QED  BY <1>1, <1>11, <2>1, <3>2 DEF Faithful, Agree
  <2>6. Loyal(t)'
    <3>1. e.call.epoch # e.epoch
      BY <1>1, <1>3, <1>6
    <3>. QED  BY <1>5, <3>1 DEF Loyal
  <2>. QED  BY <2>3, <2>4, <2>5, <2>6 DEF Faithful
<1>. QED  BY <1>9, <1>10, <1>12, <1>13 DEF Rest

\* A refresh without an answer signs the tab out, a bootstrap takes its token away.
LEMMA MissesStep ==
    ASSUME IInv, Typed', Holder({"boot", "refresh"}, "sent"), Misses, CookieKnown,
           seen.silent => seen'.silent
    PROVE  Rest'
<1>. DEFINE op == queue[1]
            t == op.tab
            d == tab[t]
<1>1. /\ queue # <<>> /\ op \in Mutation /\ op.kind \in {"boot", "refresh"} /\ t \in Tabs
      /\ d \in Tab /\ Memory(d) /\ ~Announcing
      /\ queue' = Tail(queue) /\ loading' = loading
  BY InvTypes, HolderTypes DEF Holder, Announcing, Misses, Release
<1>2. HeadKept /\ ~Announcing'
  BY <1>1, InvTypes, TailKeepsHead
<1>3. CASE op.kind = "refresh"
  <2>. DEFINE l == Landed(d)
  <2>1. l \in Tab /\ Moved(d, l) /\ Retains(d, l) /\ Memory(l)
    BY <1>1, MemoryTypes, MemoryMoves DEF Moved
  <2>2. Cleared(l) \in Tab /\ Moved(l, Cleared(l)) /\ Retains(l, Cleared(l))
    <3>. HIDE DEF l
    <3>. QED  BY <2>1, MemoryTypes, MemoryMoves
  <2>3. Moved(d, Cleared(l)) /\ Retains(d, Cleared(l))
    BY <1>1, <2>1, <2>2, MovesCompose
  <2>4. \/ Set(t, l) /\ UNCHANGED inbox
        \/ Set(t, Cleared(l)) /\ Tell(t, "ended")
    BY <1>3 DEF Misses
  <2>. HIDE DEF l
  <2>5. \A s \in Tabs : Keeps(s)
    BY <1>1, <2>1, <2>3, <2>4, InvTypes, OneTabMoves
  <2>6. \A s \in Tabs : Notified(s) => Notified(s)'
    BY <1>1, <2>4, InvTypes, TellKeepsMessages, NothingSaid
  <2>. QED  BY <1>1, <2>5, <2>6, InvTypes, ReleaseStep
<1>4. CASE op.kind = "boot"
  <2>1. UNCHANGED inbox /\ Set(t, IF d.epoch = op.epoch THEN Refused(d) ELSE d)
    BY <1>4 DEF Misses
  <2>2. CASE d.epoch # op.epoch
    <3>1. Moved(d, d) /\ Retains(d, d) /\ Set(t, d)
      BY <1>1, <2>1, <2>2, MemoryMoves DEF Retains
    <3>2. \A s \in Tabs : Keeps(s)
      BY <1>1, <3>1, InvTypes, OneTabMoves
    <3>. QED  BY <1>1, <2>1, <3>2, InvTypes, NothingSaid, ReleaseStep
  <2>3. CASE d.epoch = op.epoch
    <3>1. Moved(d, Refused(d)) /\ Refused(d).epoch = d.epoch /\ Set(t, Refused(d))
      BY <1>1, <2>1, <2>3, MemoryMoves
    <3>2. tab'[t] = Refused(d)
      BY <1>1, <3>1, InvTypes DEF Set, TypeOK
    <3>3. \A p \in loading' : p.tab = t => p.epoch # d.epoch
      BY <1>1, <1>4, <2>3, InvTypes, QueueTypes DEF Epochs, Dated
    <3>4. Drops(t)
      BY <1>2, <3>1, <3>2, <3>3 DEF Drops
    <3>5. \A s \in Tabs : Keeps(s)
      BY <1>1, <3>1, <3>4, InvTypes, OneTabMoves
    <3>. QED  BY <1>1, <2>1, <3>5, InvTypes, NothingSaid, ReleaseStep
  <2>. QED  BY <2>2, <2>3
<1>. QED  BY <1>1, <1>3, <1>4

\* The answer to a rotation is a token of the user of the cookie.
LEMMA ArrivesStep ==
    ASSUME IInv, Typed', Holder({"boot", "refresh"}, "sent"), jar # None,
           Arrives(UserOf(jar)), CookieKnown, seen.silent => seen'.silent,
           NEW t \in Tabs, t = queue[1].tab
    PROVE  Rest'
<1>. DEFINE op == queue[1]
            d == tab[t]
            u == UserOf(jar)
            token == Granted(u, op)
            e == IF op.kind = "refresh" THEN Renewed(d, token) ELSE Replaced(d, token)
            new == [tab |-> t, epoch |-> op.epoch, user |-> u]
<1>1. /\ queue # <<>> /\ op \in Mutation /\ op.kind \in {"boot", "refresh"} /\ t \in Tabs
      /\ d \in Tab /\ Memory(d) /\ ~Announcing /\ op.epoch \in Nat
      /\ queue' = Tail(queue) /\ UNCHANGED inbox
      /\ u \in Users
  BY InvTypes, HolderTypes, IssuedTypes DEF Holder, Announcing, Arrives, Release
<1>2. HeadKept /\ ~Announcing' /\ CookieKept
  <2>1. HeadKept /\ ~Announcing'
    BY <1>1, InvTypes, TailKeepsHead
  <2>. QED  BY <2>1 DEF CookieKept
<1>3. CASE d.epoch # op.epoch
  <2>1. (Set(t, Landed(d)) \/ Set(t, d)) /\ loading' = loading
    BY <1>3 DEF Arrives
  <2>2. /\ Moved(d, Landed(d)) /\ Retains(d, Landed(d))
        /\ Moved(d, d) /\ Retains(d, d)
    BY <1>1, MemoryMoves DEF Retains
  <2>3. \A s \in Tabs : Keeps(s)
    BY <1>1, <2>1, <2>2, InvTypes, OneTabMoves
  <2>. QED  BY <1>1, <2>1, <2>3, InvTypes, NothingSaid, ReleaseStep
<1>4. CASE d.epoch = op.epoch
  <2>1. /\ Set(t, e)
        /\ loading' = IF op.kind = "refresh" THEN loading ELSE loading \cup {new}
    BY <1>1, <1>4 DEF Arrives
  <2>2. /\ token \in Token /\ token.born = d.epoch /\ token.user = u /\ token # None
        /\ new.tab = t /\ new.epoch = d.epoch /\ new.user = u
    BY <1>1, <1>4, NoneAssumption DEF Granted, Token
  <2>3. /\ Memory(e) /\ e.token = token /\ e.epoch = d.epoch /\ e.user = d.user
        /\ e.call.epoch = e.epoch /\ e.call.user # None =>
              /\ d.call.epoch = d.epoch /\ d.call.user = e.call.user
              /\ e.call.step = "retried" =>
                    \/ d.call.step = "retried" /\ d.call.bearer = e.call.bearer
                    \/ e.call.bearer = token
    <3>. HIDE DEF d, token
    <3>. QED  BY <1>1, <2>2, MemoryOfToken
  <2>. HIDE DEF e, token, new
  <2>4. /\ tab'[t] = e /\ tab' \in [Tabs -> Tab]
        /\ \A s \in Tabs : s # t => tab'[s] = tab[s]
    BY <1>1, <2>1, InvTypes DEF Set, TypeOK, Typed
  <2>5. \A s \in Tabs : Memory(tab'[s]) /\ tab[s].epoch <= tab'[s].epoch
    BY <1>1, <2>3, <2>4, InvTypes
  <2>6. Epochs'
    <3>1. CASE op.kind = "boot"
      BY <1>1, <2>1, <2>4, <2>5, <3>1, InvTypes, BootKeepsEpochs DEF new
    <3>2. CASE op.kind = "refresh"
      <4>1. loading' = loading /\ Thinner
        BY <1>1, <2>1, <3>2, InvTypes, TailIsThinner
      <4>2. \A i \in DOMAIN queue' : queue'[i].tab \in Tabs
        BY <1>1, InvTypes, QueueTypes DEF Mutation
      <4>3. /\ \A i \in DOMAIN queue' : tab[queue'[i].tab].epoch <= tab'[queue'[i].tab].epoch
            /\ \A p \in loading' : tab[p.tab].epoch <= tab'[p.tab].epoch
        BY <2>5, <4>1, <4>2, InvTypes DEF TypeOK, Profile
      <4>. QED  BY <2>4, <2>5, <4>1, <4>3, InvTypes, ThinnerKeepsEpochs
    <3>. QED  BY <1>1, <3>1, <3>2
  <2>7. Paid'
    BY <1>2 DEF Paid
  <2>8. loading' \subseteq loading \cup {new} /\ \A s \in Tabs : Notified(s)' = Notified(s)
    BY <1>1, <2>1 DEF Notified
  <2>9. ASSUME NEW s \in Tabs, s # t
        PROVE  Faithful(s)'
    <3>1. Undisturbed(s)
      BY <1>1, <2>2, <2>8, <2>9 DEF Undisturbed
    <3>2. Keeps(s)
      BY <2>4, <2>9, InvTypes, MemoryMoves DEF Keeps, Retains
    <3>. QED  BY <1>2, <2>4, <2>9, <3>1, <3>2, InvTypes, UndisturbedStaysFaithful DEF Rest
  <2>10. Faithful(t)'
    <3>1. Faithful(t)
      BY <1>1, InvTypes DEF Rest
    <3>2. Held(t)' /\ Awaits(t)'
      <4>1. ~Holder({"login"}, "sent")'
        BY <1>1, <1>2 DEF HeadKept, Holder
      <4>. QED  BY <1>2, <2>2, <2>3, <2>4, <4>1 DEF Held, Awaits
    <3>3. Warned(t) => Warned(t)'
      BY <2>8 DEF Warned
    <3>4. Claims(t, u)
      BY DEF Claims
    <3>5. ASSUME NEW w \in Users, Claims(t, w)'
          PROVE  Claims(t, w)
      <4>1. CASE jar' # None /\ w = UserOf(jar)'
        BY <4>1 DEF CookieKnown, Claims
      <4>2. CASE e.token # None /\ w = e.token.user
        BY <2>2, <2>3, <3>4, <4>2
      <4>3. CASE e.user # None /\ w = e.user
        BY <2>3, <4>3 DEF Claims
      <4>4. CASE \E p \in loading' : p.tab = t /\ p.epoch = e.epoch /\ w = p.user
        BY <2>2, <2>3, <2>8, <3>4, <4>4 DEF Claims
      <4>5. CASE e.call.epoch = e.epoch /\ e.call.user # None /\ w = e.call.user
        BY <2>3, <4>5 DEF Claims
      <4>. QED  BY <2>4, <3>5, <4>1, <4>2, <4>3, <4>4, <4>5 DEF Claims
    <3>6. Agree(t)'
      BY <1>1, <3>1, <3>3, <3>5 DEF Faithful, Agree
    <3>7. Loyal(t)'
      <4>. SUFFICES ASSUME ~Warned(t)', e.call.epoch = e.epoch, e.call.user # None
                    PROVE  /\ e.token # None /\ e.token.born = e.epoch =>
                                e.token.user = e.call.user
                           /\ e.call.step = "retried" => e.call.bearer.user = e.call.user
        BY <2>4 DEF Loyal
      <4>1. /\ d.call.epoch = d.epoch /\ d.call.user = e.call.user /\ d.call.user \in Users
        BY <1>1, <2>3, TabTypes
      <4>2. Claims(t, d.call.user)
        BY <4>1 DEF Claims
      <4>3. d.call.user = u
        BY <1>1, <3>1, <3>3, <3>4, <4>1, <4>2 DEF Faithful, Agree
      <4>4. d.call.step = "retried" => d.call.bearer.user = d.call.user
        BY <3>1, <3>3, <4>1 DEF Faithful, Loyal
      <4>. QED  BY <2>2, <2>3, <4>1, <4>3, <4>4
    <3>. QED  BY <3>2, <3>6, <3>7 DEF Faithful
  <2>. QED  BY <2>6, <2>7, <2>9, <2>10 DEF Rest
<1>. QED  BY <1>3, <1>4

LEMMA RotateStep ==
    ASSUME IInv, Typed', NEW lost \in BOOLEAN, Rotate(lost)
    PROVE  Rest'
<1>1. /\ Holder({"boot", "refresh"}, "sent") /\ jar # None /\ RotateFamily(jar)
      /\ seen' = [seen EXCEPT !.lost = @ \/ lost]
      /\ \/ Misses /\ UNCHANGED jar
         \/ Arrives(UserOf(jar)) /\ jar' = Issued + 1
  BY DEF Rotate
<1>2. CookieKnown
  BY <1>1, InvTypes, CookieRotates
<1>3. seen.silent => seen'.silent
  BY <1>1, InvTypes DEF TypeOK, Seen
<1>4. CASE Misses
  BY <1>1, <1>2, <1>3, <1>4, MissesStep
<1>5. CASE Arrives(UserOf(jar))
  <2>1. queue[1].tab \in Tabs
    BY <1>1, InvTypes, HolderTypes
  <2>. QED  BY <1>1, <1>2, <1>3, <1>5, <2>1, ArrivesStep
<1>. QED  BY <1>1, <1>4, <1>5

LEMMA RefreshEndsStep ==
    ASSUME IInv, Typed', RefreshFails \/ RefreshRejected
    PROVE  Rest'
<1>1. CASE RefreshFails
  <2>1. /\ Holder({"boot", "refresh"}, "sent") /\ Misses
        /\ UNCHANGED <<family, lineage, jar, acts, seen>>
    BY <1>1 DEF RefreshFails
  <2>2. CookieKnown
    BY <2>1, InvTypes, UnchangedRemembered, CookieStays DEF CookieKept
  <2>. QED  BY <2>1, <2>2, MissesStep
<1>2. CASE RefreshRejected
  <2>1. /\ Holder({"boot", "refresh"}, "sent") /\ Misses /\ jar' = None
        /\ seen' = [seen EXCEPT !.replayed = @ \/ Consumed(jar)]
    BY <1>2 DEF RefreshRejected
  <2>2. CookieKnown /\ (seen.silent => seen'.silent)
    BY <2>1, InvTypes DEF CookieKnown, TypeOK, Seen
  <2>. QED  BY <2>1, <2>2, MissesStep
<1>. QED  BY <1>1, <1>2

LEMMA LoginRejectedStep ==
    ASSUME IInv, Typed', LoginRejected
    PROVE  Rest'
<1>. DEFINE t == queue[1].tab
            d == tab[t]
            e == [d EXCEPT !.status = "unauthenticated"]
<1>1. /\ queue # <<>> /\ t \in Tabs /\ ~Announcing /\ queue' = Tail(queue) /\ Set(t, e)
      /\ UNCHANGED <<family, lineage, jar, loading, inbox, acts, seen>>
      /\ d \in Tab /\ Memory(d)
  BY InvTypes, HolderTypes DEF LoginRejected, Announcing, Holder, Release
<1>2. /\ e.epoch = d.epoch /\ e.token = d.token /\ e.user = d.user /\ e.call = d.call
      /\ e.cleared = d.cleared /\ e.status = "unauthenticated"
  BY <1>1 DEF Tab
<1>. HIDE DEF e, t
<1>3. Moved(d, e) /\ Retains(d, e)
  BY <1>1, <1>2, TabTypes DEF Moved, Retains, Memory
<1>4. \A s \in Tabs : Keeps(s)
  BY <1>1, <1>3, InvTypes, OneTabMoves
<1>5. CookieKnown
  BY <1>1, InvTypes, UnchangedRemembered, CookieStays DEF CookieKept
<1>. QED  BY <1>1, <1>4, <1>5, InvTypes, NothingSaid, ReleaseStep

\* What happens at the server alone: the lock is released and the tab does not notice.
LEMMA LeaveStep ==
    ASSUME IInv, Typed',
           \/ LoginSilent \/ Logout \/ LogoutFails
           \/ \E opened \in BOOLEAN : LoginFails(opened)
    PROVE  Rest'
<1>1. /\ queue # <<>> /\ queue' = Tail(queue) /\ UNCHANGED <<tab, loading, inbox>>
  BY DEF LoginSilent, Logout, LogoutFails, LoginFails, Holder, Release
<1>2. \A s \in Tabs : Keeps(s) /\ (Notified(s) => Notified(s)')
  BY <1>1, InvTypes, NoTabMoves, NothingSaid
<1>3. CASE LoginSilent
  <2>1. UNCHANGED <<family, lineage, jar>> /\ seen' = [seen EXCEPT !.silent = TRUE]
    BY <1>3 DEF LoginSilent
  <2>2. seen'.silent
    BY <2>1, InvTypes DEF TypeOK, Seen
  <2>3. CookieKnown
    BY <2>1, InvTypes, UnchangedRemembered, CookieStays DEF CookieKept
  <2>. QED  BY <1>1, <1>2, <2>2, <2>3, InvTypes, ReleaseStep
<1>4. CASE Logout
  <2>1. jar' = None /\ seen' = seen /\ ~Announcing
    BY <1>4 DEF Logout, Holder, Announcing
  <2>2. CookieKnown
    BY <2>1 DEF CookieKnown
  <2>. QED  BY <1>1, <1>2, <2>1, <2>2, InvTypes, ReleaseStep
<1>5. CASE LogoutFails
  <2>1. UNCHANGED <<family, lineage, jar, seen>> /\ ~Announcing
    BY <1>5 DEF LogoutFails, Holder, Announcing
  <2>2. CookieKnown
    BY <2>1, InvTypes, UnchangedRemembered, CookieStays DEF CookieKept
  <2>. QED  BY <1>1, <1>2, <2>1, <2>2, InvTypes, ReleaseStep
<1>6. ASSUME NEW opened \in BOOLEAN, LoginFails(opened)
      PROVE  Rest'
  <2>1. UNCHANGED <<jar, seen>> /\ ~Announcing
    BY <1>6 DEF LoginFails, Holder, Announcing
  <2>2. Remembered
    <3>1. CASE opened
      <4>1. OpenFamily(queue[1].user) /\ queue[1].user \in Users
        BY <1>6, <3>1, InvTypes, HolderTypes DEF LoginFails
      <4>. QED  BY <4>1, InvTypes, OpenFamilyKeeps
    <3>2. CASE ~opened
      BY <1>6, <3>2, InvTypes, UnchangedRemembered DEF LoginFails, Unchanged
    <3>. QED  BY <3>1, <3>2
  <2>3. CookieKnown
    BY <2>1, <2>2, InvTypes, CookieStays DEF CookieKept
  <2>. QED  BY <1>1, <1>2, <2>1, <2>3, InvTypes, ReleaseStep
<1>. QED  BY <1>3, <1>4, <1>5, <1>6

\* The cookie and, if the epoch is still that of the sign-in, the token are the user's
\* who signs in: from now on the sign-in is about to be announced.
LEMMA LoginAcceptedStep ==
    ASSUME IInv, Typed', LoginAccepted, NEW t \in Tabs, t = queue[1].tab
    PROVE  Rest'
<1>. DEFINE op == queue[1]
            u == op.user
            d == tab[t]
            token == Granted(u, op)
            e == Replaced(d, token)
            head == [op EXCEPT !.step = "profile"]
<1>1. /\ queue # <<>> /\ 1 \in DOMAIN queue /\ op \in Mutation /\ ~Announcing
      /\ op.kind = "login" /\ op.step = "sent" /\ u \in Users /\ op.epoch \in Nat
      /\ OpenFamily(u) /\ jar' = Issued + 1
      /\ seen' = [seen EXCEPT !.silent = @ \/ d.epoch # op.epoch]
      /\ UNCHANGED <<loading, inbox, acts>>
      /\ d \in Tab /\ Memory(d)
  BY InvTypes, HolderTypes DEF LoginAccepted, Announcing, Holder
<1>2. family'[lineage'[Issued + 1]].user = u /\ Issued \in Nat
  BY <1>1, InvTypes, OpenFamilyKeeps, IssuedTypes
<1>3. jar' # None /\ UserOf(jar)' = u
  BY <1>1, <1>2, NoneAssumption DEF UserOf
<1>4. seen'.silent = (seen.silent \/ d.epoch # op.epoch) /\ \A s \in Tabs : Notified(s)' = Notified(s)
  BY <1>1, InvTypes DEF TypeOK, Seen, Notified
<1>5. CASE d.epoch # op.epoch
  <2>1. queue' = Tail(queue) /\ tab' = tab
    BY <1>5 DEF LoginAccepted, Release
  <2>2. HeadKept /\ ~Announcing' /\ Thinner
    BY <1>1, <2>1, InvTypes, TailKeepsHead, TailIsThinner
  <2>3. ~Holder({"login"}, "sent")'
    <3>1. queue' # <<>> => queue'[1].step = "waiting"
      <4>. SUFFICES ASSUME queue' # <<>>
                    PROVE  queue'[1].step = "waiting"
        OBVIOUS
      <4>1. 1 \in DOMAIN queue'
        BY <1>1, <2>1, InvTypes, QueueTypes
      <4>2. queue'[1] = queue[1 + 1] /\ 1 + 1 \in DOMAIN queue
        BY <1>1, <2>1, <4>1, InvTypes, QueueTypes
      <4>. QED  BY <4>2, InvTypes DEF Line
    <3>. QED  BY <3>1 DEF Holder
  <2>4. Epochs'
    <3>1. \A i \in DOMAIN queue' : queue'[i].tab \in Tabs
      BY <1>1, <2>1, InvTypes, QueueTypes DEF Mutation
    <3>2. /\ \A i \in DOMAIN queue' : tab[queue'[i].tab].epoch <= tab'[queue'[i].tab].epoch
          /\ \A p \in loading' : tab[p.tab].epoch <= tab'[p.tab].epoch
      BY <1>1, <2>1, <3>1, InvTypes DEF TypeOK, Profile
    <3>. QED  BY <1>1, <2>1, <2>2, <3>2, InvTypes, ThinnerKeepsEpochs DEF Typed, TypeOK
  <2>5. Paid'
    BY <2>2 DEF Paid
  <2>6. ASSUME NEW s \in Tabs
        PROVE  Faithful(s)'
    <3>1. Warned(s)'
      BY <1>4, <1>5 DEF Warned
    <3>2. Held(s)'
      BY <1>1, <2>1, <2>2, InvTypes DEF Rest, Faithful, Held
    <3>. QED  BY <2>3, <3>1, <3>2 DEF Faithful, Awaits, Agree, Loyal
  <2>. QED  BY <2>4, <2>5, <2>6 DEF Rest
<1>6. CASE d.epoch = op.epoch
  <2>1. queue' = [queue EXCEPT ![1] = head] /\ Set(t, e)
    BY <1>6 DEF LoginAccepted
  <2>2. /\ head \in Mutation /\ head.tab = t /\ head.kind = "login" /\ head.step = "profile"
        /\ head.epoch = d.epoch /\ head.user = u
    BY <1>1, <1>6 DEF Mutation
  <2>3. /\ token \in Token /\ token = [user |-> u, born |-> d.epoch] /\ token.born = d.epoch
        /\ token # None
    BY <1>1, <1>6, NoneAssumption DEF Granted, Token
  <2>4. /\ Memory(e) /\ e.token = token /\ e.epoch = d.epoch
        /\ e.call.epoch = e.epoch /\ e.call.user # None =>
              d.call.epoch = d.epoch /\ d.call.user = e.call.user
    <3>. HIDE DEF d, token
    <3>. QED  BY <1>1, <2>3, MemoryOfToken
  <2>5. d.call.epoch = d.epoch => d.call.user = None
    BY <1>1, <1>6, InvTypes DEF Rest, Faithful, Awaits, Holder
  <2>. HIDE DEF e, token, head
  <2>6. queue'[1] = head /\ queue' # <<>> /\ Announcing'
    <3>1. queue'[1] = head /\ queue' # <<>>
      BY <1>1, <2>1
    <3>. QED  BY <2>2, <3>1 DEF Announcing, Holder
  <2>7. /\ tab'[t] = e /\ tab' \in [Tabs -> Tab]
        /\ \A s \in Tabs : s # t => tab'[s] = tab[s]
    BY <2>1, InvTypes DEF Set, TypeOK, Typed
  <2>8. \A s \in Tabs : Memory(tab'[s]) /\ tab[s].epoch <= tab'[s].epoch
    BY <2>4, <2>7, InvTypes
  <2>9. Epochs'
    <3>1. Dated(op) /\ op.epoch = head.epoch /\ head.epoch <= tab'[head.tab].epoch
      BY <1>1, <1>6, <2>2, <2>4, <2>7 DEF Dated
    <3>. QED  BY <1>1, <2>1, <2>2, <2>7, <2>8, <3>1, InvTypes, HeadKeepsEpochs
  <2>10. Paid'
    BY <1>3, <2>2, <2>6 DEF Paid
  <2>11. ASSUME NEW s \in Tabs, s # t
         PROVE  Faithful(s)'
    <3>1. Faithful(s) /\ tab'[s] = tab[s]
      BY <2>7, <2>11, InvTypes DEF Rest
    <3>2. Held(s)'
      BY <1>1, <2>2, <2>6, <2>11, <3>1 DEF Faithful, Held
    <3>3. Awaits(s)' /\ Agree(s)'
      BY <2>2, <2>6, <2>11 DEF Awaits, Agree
    <3>4. Loyal(s)'
      BY <1>4, <1>6, <3>1 DEF Faithful, Loyal, Warned
    <3>. QED  BY <3>2, <3>3, <3>4 DEF Faithful
  <2>12. Faithful(t)'
    <3>1. Held(t)'
      BY <2>2, <2>3, <2>4, <2>6, <2>7 DEF Held
    <3>2. Awaits(t)' /\ Agree(t)'
      BY <2>2, <2>6 DEF Awaits, Agree, Holder
    <3>3. Loyal(t)'
      BY <2>4, <2>5, <2>7 DEF Loyal
    <3>. QED  BY <3>1, <3>2, <3>3 DEF Faithful
  <2>. QED  BY <2>9, <2>10, <2>11, <2>12 DEF Rest
<1>. QED  BY <1>5, <1>6

\* The sign-in is announced: the others are warned, and its own tab is the user's alone.
LEMMA LoginCompletesStep ==
    ASSUME IInv, Typed', LoginCompletes, NEW t \in Tabs, t = queue[1].tab
    PROVE  Rest'
<1>. DEFINE op == queue[1]
            u == op.user
            d == tab[t]
            e == [d EXCEPT !.status = "authenticated", !.user = u]
<1>1. /\ queue # <<>> /\ 1 \in DOMAIN queue /\ op \in Mutation /\ Announcing
      /\ op.kind = "login" /\ op.step = "profile" /\ u \in Users
      /\ d.epoch = op.epoch /\ queue' = Tail(queue) /\ Set(t, e) /\ Tell(t, "changed")
      /\ UNCHANGED <<family, lineage, jar, loading, acts, seen>>
      /\ d \in Tab /\ Memory(d) /\ d.epoch \in Nat
  BY InvTypes, HolderTypes DEF LoginCompletes, Announcing, Holder, Release
<1>2. /\ e.epoch = d.epoch /\ e.token = d.token /\ e.user = u /\ e.call = d.call
      /\ e.cleared = d.cleared /\ e.status = "authenticated"
  BY <1>1 DEF Tab
<1>. HIDE DEF e
<1>3. /\ Faithful(t) /\ Paid /\ Epochs
  BY InvTypes DEF Rest
<1>4. d.token = [user |-> u, born |-> d.epoch] /\ d.token # None
  BY <1>1, <1>3, NoneAssumption DEF Faithful, Held, Token
<1>5. /\ tab'[t] = e /\ tab' \in [Tabs -> Tab]
      /\ \A s \in Tabs : s # t => tab'[s] = tab[s]
  BY <1>1, InvTypes DEF Set, TypeOK, Typed
<1>6. Memory(e)
  BY <1>1, <1>2, <1>4 DEF Memory
<1>7. \A s \in Tabs : Memory(tab'[s]) /\ tab[s].epoch <= tab'[s].epoch
  BY <1>1, <1>2, <1>5, <1>6, InvTypes
<1>8. HeadKept /\ ~Announcing' /\ Thinner
  BY <1>1, InvTypes, TailKeepsHead, TailIsThinner
<1>9. ~Holder({"login"}, "sent")'
  BY <1>1, <1>8 DEF HeadKept, Holder
<1>10. Epochs'
  <2>1. \A i \in DOMAIN queue' : queue'[i].tab \in Tabs
    BY <1>1, InvTypes, QueueTypes DEF Mutation
  <2>2. /\ \A i \in DOMAIN queue' : tab[queue'[i].tab].epoch <= tab'[queue'[i].tab].epoch
        /\ \A p \in loading' : tab[p.tab].epoch <= tab'[p.tab].epoch
    BY <1>1, <1>7, <2>1, InvTypes DEF TypeOK, Profile
  <2>. QED  BY <1>1, <1>5, <1>7, <1>8, <2>2, InvTypes, ThinnerKeepsEpochs
<1>11. Paid'
  BY <1>8 DEF Paid
<1>12. ASSUME NEW s \in Tabs, s # t
       PROVE  Faithful(s)'
  <2>1. Faithful(s) /\ tab'[s] = tab[s]
    BY <1>5, <1>12, InvTypes DEF Rest
  <2>2. Warned(s)'
    BY <1>1, <1>12, InvTypes, TellKeepsMessages DEF Warned
  <2>3. Held(s)'
    BY <1>1, <1>8, <2>1 DEF Faithful, Held
  <2>. QED  BY <1>9, <2>2, <2>3 DEF Faithful, Awaits, Agree, Loyal
<1>13. Faithful(t)'
  <2>1. Warned(t)' = Warned(t)
    BY <1>1, InvTypes, TellKeepsMessages DEF Warned, Notified
  <2>2. Held(t)' /\ Awaits(t)'
    BY <1>2, <1>4, <1>5, <1>8, <1>9 DEF Held, Awaits
  <2>3. Loyal(t)'
    BY <1>2, <1>3, <1>5, <2>1 DEF Faithful, Loyal
  <2>4. ASSUME ~Warned(t)', NEW w \in Users, Claims(t, w)'
        PROVE  w = u
    <3>1. jar # None /\ UserOf(jar)' = u
      BY <1>1, <1>3 DEF Paid, UserOf
    <3>2. CASE \E p \in loading' : p.tab = t /\ p.epoch = e.epoch /\ w = p.user
      BY <1>1, <1>2, <1>3, <3>2 DEF Epochs, Dated
    <3>3. CASE e.call.epoch = e.epoch /\ e.call.user # None /\ w = e.call.user
      BY <1>2, <1>3, <1>4, <2>1, <2>4, <3>3 DEF Faithful, Loyal
    <3>. QED  BY <1>2, <1>4, <1>5, <2>4, <3>1, <3>2, <3>3 DEF Claims
  <2>5. Agree(t)'
    BY <2>4 DEF Agree
  <2>. QED  BY <2>2, <2>3, <2>5 DEF Faithful
<1>. QED  BY <1>10, <1>11, <1>12, <1>13 DEF Rest

-----------------------------------------------------------------------------
(* The inductive invariant *)

LEMMA InitInv ==
    ASSUME Init
    PROVE  IInv
<1>1. /\ queue = <<>> /\ tab = [t \in Tabs |-> Document] /\ loading = {}
      /\ inbox = [t \in Tabs |-> <<>>] /\ acts = 0
      /\ seen = [lost |-> FALSE, replayed |-> FALSE, silent |-> FALSE]
  BY DEF Init
<1>2. Document \in Tab /\ Memory(Document)
  <2>1. NoCall \in Call
    BY DEF NoCall, Call
  <2>2. Document \in Tab
    BY <2>1 DEF Document, Tab, Status
  <2>. QED  BY <2>2 DEF Memory, Document, NoCall
<1>3. /\ queue \in Seq(Mutation) /\ tab \in [Tabs -> Tab] /\ loading \subseteq Profile
      /\ inbox \in [Tabs -> Seq({"changed", "ended"})] /\ acts \in 0..MaxActs /\ seen \in Seen
  BY <1>1, <1>2, BoundsAssumption DEF Seen
<1>4. /\ ServerTypes /\ Sessions /\ HonestCookie /\ jar \in SessionIds \cup {None}
  <2>1. CASE Server!Init /\ lineage = <<>> /\ jar = None
    BY <2>1 DEF Server!Init, ServerTypes, Sessions, HonestCookie, Issued
  <2>2. ASSUME NEW u \in Users,
               family = [f \in SessionIds |-> IF f = 1 THEN [user |-> u, token |-> 1] ELSE None],
               lineage = << 1 >>, jar = 1
        PROVE  /\ ServerTypes /\ Sessions /\ HonestCookie /\ jar \in SessionIds \cup {None}
    <3>1. 1 \in SessionIds
      BY BoundsAssumption DEF SessionIds
    <3>2. [user |-> u, token |-> 1] \in Server!Family
      BY <3>1 DEF Server!Family
    <3>3. [user |-> u, token |-> 1] # None
      BY <3>2, NoneAssumption
    <3>4. Issued = 1 /\ lineage[1] = 1 /\ lineage \in Seq(SessionIds)
      BY <2>2, <3>1 DEF Issued
    <3>5. family \in [SessionIds -> Server!Family \cup {None}] /\ family[1] # None
      BY <2>2, <3>1, <3>2, <3>3
    <3>6. HonestCookie
      BY <2>2, <3>4 DEF HonestCookie, Consumed
    <3>7. Sessions
      BY <2>2, <3>4, <3>5 DEF Sessions
    <3>. QED  BY <2>2, <3>1, <3>4, <3>5, <3>6, <3>7 DEF ServerTypes
  <2>. QED  BY <2>1, <2>2 DEF Init
<1>5. TypeOK
  BY <1>3, <1>4 DEF TypeOK, ServerTypes
<1>6. Line /\ ~Announcing /\ ~Holder({"login"}, "sent")
  BY <1>1 DEF Line, Announcing, Holder
<1>7. Epochs
  BY <1>1, <1>2 DEF Epochs
<1>8. ASSUME NEW t \in Tabs
      PROVE  Faithful(t)
  <2>1. /\ tab[t].token = None /\ tab[t].user = None /\ tab[t].call.user = None
    BY <1>1 DEF Document, NoCall
  <2>2. Agree(t)
    BY <1>1, <2>1 DEF Agree, Claims
  <2>. QED  BY <1>1, <1>6, <2>1, <2>2 DEF Faithful, Held, Awaits, Loyal
<1>. QED  BY <1>4, <1>5, <1>6, <1>7, <1>8 DEF IInv, Rest, Paid

LEMMA NextInv ==
    ASSUME IInv, Next
    PROVE  IInv'
<1>1. Typed' /\ HonestCookie'
  BY TypedStep DEF IInv
<1>2. queue # <<>> => queue[1].tab \in Tabs
  BY InvTypes, QueueTypes DEF Mutation
<1>3. CASE HolderSteps
  <2>1. CASE GrantStale \/ Grant
    BY <1>1, <2>1, GrantStaleStep, GrantStep DEF IInv, Typed
  <2>2. CASE GrantLogin
    <3>1. Rest'
      BY <1>1, <1>2, <2>2, GrantLoginStep DEF GrantLogin, Holder
    <3>. QED  BY <1>1, <3>1 DEF IInv, Typed
  <2>3. CASE \E lost \in BOOLEAN : Rotate(lost)
    BY <1>1, <2>3, RotateStep DEF IInv, Typed
  <2>4. CASE RefreshFails \/ RefreshRejected
    BY <1>1, <2>4, RefreshEndsStep DEF IInv, Typed
  <2>5. CASE LoginAccepted
    <3>1. Rest'
      BY <1>1, <1>2, <2>5, LoginAcceptedStep DEF LoginAccepted, Holder
    <3>. QED  BY <1>1, <3>1 DEF IInv, Typed
  <2>6. CASE LoginRejected
    BY <1>1, <2>6, LoginRejectedStep DEF IInv, Typed
  <2>7. CASE LoginCompletes
    <3>1. Rest'
      BY <1>1, <1>2, <2>7, LoginCompletesStep DEF LoginCompletes, Holder
    <3>. QED  BY <1>1, <3>1 DEF IInv, Typed
  <2>8. CASE \/ LoginSilent \/ Logout \/ LogoutFails
             \/ \E opened \in BOOLEAN : LoginFails(opened)
    BY <1>1, <2>8, LeaveStep DEF IInv, Typed
  <2>. QED  BY <1>3, <2>1, <2>2, <2>3, <2>4, <2>5, <2>6, <2>7, <2>8 DEF HolderSteps
<1>4. ASSUME NEW t \in Tabs, TabSteps(t)
      PROVE  IInv'
  <2>1. CASE Open(t) \/ SignOut(t) \/ Refresh(t) \/ SendCall(t)
    BY <1>1, <2>1, OpenStep, SignOutStep, RefreshStep, SendCallStep DEF IInv, Typed
  <2>2. CASE \E u \in Users : SignIn(t, u)
    BY <1>1, <2>2, SignInStep DEF IInv, Typed
  <2>3. CASE Close(t) \/ \E stored \in BOOLEAN : CloseDuringRotation(t, stored)
    BY <1>1, <2>3, CloseStep, CloseDuringRotationStep DEF IInv, Typed
  <2>4. CASE Hear(t) \/ CallRejected(t)
    BY <1>1, <2>4, HearStep, CallRejectedStep DEF IInv, Typed
  <2>5. CASE CallAnswered(t)
    <3>1. Rest'
      BY <1>1, <2>5, CallAnsweredStep DEF CallAnswered
    <3>. QED  BY <1>1, <3>1 DEF IInv, Typed
  <2>6. CASE RetryRejected(t)
    <3>1. Rest'
      BY <1>1, <2>6, GiveUpStep DEF RetryRejected
    <3>. QED  BY <1>1, <3>1 DEF IInv, Typed
  <2>. QED  BY <1>4, <2>1, <2>2, <2>3, <2>4, <2>5, <2>6 DEF TabSteps
<1>5. ASSUME NEW u \in Users, SignOutElsewhere(u)
      PROVE  IInv'
  BY <1>1, <1>5, SignOutElsewhereStep DEF IInv, Typed
<1>6. ASSUME NEW p \in loading, NEW arrives \in BOOLEAN, LoadProfile(p, arrives)
      PROVE  IInv'
  BY <1>1, <1>6, LoadProfileStep DEF IInv, Typed
<1>. QED  BY <1>3, <1>4, <1>5, <1>6 DEF Next

LEMMA StutterInv ==
    ASSUME IInv, UNCHANGED vars
    PROVE  IInv'
<1>1. /\ family' = family /\ lineage' = lineage /\ jar' = jar /\ queue' = queue /\ tab' = tab
      /\ loading' = loading /\ inbox' = inbox /\ acts' = acts /\ seen' = seen
  BY DEF vars
<1>2. TypeOK' /\ Sessions' /\ HonestCookie' /\ Line'
  BY <1>1 DEF IInv, TypeOK, Sessions, HonestCookie, Line, Issued, Consumed
<1>3. Epochs' /\ Paid'
  BY <1>1 DEF IInv, Rest, Epochs, Paid, Announcing, Holder, UserOf
<1>4. ASSUME NEW t \in Tabs
      PROVE  Faithful(t)'
  <2>1. Faithful(t)
    BY DEF IInv, Rest
  <2>2. Held(t)' /\ Awaits(t)' /\ Loyal(t)'
    BY <1>1, <2>1 DEF Faithful, Held, Awaits, Loyal, Announcing, Holder, Warned, Notified
  <2>3. Agree(t)'
    BY <1>1, <2>1 DEF Faithful, Agree, Claims, Announcing, Holder, Warned, Notified, UserOf
  <2>. QED  BY <2>2, <2>3 DEF Faithful
<1>. QED  BY <1>2, <1>3, <1>4 DEF IInv, Rest

\* Everything above holds in every state the tabs and the server reach.
THEOREM InvariantHolds == Spec => []IInv
BY InitInv, NextInv, StutterInv, PTL DEF Spec

-----------------------------------------------------------------------------
(* Who waits for a refresh *)

\* A refresh under way has its place in the queue for the lock, and who joined one waits
\* for one that is under way.
Queued(t) == \E i \in DOMAIN queue : queue[i].tab = t /\ queue[i].kind = "refresh"
Waits(t) ==
    /\ tab[t].flight # None => Queued(t)
    /\ tab[t].call.step = "joined" => tab[t].flight # None
Waiting == \A t \in Tabs : Waits(t)

\* What a step makes of a tab: nobody waits in it any more, or whoever did.
Freed(d) == d.flight = None /\ d.call.step # "joined"
Still(d, e) == d.flight = e.flight /\ (d.call.step = "joined" => e.call.step = "joined")

LEMMA WaitsFields ==
    \A d \in Tab :
        /\ \A token \in Token : Still(Replaced(d, token), d) /\ Freed(Renewed(d, token))
        /\ \A e \in {d, Cleared(d), Booting(d), Rebooting(d), Refused(d), Answered(d)} : Still(e, d)
        /\ Still(Cleared(Answered(d)), d)
        /\ Freed(Landed(d)) /\ Freed(Cleared(Landed(d)))
        /\ Freed(Document)
<1>1. NoCall.step = "none"
  BY DEF NoCall
<1>2. ASSUME NEW d \in Tab, NEW token \in Token
      PROVE  Still(Replaced(d, token), d) /\ Freed(Renewed(d, token))
  <2>. DEFINE r == Replaced(d, token)
  <2>1. r \in Tab /\ r.flight = d.flight /\ r.call.step = d.call.step
    BY <1>2, ReplacedFields
  <2>2. Renewed(d, token) =
            [r EXCEPT !.status = "authenticated", !.flight = None,
                      !.call = IF @.step = "joined" THEN [@ EXCEPT !.step = "retried", !.bearer = token]
                               ELSE @]
    BY DEF Renewed
  <2>. HIDE DEF r
  <2>3. Freed(Renewed(d, token))
    BY <2>1, <2>2 DEF Freed, Tab, Call
  <2>. QED  BY <2>1, <2>3 DEF Still, r
<1>3. ASSUME NEW d \in Tab
      PROVE  \A e \in {Cleared(d), Rebooting(d), Refused(d)} :
                 e.flight = d.flight /\ e.call.step = d.call.step
  <2>. DEFINE r == Replaced(d, None)
  <2>1. r \in Tab /\ r.flight = d.flight /\ r.call.step = d.call.step
    BY <1>3, ReplacedFields
  <2>2. /\ Cleared(d) = [r EXCEPT !.status = "unauthenticated", !.user = None,
                                  !.epoch = d.epoch + 1, !.cleared = d.epoch + 1]
        /\ Refused(d) = [r EXCEPT !.status = "unauthenticated", !.user = None]
    BY DEF Cleared, Refused
  <2>3. /\ Cleared(d).flight = r.flight /\ Cleared(d).call = r.call
        /\ Refused(d).flight = r.flight /\ Refused(d).call = r.call
    <3>. HIDE DEF r
    <3>. QED  BY <2>1, <2>2 DEF Tab
  <2>4. Cleared(d) \in Tab
    BY <1>3, MemoryTypes
  <2>5. Rebooting(d).flight = Cleared(d).flight /\ Rebooting(d).call = Cleared(d).call
    BY <2>4 DEF Rebooting, Tab
  <2>. QED  BY <2>1, <2>3, <2>5
<1>4. ASSUME NEW d \in Tab
      PROVE  Landed(d) \in Tab /\ Answered(d) \in Tab /\ Freed(Landed(d)) /\ Still(Answered(d), d)
  <2>1. Landed(d) \in Tab /\ Answered(d) \in Tab
    BY <1>4, MemoryTypes
  <2>2. Still(Answered(d), d)
    BY <1>1, <1>4 DEF Still, Answered, Tab
  <2>. DEFINE c == IF d.call.step = "joined" THEN NoCall ELSE d.call
  <2>3. c.step # "joined" /\ Landed(d) = [d EXCEPT !.flight = None, !.call = c]
    BY <1>1 DEF Landed
  <2>. HIDE DEF c
  <2>4. Freed(Landed(d))
    BY <1>4, <2>3 DEF Freed, Tab
  <2>. QED  BY <2>1, <2>2, <2>4
<1>5. ASSUME NEW d \in Tab
      PROVE  Still(Cleared(Answered(d)), d) /\ Freed(Cleared(Landed(d)))
  BY <1>3, <1>4 DEF Still, Freed
<1>6. \A d \in Tab : Still(d, d) /\ Still(Booting(d), d)
  BY DEF Still, Booting, Tab
<1>7. Freed(Document)
  BY <1>1 DEF Freed, Document
<1>8. ASSUME NEW d \in Tab
      PROVE  \A e \in {d, Cleared(d), Booting(d), Rebooting(d), Refused(d), Answered(d)} :
                 Still(e, d)
  <2>1. Still(Cleared(d), d) /\ Still(Rebooting(d), d) /\ Still(Refused(d), d)
    BY <1>3 DEF Still
  <2>. QED  BY <1>4, <1>6, <2>1
<1>. QED  BY <1>2, <1>4, <1>5, <1>7, <1>8

\* Steps that leave everybody's place in the queue, and one that frees its own tab.
LEMMA WaitingKept ==
    ASSUME Waiting, tab' = tab, \A s \in Tabs : Queued(s) => Queued(s)'
    PROVE  Waiting'
BY DEF Waiting, Waits

LEMMA WaitingMoves ==
    ASSUME TypeOK, Waiting, NEW t \in Tabs, NEW d \in Tab, Set(t, d),
           \A s \in Tabs : s # t /\ Queued(s) => Queued(s)',
           Freed(d) \/ (Still(d, tab[t]) /\ (Queued(t) => Queued(t)'))
    PROVE  Waiting'
<1>. SUFFICES ASSUME NEW s \in Tabs
              PROVE  Waits(s)'
  BY DEF Waiting
<1>1. Waits(s) /\ tab'[t] = d /\ (s # t => tab'[s] = tab[s])
  BY SetTypes DEF Waiting
<1>2. CASE s = t
  BY <1>1, <1>2 DEF Waits, Freed, Still
<1>3. CASE s # t
  BY <1>1, <1>3 DEF Waits
<1>. QED  BY <1>2, <1>3

LEMMA SameQueued ==
    ASSUME queue' = queue, NEW t
    PROVE  Queued(t) => Queued(t)'
BY DEF Queued

LEMMA TailKeepsQueued ==
    ASSUME TypeOK, queue # <<>>, Release, NEW t
    PROVE  /\ queue[1].tab # t /\ Queued(t) => Queued(t)'
           /\ queue[1].kind # "refresh" /\ Queued(t) => Queued(t)'
<1>1. /\ DOMAIN queue = 1..Len(queue) /\ Len(queue) \in Nat \ {0}
      /\ DOMAIN queue' = 1..(Len(queue) - 1)
      /\ \A i \in DOMAIN queue' : queue'[i] = queue[i + 1]
  BY QueueTypes DEF Release
<1>2. ASSUME NEW i \in DOMAIN queue, i # 1
      PROVE  i - 1 \in DOMAIN queue' /\ queue'[i - 1] = queue[i]
  BY <1>1, <1>2
<1>. QED  BY <1>2 DEF Queued

LEMMA RequestKeepsQueued ==
    ASSUME TypeOK, NEW t \in Tabs, NEW kind \in {"boot", "refresh", "login", "logout"},
           NEW epoch \in Nat, NEW user \in Users \cup {None},
           queue' = Request(t, kind, epoch, user)
    PROVE  /\ \A s : Queued(s) => Queued(s)'
           /\ kind = "refresh" => Queued(t)'
<1>. DEFINE op == [tab |-> t, kind |-> kind, epoch |-> epoch, user |-> user, step |-> "waiting"]
<1>1. /\ queue' \in Seq(Mutation) /\ Len(queue') = Len(queue) + 1
      /\ \A i \in DOMAIN queue : queue'[i] = queue[i]
      /\ queue'[Len(queue) + 1] = op
  BY RequestTypes
<1>2. /\ DOMAIN queue' = 1..(Len(queue) + 1)
      /\ DOMAIN queue = 1..Len(queue) /\ Len(queue) \in Nat
  BY <1>1, QueueTypes
<1>3. Len(queue) + 1 \in DOMAIN queue' /\ \A i \in DOMAIN queue : i \in DOMAIN queue'
  BY <1>2
<1>4. op.tab = t /\ op.kind = kind
  OBVIOUS
<1>. HIDE DEF op
<1>. QED  BY <1>1, <1>3, <1>4 DEF Queued

LEMMA HeadKeepsQueued ==
    ASSUME TypeOK, queue # <<>>, NEW op, queue' = [queue EXCEPT ![1] = op],
           op.tab = queue[1].tab, op.kind = queue[1].kind, NEW t
    PROVE  Queued(t) => Queued(t)'
<1>1. DOMAIN queue' = DOMAIN queue /\ 1 \in DOMAIN queue
  BY QueueTypes
<1>2. \A i \in DOMAIN queue : queue'[i].tab = queue[i].tab /\ queue'[i].kind = queue[i].kind
  BY <1>1
<1>. QED  BY <1>1, <1>2 DEF Queued

LEMMA WithoutKeepsQueued ==
    ASSUME TypeOK, NEW t, queue' = Without(queue, t), NEW s, s # t
    PROVE  Queued(s) => Queued(s)'
<1>1. queue' \in Seq(Mutation) /\ Thinned(queue', queue, t)
  BY WithoutThins DEF TypeOK
<1>2. PICK f \in [1..Len(queue') -> 1..Len(queue)] :
          /\ \A i \in 1..Len(queue') : queue'[i] = queue[f[i]]
          /\ \A k \in 1..Len(queue) : queue[k].tab # t => \E i \in 1..Len(queue') : f[i] = k
  BY <1>1 DEF Thinned
<1>3. DOMAIN queue = 1..Len(queue) /\ DOMAIN queue' = 1..Len(queue')
  BY <1>1, QueueTypes
<1>. QED  BY <1>2, <1>3 DEF Queued

\* The holder of the lock goes: the refresh of its tab is over, or it was none.
LEMMA ReleaseWaits ==
    ASSUME TypeOK, Waiting, queue # <<>>, Release, NEW d \in Tab, Set(queue[1].tab, d),
           Freed(d) \/ (queue[1].kind # "refresh" /\ Still(d, tab[queue[1].tab]))
    PROVE  Waiting'
<1>1. queue[1].tab \in Tabs
  BY QueueTypes DEF Mutation
<1>2. ASSUME NEW t \in Tabs, t = queue[1].tab
      PROVE  Waiting'
  BY <1>2, TailKeepsQueued, WaitingMoves
<1>. QED  BY <1>1, <1>2

LEMMA LeaveWaits ==
    ASSUME TypeOK, Waiting, queue # <<>>, Release, tab' = tab, queue[1].kind # "refresh"
    PROVE  Waiting'
BY TailKeepsQueued, WaitingKept

LEMMA MissesWaits ==
    ASSUME TypeOK, Waiting, queue # <<>>, Misses
    PROVE  Waiting'
<1>. DEFINE d == tab[queue[1].tab]
<1>1. queue[1].tab \in Tabs /\ d \in Tab
  BY QueueTypes DEF Mutation, TypeOK
<1>2. PICK e : /\ Set(queue[1].tab, e)
               /\ \/ queue[1].kind = "refresh" /\ e \in {Landed(d), Cleared(Landed(d))}
                  \/ queue[1].kind # "refresh" /\ e \in {d, Refused(d)}
  <2>1. \/ queue[1].kind = "refresh" /\ (Set(queue[1].tab, Landed(d)) \/ Set(queue[1].tab, Cleared(Landed(d))))
        \/ queue[1].kind # "refresh" /\ (Set(queue[1].tab, d) \/ Set(queue[1].tab, Refused(d)))
    BY DEF Misses
  <2>. QED  BY <2>1
<1>3. e \in Tab
  <2>1. {Landed(d), Refused(d), d} \subseteq Tab
    BY <1>1, MemoryTypes
  <2>2. Cleared(Landed(d)) \in Tab
    BY <2>1, MemoryTypes
  <2>. QED  BY <1>2, <2>1, <2>2
<1>4. Freed(e) \/ (queue[1].kind # "refresh" /\ Still(e, d))
  BY <1>1, <1>2, WaitsFields
<1>5. Release
  BY DEF Misses
<1>. QED  BY <1>2, <1>3, <1>4, <1>5, ReleaseWaits

LEMMA ArrivesWaits ==
    ASSUME TypeOK, Waiting, queue # <<>>, NEW u \in Users, Arrives(u)
    PROVE  Waiting'
<1>. DEFINE d == tab[queue[1].tab]
            token == Granted(u, queue[1])
<1>1. queue[1].tab \in Tabs /\ d \in Tab /\ token \in Token
  BY QueueTypes DEF Mutation, TypeOK, Granted, Token
<1>2. PICK e : /\ Set(queue[1].tab, e)
               /\ \/ queue[1].kind = "refresh" /\ e \in {Landed(d), Renewed(d, token)}
                  \/ queue[1].kind # "refresh" /\ e \in {d, Replaced(d, token)}
  <2>1. \/ queue[1].kind = "refresh" /\ (Set(queue[1].tab, Landed(d)) \/ Set(queue[1].tab, Renewed(d, token)))
        \/ queue[1].kind # "refresh" /\ (Set(queue[1].tab, d) \/ Set(queue[1].tab, Replaced(d, token)))
    BY DEF Arrives
  <2>. QED  BY <2>1
<1>3. e \in Tab
  BY <1>1, <1>2, MemoryTypes
<1>4. Freed(e) \/ (queue[1].kind # "refresh" /\ Still(e, d))
  BY <1>1, <1>2, WaitsFields
<1>5. Release
  BY DEF Arrives
<1>. QED  BY <1>2, <1>3, <1>4, <1>5, ReleaseWaits

LEMMA HolderWaits ==
    ASSUME TypeOK, Sessions, Line, Waiting, HolderSteps
    PROVE  Waiting'
<1>1. ASSUME NEW kinds, NEW step, Holder(kinds, step)
      PROVE  queue # <<>> /\ queue[1].kind \in kinds
  BY <1>1 DEF Holder
<1>2. queue # <<>> => /\ queue[1] \in Mutation /\ queue[1].tab \in Tabs
                      /\ tab[queue[1].tab] \in Tab
  BY QueueTypes DEF Mutation, TypeOK
<1>3. CASE GrantStale
  <2>. DEFINE d == tab[queue[1].tab]
  <2>1. queue # <<>> /\ Release
    BY <1>1, <1>3 DEF GrantStale
  <2>2. CASE queue[1].kind = "refresh"
    <3>1. Set(queue[1].tab, Landed(d)) /\ Landed(d) \in Tab /\ Freed(Landed(d))
      BY <1>2, <1>3, <2>1, <2>2, MemoryTypes, WaitsFields DEF GrantStale
    <3>. QED  BY <2>1, <3>1, ReleaseWaits
  <2>3. CASE queue[1].kind # "refresh"
    <3>1. Set(queue[1].tab, d) /\ d \in Tab /\ Still(d, d)
      BY <1>2, <1>3, <2>1, <2>3, WaitsFields DEF GrantStale
    <3>. QED  BY <2>1, <2>3, <3>1, ReleaseWaits
  <2>. QED  BY <2>2, <2>3
<1>4. CASE Grant
  <2>. DEFINE op == [queue[1] EXCEPT !.step = "sent"]
  <2>1. queue # <<>> /\ queue' = [queue EXCEPT ![1] = op] /\ tab' = tab
    BY <1>1, <1>4 DEF Grant
  <2>2. op.tab = queue[1].tab /\ op.kind = queue[1].kind
    BY <1>2, <2>1 DEF Mutation
  <2>. HIDE DEF op
  <2>. QED  BY <2>1, <2>2, HeadKeepsQueued, WaitingKept
<1>5. CASE GrantLogin
  <2>. DEFINE t == queue[1].tab
              op == [queue[1] EXCEPT !.step = "sent", !.epoch = tab[t].epoch + 1]
              d == [tab[t] EXCEPT !.status = "bootstrapping", !.epoch = @ + 1]
  <2>1. queue # <<>> /\ queue' = [queue EXCEPT ![1] = op] /\ Set(t, d)
    BY <1>1, <1>5 DEF GrantLogin
  <2>2. op.tab = queue[1].tab /\ op.kind = queue[1].kind
    BY <1>2, <2>1 DEF Mutation
  <2>3. d \in Tab /\ Still(d, tab[t])
    <3>1. \A e \in Tab, n \in Nat :
              /\ [e EXCEPT !.status = "bootstrapping", !.epoch = n] \in Tab
              /\ Still([e EXCEPT !.status = "bootstrapping", !.epoch = n], e)
      BY DEF Tab, Status, Still
    <3>2. tab[t] \in Tab /\ tab[t].epoch + 1 \in Nat
      BY <1>2, <2>1, TabTypes
    <3>. QED  BY <3>1, <3>2
  <2>4. ASSUME NEW s
        PROVE  Queued(s) => Queued(s)'
    <3>. HIDE DEF op
    <3>. QED  BY <2>1, <2>2, HeadKeepsQueued
  <2>5. ASSUME NEW s \in Tabs, s = queue[1].tab, NEW e \in Tab, Set(s, e), Still(e, tab[s])
        PROVE  Waiting'
    BY <2>4, <2>5, WaitingMoves
  <2>. HIDE DEF d
  <2>. QED  BY <1>2, <2>1, <2>3, <2>5
<1>6. ASSUME NEW lost \in BOOLEAN, Rotate(lost)
      PROVE  Waiting'
  <2>1. queue # <<>>
    BY <1>1, <1>6 DEF Rotate
  <2>2. CASE lost
    BY <1>6, <2>1, <2>2, MissesWaits DEF Rotate
  <2>3. CASE ~lost
    <3>1. jar # None /\ IsCurrent(jar) /\ RotateFamily(jar) /\ Arrives(UserOf(jar))
      BY <1>6, <2>3 DEF Rotate
    <3>2. UserOf(jar) \in Users
      BY <3>1, IssuedTypes
    <3>. QED  BY <2>1, <3>1, <3>2, ArrivesWaits
  <2>. QED  BY <2>2, <2>3
<1>7. CASE RefreshFails \/ RefreshRejected
  BY <1>1, <1>7, MissesWaits DEF RefreshFails, RefreshRejected
<1>8. CASE LoginAccepted
  <2>. DEFINE t == queue[1].tab
              op == [queue[1] EXCEPT !.step = "profile"]
              token == Granted(queue[1].user, queue[1])
              d == Replaced(tab[t], token)
  <2>1. queue # <<>> /\ queue[1].kind = "login"
    BY <1>1, <1>8 DEF LoginAccepted
  <2>2. CASE tab[t].epoch # queue[1].epoch
    BY <1>8, <2>1, <2>2, LeaveWaits DEF LoginAccepted
  <2>3. CASE tab[t].epoch = queue[1].epoch
    <3>1. queue' = [queue EXCEPT ![1] = op] /\ Set(t, d)
      BY <1>8, <2>3 DEF LoginAccepted
    <3>2. op.tab = queue[1].tab /\ op.kind = queue[1].kind
      BY <1>2, <2>1 DEF Mutation
    <3>3. token \in Token
      <4>1. queue[1].user # None
        BY <2>1, QueueTypes DEF Line
      <4>. QED  BY <1>2, <2>1, <4>1 DEF Granted, Token, Mutation
    <3>4. d \in Tab /\ Still(d, tab[t])
      BY <1>2, <2>1, <3>3, MemoryTypes, WaitsFields
    <3>5. ASSUME NEW s
          PROVE  Queued(s) => Queued(s)'
      <4>. HIDE DEF op
      <4>. QED  BY <2>1, <3>1, <3>2, HeadKeepsQueued
    <3>6. ASSUME NEW s \in Tabs, s = queue[1].tab, NEW e \in Tab, Set(s, e), Still(e, tab[s])
          PROVE  Waiting'
      BY <3>5, <3>6, WaitingMoves
    <3>. HIDE DEF d
    <3>. QED  BY <1>2, <2>1, <3>1, <3>4, <3>6
  <2>. QED  BY <2>2, <2>3
<1>9. CASE LoginRejected \/ LoginCompletes
  <2>1. queue # <<>> /\ queue[1].kind = "login" /\ Release
    BY <1>1, <1>9 DEF LoginRejected, LoginCompletes
  <2>2. PICK e : /\ Set(queue[1].tab, e)
                 /\ e \in {[tab[queue[1].tab] EXCEPT !.status = "unauthenticated"],
                           [tab[queue[1].tab] EXCEPT !.status = "authenticated",
                                                     !.user = queue[1].user]}
    BY <1>9 DEF LoginRejected, LoginCompletes
  <2>3. e \in Tab /\ Still(e, tab[queue[1].tab])
    BY <1>2, <2>1, <2>2 DEF Tab, Status, Mutation, Still
  <2>. QED  BY <2>1, <2>2, <2>3, ReleaseWaits
<1>10. CASE LoginSilent \/ (\E opened \in BOOLEAN : LoginFails(opened))
  <2>1. queue # <<>> /\ queue[1].kind = "login" /\ Release /\ tab' = tab
    BY <1>1, <1>10 DEF LoginSilent, LoginFails
  <2>. QED  BY <2>1, LeaveWaits
<1>11. CASE Logout \/ LogoutFails
  <2>1. queue # <<>> /\ queue[1].kind = "logout" /\ Release /\ tab' = tab
    BY <1>1, <1>11 DEF Logout, LogoutFails
  <2>. QED  BY <2>1, LeaveWaits
<1>. QED  BY <1>3, <1>4, <1>5, <1>6, <1>7, <1>8, <1>9, <1>10, <1>11 DEF HolderSteps

LEMMA TabWaits ==
    ASSUME TypeOK, Waiting, NEW t \in Tabs, TabSteps(t)
    PROVE  Waiting'
<1>. DEFINE d == tab[t]
<1>1. d \in Tab /\ d.epoch \in Nat /\ d.epoch + 1 \in Nat
  BY DEF TypeOK, Tab
<1>2. \A e \in {d, Cleared(d), Booting(d), Rebooting(d), Answered(d), Cleared(Answered(d))} :
          e \in Tab /\ Still(e, d)
  <2>1. {d, Cleared(d), Booting(d), Rebooting(d), Answered(d)} \subseteq Tab
    BY <1>1, MemoryTypes
  <2>2. Cleared(Answered(d)) \in Tab
    BY <2>1, MemoryTypes
  <2>. QED  BY <1>1, <2>1, <2>2, WaitsFields
<1>3. ASSUME NEW e \in Tab, Set(t, e), Still(e, d), \A s \in Tabs : Queued(s) => Queued(s)'
      PROVE  Waiting'
  BY <1>3, WaitingMoves
<1>4. ASSUME NEW kind \in {"boot", "refresh", "login", "logout"}, NEW epoch \in Nat,
             NEW user \in Users \cup {None}, queue' = Request(t, kind, epoch, user)
      PROVE  (\A s \in Tabs : Queued(s) => Queued(s)') /\ (kind = "refresh" => Queued(t)')
  BY <1>4, RequestKeepsQueued
<1>5. queue' = queue => \A s \in Tabs : Queued(s) => Queued(s)'
  BY SameQueued
\* A refresh begins, and with it its place in the queue.
<1>6. ASSUME NEW e \in Tab, Set(t, e), queue' = Request(t, "refresh", d.epoch, None)
      PROVE  (e.call.step = "joined" => e.flight # None) => Waiting'
  <2>. SUFFICES ASSUME e.call.step = "joined" => e.flight # None, NEW s \in Tabs
                PROVE  Waits(s)'
    BY DEF Waiting
  <2>1. Waits(s) /\ tab'[t] = e /\ (s # t => tab'[s] = tab[s])
    BY <1>6, SetTypes DEF Waiting
  <2>2. (Queued(s) => Queued(s)') /\ Queued(t)'
    BY <1>1, <1>4, <1>6
  <2>. QED  BY <2>1, <2>2 DEF Waits
<1>. HIDE DEF d
<1>7. CASE Open(t)
  <2>1. Set(t, Booting(d)) /\ queue' = Request(t, "boot", d.epoch + 1, None)
    BY <1>7 DEF Open, d
  <2>. QED  BY <1>1, <1>2, <1>3, <1>4, <2>1
<1>8. CASE SignOut(t)
  <2>1. Bearer(t) \in Users \cup {None}
    BY <1>1 DEF Bearer, Tab, Token, d
  <2>2. Set(t, Cleared(d)) /\ queue' = Request(t, "logout", 0, Bearer(t))
    BY <1>8 DEF SignOut, d
  <2>. QED  BY <1>2, <1>3, <1>4, <2>1, <2>2
<1>9. ASSUME NEW u \in Users, SignIn(t, u)
      PROVE  Waiting'
  BY <1>4, <1>9, WaitingKept DEF SignIn
<1>10. CASE Refresh(t)
  <2>1. Set(t, Refreshing(d)) /\ queue' = Request(t, "refresh", d.epoch, None)
    BY <1>10 DEF Refresh, d
  <2>2. Refreshing(d) \in Tab
    BY <1>1, MemoryTypes
  <2>3. Refreshing(d).flight # None
    BY <1>1, NoneAssumption DEF Refreshing, Tab
  <2>. QED  BY <1>6, <2>1, <2>2, <2>3
<1>11. CASE SendCall(t)
  <2>. DEFINE c == [NoCall EXCEPT !.step = "sent", !.epoch = d.epoch, !.user = Sender(t)]
  <2>1. Sender(t) \in Users \cup {None}
    BY <1>1 DEF Sender, Tab, Token, d
  <2>2. c \in Call /\ c.step = "sent"
    BY <1>1, <2>1 DEF NoCall, Call
  <2>3. Set(t, [d EXCEPT !.call = c]) /\ queue' = queue
    BY <1>11 DEF SendCall, d
  <2>. HIDE DEF c
  <2>4. [d EXCEPT !.call = c] \in Tab /\ Still([d EXCEPT !.call = c], d)
    BY <1>1, <2>2 DEF Tab, Still
  <2>. QED  BY <1>3, <1>5, <2>3, <2>4
<1>12. CASE Close(t) \/ \E stored \in BOOLEAN : CloseDuringRotation(t, stored)
  <2>1. Abandon(t)
    BY <1>12 DEF Close, CloseDuringRotation
  <2>2. Set(t, Document) /\ queue' = Without(queue, t)
    BY <2>1 DEF Abandon
  <2>3. Document \in Tab /\ Freed(Document)
    BY <1>1, MemoryTypes, WaitsFields
  <2>. QED  BY <2>2, <2>3, WithoutKeepsQueued, WaitingMoves
<1>13. CASE Hear(t)
  <2>1. CASE Set(t, Cleared(d)) /\ queue' = queue
    BY <1>2, <1>3, <1>5, <2>1
  <2>2. CASE Set(t, Rebooting(d)) /\ queue' = Request(t, "boot", d.epoch + 1, None)
    BY <1>1, <1>2, <1>3, <1>4, <2>2
  <2>. QED  BY <1>13, <2>1, <2>2 DEF Hear, d
<1>14. ASSUME GiveUp(t), queue' = queue
       PROVE  Waiting'
  <2>1. CASE Set(t, Cleared(Answered(d)))
    BY <1>2, <1>3, <1>5, <1>14, <2>1
  <2>2. CASE Set(t, Answered(d))
    BY <1>2, <1>3, <1>5, <1>14, <2>2
  <2>. QED  BY <1>14, <2>1, <2>2 DEF GiveUp, d
<1>15. CASE CallAnswered(t)
  <2>1. Set(t, Answered(d)) /\ queue' = queue
    BY <1>15 DEF CallAnswered, d
  <2>. QED  BY <1>2, <1>3, <1>5, <2>1
<1>16. CASE RetryRejected(t)
  BY <1>14, <1>16 DEF RetryRejected
<1>17. CASE CallRejected(t)
  <2>1. CASE Set(t, Answered(d)) /\ queue' = queue
    BY <1>2, <1>3, <1>5, <2>1
  <2>2. CASE /\ Set(t, [d EXCEPT !.call.step = "retried", !.call.bearer = d.token])
             /\ queue' = queue
    <3>. DEFINE c == [d.call EXCEPT !.step = "retried", !.bearer = d.token]
    <3>1. c \in Call /\ c.step = "retried"
      BY <1>1 DEF Tab, Call
    <3>2. Set(t, [d EXCEPT !.call = c])
      BY <2>2
    <3>. HIDE DEF c
    <3>3. [d EXCEPT !.call = c] \in Tab /\ Still([d EXCEPT !.call = c], d)
      BY <1>1, <3>1 DEF Tab, Still
    <3>. QED  BY <1>3, <1>5, <2>2, <3>2, <3>3
  <2>3. CASE GiveUp(t) /\ queue' = queue
    BY <1>14, <2>3
  <2>4. CASE /\ d.flight \in {None, d.epoch}
             /\ Set(t, [Refreshing(d) EXCEPT
                            !.call.step = "joined",
                            !.status = IF d.flight = None THEN "refreshing" ELSE d.status])
             /\ queue' = IF d.flight = None THEN Request(t, "refresh", d.epoch, None) ELSE queue
    <3>. DEFINE c == [d.call EXCEPT !.step = "joined"]
                st == IF d.flight = None THEN "refreshing" ELSE d.status
                e == [d EXCEPT !.status = st, !.flight = d.epoch, !.call = c]
    <3>1. c \in Call /\ st \in Status
      BY <1>1 DEF Tab, Call, Status
    <3>2. Set(t, e)
      BY <1>1, <2>4 DEF Refreshing, Tab
    <3>. HIDE DEF c, st
    <3>3. e \in Tab /\ e.flight = d.epoch /\ d.epoch # None
      BY <1>1, <3>1, NoneAssumption DEF Tab
    <3>. HIDE DEF e
    <3>4. CASE d.flight = None
      BY <1>6, <2>4, <3>2, <3>3, <3>4
    <3>5. CASE d.flight # None
      <4>. SUFFICES ASSUME NEW s \in Tabs
                    PROVE  Waits(s)'
        BY DEF Waiting
      <4>1. /\ Waits(s) /\ Waits(t) /\ tab'[t] = e /\ (s # t => tab'[s] = tab[s])
            /\ (Queued(s) => Queued(s)')
        BY <1>5, <2>4, <3>2, <3>3, <3>5, SetTypes DEF Waiting
      <4>. QED  BY <2>4, <3>3, <3>5, <4>1 DEF Waits, d
    <3>. QED  BY <3>4, <3>5
  <2>. QED  BY <1>17, <2>1, <2>2, <2>3, <2>4 DEF CallRejected, d
<1>. QED  BY <1>7, <1>8, <1>9, <1>10, <1>11, <1>12, <1>13, <1>15, <1>16, <1>17 DEF TabSteps

\* Nobody waits for a refresh that no request in the queue would bring.
LEMMA WaitingHolds == Spec => []Waiting
<1>1. Init => Waiting
  <2>1. Init => tab = [t \in Tabs |-> Document]
    BY DEF Init
  <2>2. Document.flight = None /\ Document.call.step = "none"
    BY DEF Document, NoCall
  <2>. QED  BY <2>1, <2>2 DEF Waiting, Waits
<1>2. ASSUME TypeOK, Sessions, Line, Waiting, Next
      PROVE  Waiting'
  <2>1. ASSUME NEW u \in Users, SignOutElsewhere(u)
        PROVE  Waiting'
    BY <1>2, <2>1, SameQueued, WaitingKept DEF SignOutElsewhere
  <2>2. ASSUME NEW p \in loading, NEW arrives \in BOOLEAN, LoadProfile(p, arrives)
        PROVE  Waiting'
    <3>1. p.tab \in Tabs /\ tab[p.tab] \in Tab /\ p.user \in Users
      BY <1>2 DEF TypeOK, Profile
    <3>2. PICK e : /\ Set(p.tab, e)
                   /\ e \in {tab[p.tab], Refused(tab[p.tab]),
                             [tab[p.tab] EXCEPT !.status = "authenticated", !.user = p.user]}
      BY <2>2 DEF LoadProfile
    <3>3. [tab[p.tab] EXCEPT !.status = "authenticated", !.user = p.user] \in Tab
      BY <3>1 DEF Tab, Status
    <3>4. Still([tab[p.tab] EXCEPT !.status = "authenticated", !.user = p.user], tab[p.tab])
      BY <3>1 DEF Tab, Still
    <3>5. e \in Tab /\ Still(e, tab[p.tab])
      BY <3>1, <3>2, <3>3, <3>4, MemoryTypes, WaitsFields
    <3>6. queue' = queue
      BY <2>2 DEF LoadProfile
    <3>. QED  BY <1>2, <3>1, <3>2, <3>5, <3>6, SameQueued, WaitingMoves
  <2>. QED  BY <1>2, <2>1, <2>2, HolderWaits, TabWaits DEF Next
<1>3. Waiting /\ UNCHANGED vars => Waiting'
  BY DEF Waiting, Waits, Queued, vars
<1>4. IInv => TypeOK /\ Sessions /\ Line
  BY DEF IInv
<1>. QED  BY <1>1, <1>2, <1>3, <1>4, InvariantHolds, PTL DEF Spec

-----------------------------------------------------------------------------
(* Theorems *)

\* The variables of the tabs, the queue for the lock and the server keep their types.
THEOREM TypeCorrect == Spec => []TypeOK
<1>1. IInv => TypeOK
  BY DEF IInv
<1>. QED  BY <1>1, InvariantHolds, PTL

\* No late answer restores a session: what a tab holds is not older than the last
\* sign-out, expiry or foreign sign-in it knows of, and a tab that shows itself signed in
\* holds a token.
THEOREM NothingRestoredAlways == Spec => []NothingRestored
<1>1. IInv => NothingRestored
  <2>. SUFFICES ASSUME IInv, NEW t \in Tabs
                PROVE  /\ tab[t].token # None => tab[t].token.born >= tab[t].cleared
                       /\ tab[t].status = "authenticated" => tab[t].token # None
    BY DEF NothingRestored
  <2>. QED  BY InvTypes, TabTypes DEF Memory
<1>. QED  BY <1>1, InvariantHolds, PTL

\* The server takes a refresh of honest tabs for a replay only after an answer was lost.
THEOREM HonestUnlessLostAlways == Spec => []HonestUnlessLost
<1>1. Init => HonestUnlessLost
  BY DEF Init, HonestUnlessLost
<1>2. ASSUME IInv, HonestUnlessLost, Next
      PROVE  HonestUnlessLost'
  <2>1. seen \in Seen /\ HonestCookie
    BY <1>2 DEF IInv, TypeOK
  <2>2. ASSUME seen'.replayed = seen.replayed, seen.lost => seen'.lost
        PROVE  HonestUnlessLost'
    BY <1>2, <2>2 DEF HonestUnlessLost
  <2>3. CASE RefreshRejected
    <3>1. /\ jar # None /\ seen'.replayed = (seen.replayed \/ Consumed(jar))
          /\ seen'.lost = seen.lost
      BY <2>1, <2>3 DEF RefreshRejected, Seen
    <3>. QED  BY <1>2, <2>1, <3>1 DEF HonestUnlessLost, HonestCookie
  <2>4. CASE UNCHANGED seen
    BY <2>2, <2>4
  <2>5. ASSUME NEW lost \in BOOLEAN, Rotate(lost)
        PROVE  HonestUnlessLost'
    BY <2>1, <2>2, <2>5 DEF Rotate, Seen
  <2>6. CASE LoginAccepted \/ LoginSilent
    BY <2>1, <2>2, <2>6 DEF LoginAccepted, LoginSilent, Seen
  <2>7. CASE HolderSteps
    <3>1. CASE GrantStale \/ Grant \/ GrantLogin \/ RefreshFails \/ LoginRejected
      BY <2>4, <3>1 DEF GrantStale, Grant, GrantLogin, RefreshFails, LoginRejected
    <3>2. CASE \/ LoginCompletes \/ Logout \/ LogoutFails
               \/ \E opened \in BOOLEAN : LoginFails(opened)
      BY <2>4, <3>2 DEF LoginCompletes, Logout, LogoutFails, LoginFails
    <3>. QED  BY <2>3, <2>5, <2>6, <2>7, <3>1, <3>2 DEF HolderSteps
  <2>8. ASSUME NEW t \in Tabs, TabSteps(t)
        PROVE  HonestUnlessLost'
    <3>1. CASE Close(t)
      BY <2>1, <2>2, <3>1 DEF Close, Seen
    <3>2. ASSUME NEW stored \in BOOLEAN, CloseDuringRotation(t, stored)
          PROVE  HonestUnlessLost'
      BY <2>1, <2>2, <3>2 DEF CloseDuringRotation, Seen
    <3>3. CASE Open(t) \/ SignOut(t) \/ Refresh(t) \/ SendCall(t) \/ \E u \in Users : SignIn(t, u)
      BY <2>4, <3>3 DEF Open, SignOut, Refresh, SendCall, SignIn
    <3>4. CASE Hear(t) \/ CallAnswered(t) \/ CallRejected(t) \/ RetryRejected(t)
      BY <2>4, <3>4 DEF Hear, CallAnswered, CallRejected, RetryRejected
    <3>. QED  BY <2>8, <3>1, <3>2, <3>3, <3>4 DEF TabSteps
  <2>9. ASSUME NEW u \in Users, SignOutElsewhere(u)
        PROVE  HonestUnlessLost'
    BY <2>4, <2>9 DEF SignOutElsewhere
  <2>10. ASSUME NEW p \in loading, NEW arrives \in BOOLEAN, LoadProfile(p, arrives)
         PROVE  HonestUnlessLost'
    BY <2>4, <2>10 DEF LoadProfile
  <2>. QED  BY <1>2, <2>7, <2>8, <2>9, <2>10 DEF Next
<1>3. HonestUnlessLost /\ UNCHANGED vars => HonestUnlessLost'
  BY DEF HonestUnlessLost, vars
<1>. QED  BY <1>1, <1>2, <1>3, InvariantHolds, PTL DEF Spec

\* When nobody has the lock or waits for it, no tab waits for a refresh; when everything has
\* settled, every tab shows the user of its token and of the cookie, unless a sign-in died
\* before it was announced.
THEOREM TabsAgreeAtRestAlways == Spec => []TabsAgreeAtRest
<1>1. IInv /\ Waiting => TabsAgreeAtRest
  <2>. SUFFICES ASSUME IInv, Waiting
                PROVE  TabsAgreeAtRest
    OBVIOUS
  <2>1. ASSUME queue = <<>>, NEW t \in Tabs
        PROVE  tab[t].flight = None /\ tab[t].call.step # "joined"
    <3>1. ~Queued(t) /\ Waits(t)
      BY <2>1 DEF Queued, Waiting
    <3>. QED  BY <3>1 DEF Waits
  <2>2. ASSUME Quiet, ~seen.silent, NEW t \in Tabs, tab[t].status = "authenticated"
        PROVE  /\ tab[t].user # None => tab[t].user = tab[t].token.user
               /\ jar # None => tab[t].token.user = UserOf(jar)
    <3>1. ~Warned(t) /\ ~Announcing
      BY <2>2 DEF Quiet, Warned, Notified, Announcing, Holder
    <3>2. \A u, v \in Users : Claims(t, u) /\ Claims(t, v) => u = v
      BY <3>1 DEF IInv, Rest, Faithful, Agree
    <3>3. /\ tab[t].token # None /\ tab[t].token.user \in Users
          /\ tab[t].user \in Users \cup {None}
          /\ jar # None => UserOf(jar) \in Users
      BY <2>2, InvTypes, TabTypes, IssuedTypes DEF Memory
    <3>. QED  BY <3>2, <3>3 DEF Claims
  <2>. QED  BY <2>1, <2>2 DEF TabsAgreeAtRest
<1>. QED  BY <1>1, InvariantHolds, WaitingHolds, PTL

\* A request is retried for the user it was sent for, unless news of another's sign-in is
\* on its way or never came.
THEOREM RetriesKeepTheirUserAlways == Spec => []RetriesKeepTheirUser
<1>1. IInv => RetriesKeepTheirUser
  <2>. SUFFICES ASSUME IInv, NEW t \in Tabs, tab[t].call.step = "retried",
                       tab[t].call.epoch = tab[t].epoch,
                       tab[t].call.user \notin {None, tab[t].call.bearer.user}
                PROVE  seen.silent \/ \E i \in DOMAIN inbox[t] : inbox[t][i] = "changed"
    BY DEF RetriesKeepTheirUser
  <2>1. Loyal(t)
    BY DEF IInv, Rest, Faithful
  <2>. QED  BY <2>1 DEF Loyal, Warned, Notified
<1>. QED  BY <1>1, InvariantHolds, PTL
===============================================================================
