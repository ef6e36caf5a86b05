-------------------------------- MODULE AuthTabs --------------------------------
(***************************************************************************)
(* The tabs of one browser: frontend/src/lib/auth-coordinator.ts, the      *)
(* token memory behind it and the 401 recovery of the API client, over the *)
(* server's promise about families of sessions (SessionFamilies).          *)
(*                                                                         *)
(* Every tab has an epoch that each sign-in, sign-out and expiry advances, *)
(* an access token in memory and at most one refresh under way.  Requests  *)
(* that may set the shared cookie run one at a time under the origin-wide  *)
(* Web Lock 'aigold-auth-mutation', first come, first served; an answer is *)
(* dropped if the epoch has moved on meanwhile.  Tabs tell each other of   *)
(* sign-ins and sign-outs by messages that may take any time.              *)
(*                                                                         *)
(* A document that is closed is replaced by a fresh one in the same tab.   *)
(* The access token is whose it is and the epoch it was asked for in; the  *)
(* recovery without Web Locks, for pages outside a secure context, is left *)
(* out, and so is fetchMe, which no screen calls.                          *)
(***************************************************************************)
EXTENDS Naturals, Sequences

CONSTANTS
    Tabs,
    Users,
    MaxSessions,  \* bound on the sessions the server ever opens
    MaxActs,      \* bound on what users and the world do
    None          \* no token, no cookie, no user, no refresh under way

ASSUME BoundsAssumption == {MaxSessions, MaxActs} \subseteq Nat /\ MaxSessions > 0

SessionIds == 1..MaxSessions

VARIABLES
    family,   \* the server: see SessionFamilies
    lineage,  \* lineage[i]: family of the i-th session the server opened
    jar,      \* the refresh cookie, shared by the tabs
    queue,    \* requests for the Web Lock; the first one holds it
    tab,      \* tab[t]: coordinator and token memory of t
    loading,  \* bootstraps that wait for the profile, outside the lock
    inbox,    \* inbox[t]: broadcasts not yet handled by t
    acts,     \* how often users and the world have acted
    seen      \* what has ever happened, for the properties

vars == <<family, lineage, jar, queue, tab, loading, inbox, acts, seen>>

Server == INSTANCE SessionFamilies WITH Over <- None, NoFamily <- None

Token == [user : Users, born : Nat]
ASSUME NoneAssumption == None \notin Nat \cup Users \cup Token \cup Server!Family

Status == {"idle", "bootstrapping", "refreshing", "authenticated", "unauthenticated"}

\* A business request of the API client: the epoch it was sent in, whether the token
\* has been replaced since, for whom it was sent and which its retry carries.
Call ==
    [step : {"none", "sent", "joined", "retried"}, epoch : Nat, newer : BOOLEAN,
     user : Users \cup {None}, bearer : Token \cup {None}]
NoCall ==
    [step |-> "none", epoch |-> 0, newer |-> FALSE, user |-> None, bearer |-> None]

\* cleared: the epoch that the last sign-out, expiry or foreign sign-in began; flight:
\* the epoch of the refresh under way; booted: bootstrapPromise exists.
Tab ==
    [status : Status, epoch : Nat, cleared : Nat, token : Token \cup {None},
     user : Users \cup {None}, flight : Nat \cup {None}, booted : BOOLEAN, call : Call]
Document ==
    [status |-> "idle", epoch |-> 0, cleared |-> 0, token |-> None, user |-> None,
     flight |-> None, booted |-> FALSE, call |-> NoCall]

\* user: who signs in, or whose access token a logout carries.
Mutation ==
    [tab : Tabs, kind : {"boot", "refresh", "login", "logout"}, epoch : Nat,
     user : Users \cup {None}, step : {"waiting", "sent", "profile"}]
Profile == [tab : Tabs, epoch : Nat, user : Users]

\* lost: the answer to a rotation never arrived; replayed: the server took a refresh
\* for a replay; silent: a sign-in set the cookie and was never announced.
Seen == [lost : BOOLEAN, replayed : BOOLEAN, silent : BOOLEAN]

TypeOK ==
    /\ family \in [SessionIds -> Server!Family \cup {None}]
    /\ lineage \in Seq(SessionIds)
    /\ jar \in SessionIds \cup {None}
    /\ queue \in Seq(Mutation)
    /\ tab \in [Tabs -> Tab]
    /\ loading \subseteq Profile
    /\ inbox \in [Tabs -> Seq({"changed", "ended"})]
    /\ acts \in 0..MaxActs
    /\ seen \in Seen

-----------------------------------------------------------------------------
(* The server *)

Issued == Len(lineage)
UserOf(i) == family[lineage[i]].user
IsCurrent(i) == family[lineage[i]].token = i

\* Only a rotation is followed by another session of the family.
Consumed(i) == \E j \in (i + 1)..Issued : lineage[j] = lineage[i]

LiveFamilies(u) ==
    {f \in SessionIds : Server!Lives(f) /\ family[f].user = u}

Unchanged == UNCHANGED <<family, lineage>>

OpenFamily(u) ==
    /\ Issued < MaxSessions
    /\ lineage' = Append(lineage, Issued + 1)
    /\ Server!Open(u, Issued + 1)

RotateFamily(i) ==
    /\ Issued < MaxSessions
    /\ lineage' = Append(lineage, lineage[i])
    /\ Server!Rotate(lineage[i], Issued + 1)

EndFamilies(ended) == Server!End(ended) /\ UNCHANGED lineage

-----------------------------------------------------------------------------
(* The memory of a tab *)

\* setAccessToken and clearAccessToken: either starts a new generation.
Replaced(d, token) == [d EXCEPT !.token = token, !.call.newer = d.call.step = "sent"]

\* clearSession.
Cleared(d) ==
    [Replaced(d, None) EXCEPT !.status = "unauthenticated", !.user = None,
                              !.epoch = d.epoch + 1, !.cleared = d.epoch + 1]

\* bootstrap.
Booting(d) == [d EXCEPT !.status = "bootstrapping", !.epoch = d.epoch + 1, !.booted = TRUE]

\* Another tab signed in; the two epochs this takes are one, nothing comes between.
Rebooting(d) == [Cleared(d) EXCEPT !.status = "bootstrapping", !.booted = TRUE]

\* Fault: the token is taken to be the user's who asked, whom a refresh does not name.
GrantedToTheCaller(u, op) == [user |-> op.user, born |-> op.epoch]

\* The token of an answer is the token of the epoch that asked for it.
Granted(u, op) == [user |-> u, born |-> op.epoch]

\* A failed bootstrap leaves the epoch alone.
Refused(d) == [Replaced(d, None) EXCEPT !.status = "unauthenticated", !.user = None]

Refreshing(d) == [d EXCEPT !.status = "refreshing", !.flight = d.epoch]

\* The refresh is over without a token: those who joined it fail.
Landed(d) ==
    [d EXCEPT !.flight = None, !.call = IF @.step = "joined" THEN NoCall ELSE @]

\* The refresh brought a token: those who joined it retry with it.
Renewed(d, token) ==
    [Replaced(d, token) EXCEPT
        !.status = "authenticated", !.flight = None,
        !.call = IF @.step = "joined" THEN [@ EXCEPT !.step = "retried", !.bearer = token]
                 ELSE @]

\* The requests of other tabs than t.
Without(q, t) ==
    LET kept[n \in 0..Len(q)] ==
            IF n = 0 THEN <<>>
            ELSE IF q[n].tab = t THEN kept[n - 1] ELSE Append(kept[n - 1], q[n])
    IN  kept[Len(q)]

Set(t, d) == tab' = [tab EXCEPT ![t] = d]
Tell(t, message) ==
    inbox' = [s \in Tabs |-> IF s = t THEN inbox[s] ELSE Append(inbox[s], message)]
Request(t, kind, epoch, user) ==
    Append(queue, [tab |-> t, kind |-> kind, epoch |-> epoch, user |-> user,
                   step |-> "waiting"])

-----------------------------------------------------------------------------
(* What users and the world do *)

Bearer(t) == IF tab[t].token = None THEN None ELSE tab[t].token.user

Act == acts < MaxActs /\ acts' = acts + 1

\* hydrate: a document bootstraps once.
Open(t) ==
    /\ Act
    /\ ~tab[t].booted
    /\ Set(t, Booting(tab[t]))
    /\ queue' = Request(t, "boot", tab[t].epoch + 1, None)
    /\ UNCHANGED <<family, lineage, jar, loading, inbox, seen>>

\* The form is disabled while the tab is loading; nothing changes before the lock.
SignIn(t, u) ==
    /\ Act
    /\ tab[t].status \notin {"bootstrapping", "refreshing"}
    /\ queue' = Request(t, "login", 0, u)
    /\ UNCHANGED <<family, lineage, jar, tab, loading, inbox, seen>>

\* The button is on the screens of a tab that is signed in.  The tab signs out and
\* tells the others before it asks for the lock.
SignOut(t) ==
    /\ Act
    /\ tab[t].status = "authenticated"
    /\ queue' = Request(t, "logout", 0, Bearer(t))
    /\ Set(t, Cleared(tab[t]))
    /\ Tell(t, "ended")
    /\ UNCHANGED <<family, lineage, jar, loading, seen>>

\* A socket or a screen finds the token about to expire, or refused.
Refresh(t) ==
    /\ Act
    /\ tab[t].status \notin {"idle", "unauthenticated"} /\ tab[t].flight = None
    /\ Set(t, Refreshing(tab[t]))
    /\ queue' = Request(t, "refresh", tab[t].epoch, None)
    /\ UNCHANGED <<family, lineage, jar, loading, inbox, seen>>

\* A token that a sign-in found in memory and left there is nobody's in the new epoch.
Sender(t) ==
    IF tab[t].token # None /\ tab[t].token.born = tab[t].epoch THEN tab[t].token.user ELSE None

\* Every page polls the status of the system, the sign-in page too.
SendCall(t) ==
    /\ Act
    /\ tab[t].call = NoCall
    /\ Set(t, [tab[t] EXCEPT !.call = [NoCall EXCEPT !.step = "sent", !.epoch = tab[t].epoch,
                                                     !.user = Sender(t)]])
    /\ UNCHANGED <<family, lineage, jar, queue, loading, inbox, seen>>

\* Everything of the old document goes, its place in the queue too.
Abandon(t) ==
    /\ Act
    /\ Set(t, Document)
    /\ queue' = Without(queue, t)
    /\ loading' = {p \in loading : p.tab # t}
    /\ inbox' = [inbox EXCEPT ![t] = <<>>]

Close(t) ==
    /\ Abandon(t)
    /\ seen' = [seen EXCEPT !.silent =
                   @ \/ (queue # <<>> /\ queue[1].tab = t /\ queue[1].step = "profile")]
    /\ UNCHANGED <<family, lineage, jar>>

SignOutElsewhere(u) ==
    /\ Act
    /\ LiveFamilies(u) # {}
    /\ EndFamilies(LiveFamilies(u))
    /\ UNCHANGED <<jar, queue, tab, loading, inbox, seen>>

-----------------------------------------------------------------------------
(* Under the lock *)

Holder(kinds, step) == queue # <<>> /\ queue[1].kind \in kinds /\ queue[1].step = step
Release == queue' = Tail(queue)

\* executeCoordinatedRefresh: a refresh or bootstrap whose epoch is over asks for nothing.
GrantStale ==
    /\ Holder({"boot", "refresh"}, "waiting")
    /\ LET op == queue[1] IN
        /\ tab[op.tab].epoch # op.epoch
        /\ Set(op.tab, IF op.kind = "refresh" THEN Landed(tab[op.tab]) ELSE tab[op.tab])
    /\ Release
    /\ UNCHANGED <<family, lineage, jar, loading, inbox, acts, seen>>

Grant ==
    /\ Holder({"boot", "refresh", "logout"}, "waiting")
    /\ queue[1].kind # "logout" => tab[queue[1].tab].epoch = queue[1].epoch
    /\ queue' = [queue EXCEPT ![1].step = "sent"]
    /\ UNCHANGED <<family, lineage, jar, tab, loading, inbox, acts, seen>>

\* A sign-in begins its epoch when it has the lock; the old token stays for now.
GrantLogin ==
    /\ Holder({"login"}, "waiting")
    /\ LET op == queue[1] IN
        /\ queue' = [queue EXCEPT ![1].step = "sent", ![1].epoch = tab[op.tab].epoch + 1]
        /\ Set(op.tab, [tab[op.tab] EXCEPT !.status = "bootstrapping", !.epoch = @ + 1])
    /\ UNCHANGED <<family, lineage, jar, loading, inbox, acts, seen>>

\* Fault: the epoch is not compared again when the answer arrives.
ArrivesAtAnyEpoch(u) ==
    LET op == queue[1]
        d == tab[op.tab]
    IN  /\ Release
        /\ IF op.kind = "refresh"
           THEN Set(op.tab, Renewed(d, Granted(u, op))) /\ UNCHANGED loading
           ELSE /\ Set(op.tab, Replaced(d, Granted(u, op)))
                /\ loading' = loading \cup {[tab |-> op.tab, epoch |-> op.epoch, user |-> u]}
        /\ UNCHANGED inbox

\* The answer to a refresh is a token, and belongs to the epoch that asked for it.
Arrives(u) ==
    LET op == queue[1]
        d == tab[op.tab]
        token == Granted(u, op)
        fresh == d.epoch = op.epoch
    IN  /\ Release
        /\ IF op.kind = "refresh"
           THEN /\ Set(op.tab, IF fresh THEN Renewed(d, token) ELSE Landed(d))
                /\ UNCHANGED loading
           ELSE /\ Set(op.tab, IF fresh THEN Replaced(d, token) ELSE d)
                /\ loading' = IF fresh THEN loading \cup
                                  {[tab |-> op.tab, epoch |-> op.epoch, user |-> u]}
                              ELSE loading
        /\ UNCHANGED inbox

\* There is none, for whatever reason: a refresh signs every tab out.
Misses ==
    LET op == queue[1]
        d == tab[op.tab]
        fresh == d.epoch = op.epoch
    IN  /\ Release
        /\ Set(op.tab,
               IF op.kind = "refresh" THEN (IF fresh THEN Cleared(Landed(d)) ELSE Landed(d))
               ELSE IF fresh THEN Refused(d) ELSE d)
        /\ IF op.kind = "refresh" /\ fresh THEN Tell(op.tab, "ended") ELSE UNCHANGED inbox
        /\ UNCHANGED loading

\* Fault: the request is sent without credentials, so its cookie is not kept.
RotateForgetting(lost) ==
    /\ Holder({"boot", "refresh"}, "sent")
    /\ jar # None /\ IsCurrent(jar)
    /\ RotateFamily(jar)
    /\ IF lost THEN Misses ELSE Arrives(UserOf(jar))
    /\ seen' = [seen EXCEPT !.lost = @ \/ lost]
    /\ UNCHANGED <<jar, acts>>

\* POST /auth/refresh answers with the next session of the family; or the answer is
\* lost on its way.
Rotate(lost) ==
    /\ Holder({"boot", "refresh"}, "sent")
    /\ jar # None /\ IsCurrent(jar)
    /\ RotateFamily(jar)
    /\ IF lost THEN Misses /\ UNCHANGED jar ELSE Arrives(UserOf(jar)) /\ jar' = Issued + 1
    /\ seen' = [seen EXCEPT !.lost = @ \/ lost]
    /\ UNCHANGED acts

\* The request fails, or presents no cookie, or one consumed a moment ago: the cookie
\* stays.
RefreshFails ==
    /\ Holder({"boot", "refresh"}, "sent")
    /\ Misses
    /\ UNCHANGED <<family, lineage, jar, acts, seen>>

\* A revoked cookie is cleared; so is one consumed long ago, and its family is over.
RefreshRejected ==
    /\ Holder({"boot", "refresh"}, "sent")
    /\ jar # None /\ ~IsCurrent(jar)
    /\ EndFamilies({f \in {lineage[jar]} : Consumed(jar) /\ Server!Lives(f)})
    /\ jar' = None
    /\ Misses
    /\ seen' = [seen EXCEPT !.replayed = @ \/ Consumed(jar)]
    /\ UNCHANGED acts

\* POST /auth/login sets the cookie whatever becomes of the tab meanwhile.
LoginAccepted ==
    /\ Holder({"login"}, "sent")
    /\ LET op == queue[1]
           fresh == tab[op.tab].epoch = op.epoch
       IN  /\ OpenFamily(op.user)
           /\ jar' = Issued + 1
           /\ IF fresh
              THEN /\ queue' = [queue EXCEPT ![1].step = "profile"]
                   /\ Set(op.tab, Replaced(tab[op.tab], Granted(op.user, op)))
              ELSE Release /\ UNCHANGED tab
           /\ seen' = [seen EXCEPT !.silent = @ \/ ~fresh]
    /\ UNCHANGED <<loading, inbox, acts>>

LoginRejected ==
    /\ Holder({"login"}, "sent")
    /\ Set(queue[1].tab, [tab[queue[1].tab] EXCEPT !.status = "unauthenticated"])
    /\ Release
    /\ UNCHANGED <<family, lineage, jar, loading, inbox, acts, seen>>

\* An exception leaves login as it is, the status too.
LoginFails(opened) ==
    /\ Holder({"login"}, "sent")
    /\ IF opened THEN OpenFamily(queue[1].user) ELSE Unchanged
    /\ Release
    /\ UNCHANGED <<jar, tab, loading, inbox, acts, seen>>

\* Fault: the other tabs are not told.
LoginCompletesQuietly ==
    /\ Holder({"login"}, "profile")
    /\ LET op == queue[1] IN
        /\ tab[op.tab].epoch = op.epoch
        /\ Set(op.tab, [tab[op.tab] EXCEPT !.status = "authenticated", !.user = op.user])
    /\ Release
    /\ UNCHANGED <<family, lineage, jar, loading, inbox, acts, seen>>

\* The profile arrives, and every other tab hears of the sign-in.
LoginCompletes ==
    /\ Holder({"login"}, "profile")
    /\ LET op == queue[1] IN
        /\ tab[op.tab].epoch = op.epoch
        /\ Set(op.tab, [tab[op.tab] EXCEPT !.status = "authenticated", !.user = op.user])
        /\ Tell(op.tab, "changed")
    /\ Release
    /\ UNCHANGED <<family, lineage, jar, loading, acts, seen>>

\* It does not arrive, or too late: nobody hears of the sign-in.
LoginSilent ==
    /\ Holder({"login"}, "profile")
    /\ Release
    /\ seen' = [seen EXCEPT !.silent = TRUE]
    /\ UNCHANGED <<family, lineage, jar, tab, loading, inbox, acts>>

\* POST /auth/logout ends every family of the user, unless the access token is
\* someone else's; a cookie that was consumed long ago, or revoked, is only cleared.
Logout ==
    LET owner == UserOf(jar) IN
    /\ Holder({"logout"}, "sent")
    /\ jar # None /\ queue[1].user \in {None, owner}
    /\ \/ (IsCurrent(jar) \/ Consumed(jar)) /\ EndFamilies(LiveFamilies(owner))
       \/ ~IsCurrent(jar) /\ Unchanged
    /\ jar' = None
    /\ Release
    /\ UNCHANGED <<tab, loading, inbox, acts, seen>>

LogoutFails ==
    /\ Holder({"logout"}, "sent")
    /\ Release
    /\ UNCHANGED <<family, lineage, jar, tab, loading, inbox, acts, seen>>

\* The document goes while the server works on its refresh; the browser may still
\* store the cookie of the answer.
CloseDuringRotation(t, stored) ==
    /\ Holder({"boot", "refresh"}, "sent") /\ queue[1].tab = t
    /\ jar # None /\ IsCurrent(jar)
    /\ Abandon(t)
    /\ RotateFamily(jar)
    /\ jar' = IF stored THEN Issued + 1 ELSE jar
    /\ seen' = [seen EXCEPT !.lost = @ \/ ~stored]

-----------------------------------------------------------------------------
(* Outside the lock *)

\* bootstrap has its token and waits for the profile.
LoadProfile(p, arrives) ==
    LET d == tab[p.tab] IN
    /\ loading' = loading \ {p}
    /\ Set(p.tab, IF d.epoch # p.epoch THEN d
                  ELSE IF arrives THEN [d EXCEPT !.status = "authenticated", !.user = p.user]
                  ELSE Refused(d))
    /\ UNCHANGED <<family, lineage, jar, queue, inbox, acts, seen>>

\* Fault: a foreign sign-in is followed within the epoch of the tab.
HearWithinEpoch(t) ==
    /\ inbox[t] # <<>>
    /\ inbox' = [inbox EXCEPT ![t] = Tail(@)]
    /\ IF Head(inbox[t]) = "ended"
       THEN Set(t, Cleared(tab[t])) /\ UNCHANGED queue
       ELSE /\ Set(t, [Rebooting(tab[t]) EXCEPT !.epoch = tab[t].epoch])
            /\ queue' = Request(t, "boot", tab[t].epoch, None)
    /\ UNCHANGED <<family, lineage, jar, loading, acts, seen>>

Hear(t) ==
    /\ inbox[t] # <<>>
    /\ inbox' = [inbox EXCEPT ![t] = Tail(@)]
    /\ IF Head(inbox[t]) = "ended"
       THEN Set(t, Cleared(tab[t])) /\ UNCHANGED queue
       ELSE Set(t, Rebooting(tab[t])) /\ queue' = Request(t, "boot", tab[t].epoch + 1, None)
    /\ UNCHANGED <<family, lineage, jar, loading, acts, seen>>

Answered(d) == [d EXCEPT !.call = NoCall]

\* The API client gives up; unless the epoch has moved on, every tab is signed out.
GiveUp(t) ==
    IF tab[t].epoch = tab[t].call.epoch
    THEN Set(t, Cleared(Answered(tab[t]))) /\ Tell(t, "ended")
    ELSE Set(t, Answered(tab[t])) /\ UNCHANGED inbox

CallAnswered(t) ==
    /\ tab[t].call.step \in {"sent", "retried"}
    /\ Set(t, Answered(tab[t]))
    /\ UNCHANGED <<family, lineage, jar, queue, loading, inbox, acts, seen>>

\* A 401: retry with a newer token of the same epoch, or else join or begin a refresh;
\* a tab that may not refresh gives up.
CallRejected(t) ==
    LET d == tab[t]
        call == d.call
        barred == d.status = "unauthenticated" \/ d.flight \notin {None, d.epoch}
    IN  /\ call.step = "sent"
        /\ \/ /\ d.epoch # call.epoch
              /\ Set(t, Answered(d))
              /\ UNCHANGED <<queue, inbox>>
           \/ /\ d.epoch = call.epoch /\ call.newer /\ d.token # None
              /\ Set(t, [d EXCEPT !.call.step = "retried", !.call.bearer = d.token])
              /\ UNCHANGED <<queue, inbox>>
           \/ /\ d.epoch = call.epoch /\ ~(call.newer /\ d.token # None)
              /\ barred
              /\ GiveUp(t)
              /\ UNCHANGED queue
           \/ /\ d.epoch = call.epoch /\ ~(call.newer /\ d.token # None)
              /\ ~barred
              /\ Set(t, [Refreshing(d) EXCEPT
                            !.call.step = "joined",
                            !.status = IF d.flight = None THEN "refreshing" ELSE d.status])
              /\ queue' = IF d.flight = None THEN Request(t, "refresh", d.epoch, None)
                          ELSE queue
              /\ UNCHANGED inbox
        /\ UNCHANGED <<family, lineage, jar, loading, acts, seen>>

RetryRejected(t) ==
    /\ tab[t].call.step = "retried"
    /\ GiveUp(t)
    /\ UNCHANGED <<family, lineage, jar, queue, loading, acts, seen>>

-----------------------------------------------------------------------------

\* The browser opens with or without the cookie of an earlier sign-in.
Init ==
    /\ \/ /\ Server!Init /\ lineage = <<>> /\ jar = None
       \/ \E u \in Users :
             /\ family = [f \in SessionIds |->
                             IF f = 1 THEN [user |-> u, token |-> 1] ELSE None]
             /\ lineage = <<1>> /\ jar = 1
    /\ queue = <<>>
    /\ tab = [t \in Tabs |-> Document]
    /\ loading = {}
    /\ inbox = [t \in Tabs |-> <<>>]
    /\ acts = 0
    /\ seen = [lost |-> FALSE, replayed |-> FALSE, silent |-> FALSE]

HolderSteps ==
    \/ GrantStale \/ Grant \/ GrantLogin
    \/ \E lost \in BOOLEAN : Rotate(lost)
    \/ RefreshFails
    \/ RefreshRejected
    \/ LoginAccepted \/ LoginRejected \/ LoginCompletes \/ LoginSilent
    \/ \E opened \in BOOLEAN : LoginFails(opened)
    \/ Logout \/ LogoutFails

TabSteps(t) ==
    \/ Open(t) \/ SignOut(t) \/ Refresh(t) \/ SendCall(t) \/ Close(t)
    \/ \E u \in Users : SignIn(t, u)
    \/ \E stored \in BOOLEAN : CloseDuringRotation(t, stored)
    \/ Hear(t)
    \/ CallAnswered(t) \/ CallRejected(t) \/ RetryRejected(t)

Next ==
    \/ HolderSteps
    \/ \E t \in Tabs : TabSteps(t)
    \/ \E u \in Users : SignOutElsewhere(u)
    \/ \E p \in loading, arrives \in BOOLEAN : LoadProfile(p, arrives)

Spec == Init /\ [][Next]_vars

-----------------------------------------------------------------------------
(* Properties *)

\* A token in memory was asked for after the last sign-out, expiry or foreign sign-in
\* that the tab knows of, and a tab that shows itself signed in holds one: no late
\* answer restores a session that is over.
NothingRestored ==
    \A t \in Tabs :
        /\ tab[t].token # None => tab[t].token.born >= tab[t].cleared
        /\ tab[t].status = "authenticated" => tab[t].token # None

\* Tabs that only refresh, sign in and sign out under the lock never look like a
\* thief: the server takes a refresh for a replay only after an answer was lost.
HonestUnlessLost == seen.replayed => seen.lost

Quiet ==
    /\ queue = <<>> /\ loading = {}
    /\ \A t \in Tabs : inbox[t] = <<>> /\ tab[t].call = NoCall

\* When nobody has the lock or waits for it, no tab waits for a refresh.  When everything
\* has settled, every tab that is signed in shows the user its token belongs to, or none yet,
\* and the user whose cookie the next refresh would present; unless a sign-in set the cookie
\* and died before it told the other tabs.
TabsAgreeAtRest ==
    /\ queue = <<>> =>
          \A t \in Tabs : tab[t].flight = None /\ tab[t].call.step # "joined"
    /\ Quiet /\ ~seen.silent =>
          \A t \in Tabs : tab[t].status = "authenticated" =>
              /\ tab[t].user # None => tab[t].user = tab[t].token.user
              /\ jar # None => tab[t].token.user = UserOf(jar)

\* A request that was sent for one user is retried for another only while the news of
\* the other's sign-in has not arrived, or when nobody was told.
RetriesKeepTheirUser ==
    \A t \in Tabs :
        LET call == tab[t].call IN
        /\ call.step = "retried" /\ call.epoch = tab[t].epoch
        /\ call.user \notin {None, call.bearer.user}
        => seen.silent \/ \E i \in DOMAIN inbox[t] : inbox[t][i] = "changed"
=============================================================================
