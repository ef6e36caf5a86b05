---------------------------- MODULE SessionFamilies ----------------------------
(***************************************************************************)
(* What the server promises a browser about its refresh cookie: a login    *)
(* opens a family, the family has one session that can be refreshed, a     *)
(* refresh moves the family on to the next session, and a family that is   *)
(* over stays over.  RefreshSessions implements it, with transactions,     *)
(* locks and clocks; AuthTabs is written on top of it.                     *)
(***************************************************************************)
CONSTANTS
    Users,
    SessionIds,   \* a family is named by its first session
    Over,         \* in the place of the session: nothing can be refreshed any more
    NoFamily      \* nobody has logged in under this name yet

VARIABLE family   \* family[f]: its user and the session that can be refreshed

Family == [user : Users, token : SessionIds \cup {Over}]

Lives(f) == family[f] # NoFamily /\ family[f].token # Over

Init == family = [f \in SessionIds |-> NoFamily]

Open(u, f) ==
    /\ family[f] = NoFamily
    /\ family' = [family EXCEPT ![f] = [user |-> u, token |-> f]]

Rotate(f, next) ==
    /\ Lives(f) /\ next # family[f].token
    /\ family' = [family EXCEPT ![f].token = next]

\* A logout, an expulsion or a replay ends the families it finds.
End(ended) ==
    /\ \A f \in ended : Lives(f)
    /\ family' = [f \in SessionIds |->
                     IF f \in ended THEN [family[f] EXCEPT !.token = Over] ELSE family[f]]

\* Most steps of an implementation change no family; the first conjunct says so early.
Next ==
    /\ family' # family
    /\ \/ \E u \in Users, f \in SessionIds : Open(u, f)
       \/ \E f \in SessionIds, next \in SessionIds : Rotate(f, next)
       \/ \E ended \in SUBSET SessionIds : End(ended)

Spec == Init /\ [][Next]_family
=============================================================================
