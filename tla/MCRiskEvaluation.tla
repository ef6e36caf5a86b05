--------------------------- MODULE MCRiskEvaluation ---------------------------
(* Small instances of RiskEvaluation for TLC. *)
EXTENDS RiskEvaluation, TLC

CONSTANTS c1, c2, c3

Never == -99

Interchangeable == Permutations(Workers)
Sides == [c \in Candidates |-> IF c = c2 THEN "SHORT" ELSE "LONG"]
Expiry == [c \in Candidates |-> IF c = c1 THEN 1 ELSE 9]

\* An account of ann in good health, observed at -1; bob has one of the same name.
Healthy ==
  [equity |-> 100, peak |-> 100, daily |-> -1, weekly |-> -2, losses |-> 1,
   lastLoss |-> -1, cooldown |-> -9, openRisk |-> 0]
Stored ==
  [accounts |-> {[id |-> "A", name |-> "paper", owner |-> "ann", starting |-> 100],
                 [id |-> "B", name |-> "paper", owner |-> "bob", starting |-> 0]},
   states |-> {[account |-> "A", version |-> 1, economics |-> Healthy]},
   snapshots |-> {[account |-> "A", version |-> 1, economics |-> Healthy, at |-> -9],
                  [account |-> "A", version |-> 1, economics |-> Healthy, at |-> -1]}]

\* A fresh quote, the account of ann and no release near, at time 0.
Calm ==
  [caller |-> [user |-> "ann", role |-> "TRADER"],
   ref |-> [kind |-> "name", value |-> "paper"], store |-> Stored,
   quotes |-> {[time |-> -1, bid |-> 100, ask |-> 102]},
   news |-> [calendar |-> "AVAILABLE", events |-> {[impact |-> "HIGH", scheduled |-> 9],
                                                   [impact |-> "LOW", scheduled |-> 0]}],
   specs |-> {[source |-> "simulated", server |-> NoServer, at |-> -4]},
   market |-> [source |-> "simulated", server |-> NoServer, live |-> {0}]]

\* With a release that far ahead, or behind.
Near(s, scheduled) ==
  [s EXCEPT !.news.events = @ \cup {[impact |-> "HIGH", scheduled |-> scheduled]}]
Wide(s, ask) == [s EXCEPT !.quotes = {[time |-> -1, bid |-> 100, ask |-> ask]}]

\* With an account whose only trace is a snapshot, taken that long ago.
Seen(economics, at) ==
  [Calm EXCEPT !.store.states = {},
               !.store.snapshots = {[account |-> "A", version |-> 2,
                                     economics |-> economics, at |-> at]}]
Asked(s, user, role, ref) ==
  [s EXCEPT !.caller = [user |-> user, role |-> role], !.ref = ref]
Connected(server, specs, live) ==
  [Calm EXCEPT !.market = [source |-> "mt5", server |-> server, live |-> live],
               !.specs = {[source |-> "mt5", server |-> "live", at |-> x] : x \in specs}]

\* Refused: whoever may not, a name of two accounts, an id of another's, an account
\* never observed, a market without a specification.
Refused ==
  {Asked(Calm, "ann", "VIEWER", Calm.ref), Asked(Calm, "root", "ADMIN", Calm.ref),
   Asked(Calm, "eve", "TRADER", [kind |-> "id", value |-> "A"]),
   Asked(Calm, "bob", "TRADER", Calm.ref),
   Connected(NoServer, {-1}, {0}), Connected("demo", {-1}, {})}

Quiet ==
  {Calm, Near(Calm, -2), Near(Calm, 0), Near(Wide(Calm, 105), -2), Wide(Calm, 106),
   [Calm EXCEPT !.quotes = {}],
   [Calm EXCEPT !.quotes = {[time |-> -3, bid |-> 100, ask |-> 100]}],
   [Calm EXCEPT !.news.calendar = "STALE"],
   Seen(Healthy, -5),
   Seen([Healthy EXCEPT !.losses = 3], -1), Seen([Healthy EXCEPT !.cooldown = 1], -1),
   Seen([Healthy EXCEPT !.weekly = -6], -1),
   Seen([Healthy EXCEPT !.equity = 0, !.peak = 0, !.daily = -3], -1),
   Seen([Healthy EXCEPT !.daily = -3], -5), Seen([Healthy EXCEPT !.peak = 112], -5),
   Asked(Calm, "root", "ADMIN", [kind |-> "id", value |-> "B"]),
   Connected("live", {-1}, {}), Connected("demo", {-1}, {0}),
   [Calm EXCEPT !.specs = {}, !.market.live = {-9}]}
     \cup Refused
\* Half of a risk of 1 is below what the quanta can say.
BeforeRelease == Quiet \cup {Near(Calm, 2), Near(Near(Calm, 2), -1), Near(Near(Calm, 1), 3)}
=============================================================================
