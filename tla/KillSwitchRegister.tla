-------------------------- MODULE KillSwitchRegister --------------------------
(***************************************************************************)
(* What services/risk/kill_switch.py promises to the risk engine: one      *)
(* switch that is tripped or cleared, and per market-data source a count   *)
(* of consecutive stale quotes that trips the switch, in the same step, as *)
(* soon as it reaches the policy's threshold.  No clock, no lock and no    *)
(* transaction is visible here; KillSwitch.tla implements this register.   *)
(***************************************************************************)
EXTENDS Naturals

CONSTANTS
    Sources,      \* (provider, source) pairs that own a data-health row
    Threshold     \* RiskPolicy.data_health_consecutive_failures

VARIABLES
    state,        \* what the latest record of the switch says
    failures      \* failures[s]: consecutive stale evaluations of source s

rvars == <<state, failures>>

SwitchState == {"UNKNOWN", "ACTIVE", "INACTIVE"}

\* An empty table reads as UNKNOWN, on which the policy fails closed; the
\* bootstrap row of the migrations reads as INACTIVE.
RInit ==
    /\ state \in {"UNKNOWN", "INACTIVE"}
    /\ failures = [s \in Sources |-> 0]

Trip ==
    /\ state' = "ACTIVE"
    /\ UNCHANGED failures

Clear ==
    /\ state' = "INACTIVE"
    /\ UNCHANGED failures

\* A stale quote counts once, and trips the switch at the threshold.
StaleQuote(s) ==
    /\ failures' = [failures EXCEPT ![s] = @ + 1]
    /\ state' = IF failures[s] + 1 >= Threshold THEN "ACTIVE" ELSE state

\* One healthy quote forgets the whole streak; it never clears the switch.
HealthyQuote(s) ==
    /\ failures' = [failures EXCEPT ![s] = 0]
    /\ UNCHANGED state

RNext ==
    \/ Trip
    \/ Clear
    \/ \E s \in Sources : StaleQuote(s) \/ HealthyQuote(s)

RSpec == RInit /\ [][RNext]_rvars
=============================================================================
