----------------------------- MODULE AnalysisGates -----------------------------
(***************************************************************************)
(* What must hold of the input of an AI analysis before any provider is    *)
(* called: the pre-flight gates of services/ai/orchestrator.py.  A context *)
(* of the input is known by whether it is there and when its latest part   *)
(* is dated.                                                               *)
(***************************************************************************)

\* A context that is missing, that is not dated after the request, or that is.
Dating == {"missing", "past", "future"}

AnalysisInput ==
    [kill      : {"ACTIVE", "INACTIVE", "UNKNOWN"},
     granted   : BOOLEAN,   \* the risk decision is APPROVED or REDUCED
     held      : BOOLEAN,   \* its reservation is ACTIVE
     quote     : Dating \cup {"stale"},
     structure : Dating,
     news      : Dating \cup {"wanted"},  \* missing, and the strategy trades the news
     candidate : Dating,
     plan      : Dating \cup {"expired"}]

KillGate(in) ==
    CASE in.kill = "ACTIVE"   -> "BLOCKED_BY_KILL_SWITCH"
      [] in.kill = "UNKNOWN"  -> "BLOCKED_BY_UPSTREAM"
      [] in.kill = "INACTIVE" -> "none"

\* The decision must grant risk and its reservation still hold it.
RiskGate(in) ==
    IF ~in.granted THEN "BLOCKED_BY_RISK"
    ELSE IF ~in.held THEN "BLOCKED_BY_UPSTREAM"
    ELSE "none"

\* Nothing of the input is dated after it, and all that the strategy needs is there.
NoLookahead(in) ==
    /\ {in.quote, in.structure, in.candidate, in.plan} = {"past"}
    /\ in.news \in {"past", "missing"}

MarketGate(in) ==
    IF in.quote = "stale" THEN "STALE"
    ELSE IF ~NoLookahead(in) THEN "BLOCKED_BY_UPSTREAM"
    ELSE "none"

\* The status of the answer when a gate stops the request; "none" when it may run.
Gate(in) ==
    IF KillGate(in) # "none" THEN KillGate(in)
    ELSE IF RiskGate(in) # "none" THEN RiskGate(in)
    ELSE MarketGate(in)
================================================================================
