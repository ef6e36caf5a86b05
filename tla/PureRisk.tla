------------------------------ MODULE PureRisk ------------------------------
(***************************************************************************)
(* The risk policy of services/risk/policy_core.py, without state: what    *)
(* keeps a plan from being approved, how much risk is left ahead of a      *)
(* release, and which losses and quotes are a matter for the kill switch.  *)
(* POST /risk/evaluate (RiskEvaluation) and the risk replay of a backtest  *)
(* (Backtest) put the same operators to their own facts.                   *)
(*                                                                         *)
(* An input is                                                             *)
(*   at        : the time of the evaluation,                               *)
(*   quote     : [available, time, spread],                                *)
(*   newsRisk  : whether the policy looks at news,                         *)
(*   news      : [available, events], an event being [impact, scheduled],  *)
(*   account   : [at, equity, peak, daily, weekly, losses, lastLoss,       *)
(*                cooldown, openRisk],                                     *)
(*   spec      : when the symbol specification was observed.               *)
(* A loss or a cooldown that never was is one long past.  The portfolio,   *)
(* the switch and the candidate's lifecycle are those of RiskEvaluation;   *)
(* texts and the audit of every event are left out.                        *)
(***************************************************************************)
EXTENDS Integers, FiniteSets

CONSTANTS
  QuoteFreshness, AccountFreshness, SpecFreshness,   \* the greatest ages
  MaxSpread,
  DailyLossLimit, WeeklyLossLimit, MaxDrawdown,      \* in percent
  CooldownLosses, CooldownPeriod,
  BlackoutPre, WindowPre, WindowPost                 \* around a release

\* RiskPolicy.validate_policy; the limits of risk are those of RiskEvaluation.
RiskPolicy ==
  /\ {QuoteFreshness, AccountFreshness, SpecFreshness, MaxSpread, DailyLossLimit,
      WeeklyLossLimit, MaxDrawdown, CooldownLosses, CooldownPeriod, BlackoutPre,
      WindowPre, WindowPost} \subseteq Nat \ {0}
  /\ MaxDrawdown <= 30 /\ BlackoutPre <= WindowPre

ASSUME RiskPolicyAssumption == RiskPolicy

---------------------------------------------------------------------------
(* The shape of an input *)

PureQuoteState(q) ==
  q.available \in BOOLEAN /\ (q.available => q.time \in Int /\ q.spread \in Nat)

PureNewsState(n) ==
  /\ n.available \in BOOLEAN
  /\ n.events # {} => n.available
  /\ \A e \in n.events : e.scheduled \in Int

\* No account has an equity above its peak.
AccountSnapshot(a) ==
  [a EXCEPT !.peak = IF @ < a.equity THEN a.equity ELSE @]

PureRiskEvaluationInput(f) ==
  /\ f.at \in Int /\ f.spec \in Int /\ f.newsRisk \in BOOLEAN
  /\ PureQuoteState(f.quote) /\ PureNewsState(f.news)
  /\ {f.account.equity, f.account.peak, f.account.losses, f.account.openRisk} \subseteq Nat
  /\ f.account = AccountSnapshot(f.account)

---------------------------------------------------------------------------
(* The quote *)

QuoteSafety(f) ==
  IF ~f.quote.available THEN "UNAVAILABLE"
  ELSE IF f.at - f.quote.time > QuoteFreshness THEN "STALE"
  ELSE IF f.quote.spread > MaxSpread THEN "SPREAD_BLOCKED"
  ELSE "AVAILABLE_SAFE"

\* quote_stale_evidence, and what the data-health streak counts.
QuoteIsStale(f) == QuoteSafety(f) \in {"UNAVAILABLE", "STALE", "SPREAD_BLOCKED"}

---------------------------------------------------------------------------
(* The account *)

DailyLossBreach(a) == a.daily < 0 /\ 100 * (-a.daily) >= DailyLossLimit * a.equity
WeeklyLossBreach(a) == a.weekly < 0 /\ 100 * (-a.weekly) >= WeeklyLossLimit * a.equity
DrawdownBreach(a) ==
  /\ a.peak > 0 /\ a.equity < a.peak
  /\ 100 * (a.peak - a.equity) >= MaxDrawdown * a.peak

\* Until a cooldown that was set is over, and for a while after enough losses.
InCooldown(a, at) ==
  \/ at < a.cooldown
  \/ a.losses >= CooldownLosses /\ at < a.lastLoss + CooldownPeriod

\* The losses that trip the kill switch; those of a week do not.
LossTrips(f) ==
  \/ DailyLossBreach(f.account) /\ f.account.equity > 0
  \/ DrawdownBreach(f.account)

---------------------------------------------------------------------------
(* The news *)

NewsWindow(event, at) ==
  IF event.scheduled - BlackoutPre <= at /\ at <= event.scheduled THEN "BLACKOUT"
  ELSE IF event.scheduled - WindowPre <= at /\ at < event.scheduled THEN "PRE"
  ELSE IF event.scheduled < at /\ at <= event.scheduled + WindowPost THEN "POST"
  ELSE "CALM"

\* A blackout goes before the approach of a release, and that before another's
\* aftermath.
NewsState(f) ==
  LET windows == IF f.newsRisk
                 THEN {NewsWindow(e, f.at) : e \in {x \in f.news.events : x.impact = "HIGH"}}
                 ELSE {}
  IN IF "BLACKOUT" \in windows THEN "BLACKOUT"
     ELSE IF "PRE" \in windows THEN "PRE"
     ELSE IF "POST" \in windows THEN "POST"
     ELSE "CALM"

\* news_reduction_factor is a half.
TargetRisk(newsState, requested) ==
  IF newsState = "PRE" THEN requested \div 2 ELSE requested

---------------------------------------------------------------------------
(* The verdict *)

Blocks(f) ==
  [NEWS_UNAVAILABLE |-> f.newsRisk /\ ~f.news.available,
   NEWS_BLACKOUT |-> NewsState(f) = "BLACKOUT",
   NEWS_POST_SPREAD_BLOCKED |-> /\ NewsState(f) = "POST" /\ f.quote.available
                                /\ 5 * f.quote.spread > 4 * MaxSpread,
   ACCOUNT_STALE |-> f.at - f.account.at > AccountFreshness,
   EQUITY_NON_POSITIVE |-> f.account.equity <= 0,
   DAILY_LOSS_LIMIT |-> DailyLossBreach(f.account),
   WEEKLY_LOSS_LIMIT |-> WeeklyLossBreach(f.account),
   DRAWDOWN_LIMIT |-> DrawdownBreach(f.account),
   COOLDOWN_ACTIVE |-> InCooldown(f.account, f.at),
   SYMBOL_SPEC_STALE |-> f.at - f.spec > SpecFreshness,
   UNATTRIBUTED_OPEN_RISK |-> f.account.openRisk > 0,
   QUOTE_UNAVAILABLE |-> QuoteSafety(f) = "UNAVAILABLE",
   QUOTE_STALE |-> QuoteSafety(f) = "STALE",
   SPREAD_EXCESSIVE |-> QuoteSafety(f) = "SPREAD_BLOCKED"]

BlockedCodes(f) == {code \in DOMAIN Blocks(f) : Blocks(f)[code]}

=============================================================================
