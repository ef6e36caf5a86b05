---------------------------- MODULE AnalysisBudget ----------------------------
(***************************************************************************)
(* One AI analysis request: the gates it passes, services/ai/budget.py,    *)
(* the orchestrator that funds the agents and the meta controller from it, *)
(* and the executor that runs each call in a worker process of its own,    *)
(* under the process-wide limit of workers.                                *)
(*                                                                         *)
(* The parent learns of a worker's attempts by polling a pipe, so it may   *)
(* know of fewer than the worker has begun.  Everything the parent does is *)
(* in one event loop and the budget's lock is never held across a          *)
(* suspension: an operation of the budget is one step.  Prompt and         *)
(* completion tokens, total tokens and bytes follow one discipline and are *)
(* modelled once, as tokens.                                               *)
(***************************************************************************)
EXTENDS AnalysisGates, Naturals, Sequences, FiniteSets, FiniteSetsExt

CONSTANTS
    Order,         \* get_all_analytical_agents(), in canonical order
    NewsAgent,     \* the agent that is skipped when there is no news context
    Meta,          \* the meta controller
    MaxRetries,    \* ModelConfig.max_retries
    MaxAttempts,   \* AnalysisBudgetLimits.max_provider_attempts
    MaxTokens,     \* AnalysisBudgetLimits.max_total_tokens
    PerAttempt,    \* ModelConfig.max_total_tokens
    MaxConcurrent, \* GlobalProviderLimiter.max_concurrent
    Enough,        \* ready agents that make an answer PARTIAL (4 of 6)
    Exchanges      \* the ends of an HTTP exchange that occur

Agents == {Order[i] : i \in 1..Len(Order)}
Callers == Agents \cup {Meta}

\* The error analyze() of the adapter raises for the end of an exchange, if any.
Raised ==
    [answered     |-> "ProviderResult",
     unreachable  |-> "ProviderNetworkError",
     server_error |-> "ProviderNetworkError",
     slow         |-> "ProviderTimeoutError",
     limited      |-> "ProviderRateLimitError",
     unauthorized |-> "ProviderAuthError",
     rejected     |-> "ProviderRequestError",
     malformed    |-> "ProviderSchemaError",
     oversized    |-> "ProviderBudgetExceeded"]

\* The errors the worker tries again after.
Transient == {"ProviderNetworkError", "ProviderTimeoutError", "ProviderRateLimitError"}

Messages == {Raised[x] : x \in DOMAIN Raised} \cup {"died"}

ASSUME OrderAssumption ==
    /\ Order \in Seq(Agents)
    /\ Len(Order) > 0 /\ Cardinality(Agents) = Len(Order)
    /\ Meta \notin Agents
ASSUME LimitsAssumption ==
    /\ MaxRetries \in Nat
    /\ {MaxAttempts, MaxTokens, PerAttempt, MaxConcurrent, Enough} \subseteq Nat \ {0}
    /\ Exchanges \subseteq DOMAIN Raised

VARIABLES
    input,      \* the input of the analysis
    report,     \* the status of the answer, or "none"
    phase,      \* what analyze() is doing
    round,      \* the funding pass: 0 for the base attempts, then the retries
    turn,       \* the agent whose turn it is in the pass
    clock,      \* the monotonic deadline is far, nearer than a call may be, or over
    cancelled,  \* the request has been cancelled
    used,       \* AnalysisBudget._used
    reserved,   \* AnalysisBudget._reserved
    call,       \* call[a]: the reservation and the worker of caller a
    free,       \* the semaphore of the limiter
    stuck,      \* workers that survived their kill and still run
    dead        \* survivors that have died since and were not reaped

vars == <<input, report, phase, round, turn, clock, cancelled, used, reserved, call,
          free, stuck, dead>>
request == <<input, report, phase, round, turn, clock, cancelled>>
slots == <<free, stuck, dead>>

Resource == {"attempts", "tokens"}
Limit == [attempts |-> MaxAttempts, tokens |-> MaxTokens]
Need(n) == [attempts |-> n, tokens |-> n * PerAttempt]

\* Why a call has no usable result: public_provider_failure_code, with one code for all
\* that a provider or its worker did.
Blame == {"DEADLINE", "BUDGET", "CAPACITY", "PROVIDER"}

\* started: attempts the parent knows of; begun: attempts the worker has made; worker:
\* what it is doing, or the message it has sent.
Call ==
    [state : {"waiting", "skipped", "refused", "reserved", "queued", "running", "settled"},
     authorized : Nat, started : Nat, begun : Nat,
     worker : {"idle", "trying"} \cup Messages,
     result : {"none", "READY"} \cup Blame]

TypeOK ==
    /\ input \in AnalysisInput
    /\ report \in {"none", "READY", "PARTIAL", "DEGRADED", "UNAVAILABLE", "STALE", "CANCELLED",
                   "BLOCKED_BY_KILL_SWITCH", "BLOCKED_BY_RISK", "BLOCKED_BY_UPSTREAM"}
    /\ phase \in {"gates", "funding", "agents", "meta", "over"}
    /\ round \in Nat /\ turn \in Nat
    /\ clock \in {"far", "near", "over"} /\ cancelled \in BOOLEAN
    /\ used \in [Resource -> Nat]
    /\ reserved \in [Resource -> Nat]
    /\ call \in [Callers -> Call]
    /\ free \in Nat /\ stuck \in Nat /\ dead \in Nat

-----------------------------------------------------------------------------
(* The budget *)

Remaining == [x \in Resource |-> Limit[x] - used[x] - reserved[x]]

\* The attempts a reservation of k would get.
Supported(k) == Min({k, Remaining.attempts, Remaining.tokens \div PerAttempt})

\* Fault: whatever takes too long is the deadline's fault.
LateAlways(blame) == "DEADLINE"

\* A timeout is blamed on the deadline once that has passed.
Late(blame) == IF clock = "over" THEN "DEADLINE" ELSE blame

\* reserve: as many attempts as are left, none once the deadline has passed.
Reserve(a, k) ==
    IF clock = "over" \/ Supported(k) < 1
    THEN /\ call' = [call EXCEPT ![a].state = "refused", ![a].result = Late("BUDGET")]
         /\ UNCHANGED reserved
    ELSE /\ call' = [call EXCEPT ![a].state = "reserved", ![a].authorized = Supported(k)]
         /\ reserved' = [x \in Resource |-> reserved[x] + Need(Supported(k))[x]]

\* authorize_additional_attempt.
Authorize(a) ==
    IF /\ call[a].state = "reserved"
       /\ call[a].authorized < MaxRetries + 1
       /\ \A x \in Resource : Remaining[x] >= Need(1)[x]
    THEN /\ call' = [call EXCEPT ![a].authorized = @ + 1]
         /\ reserved' = [x \in Resource |-> reserved[x] + Need(1)[x]]
    ELSE UNCHANGED <<call, reserved>>

\* Fault: only what was charged leaves the reservation.
SettleKeeping(a, n, charge, result) ==
    /\ used' = [x \in Resource |-> used[x] + charge[x]]
    /\ reserved' = [x \in Resource |-> reserved[x] - charge[x]]
    /\ call' = [call EXCEPT ![a].state = "settled", ![a].started = n,
                            ![a].worker = "idle", ![a].result = result]

\* Fault: the charge is taken from what was used.
SettleRefunding(a, n, charge, result) ==
    /\ used' = [x \in Resource |-> used[x] - charge[x]]
    /\ reserved' = [x \in Resource |-> reserved[x] - Need(call[a].authorized)[x]]
    /\ call' = [call EXCEPT ![a].state = "settled", ![a].started = n,
                            ![a].worker = "idle", ![a].result = result]

\* _finalize_locked: n attempts are known to have started; the whole reservation is
\* returned and the charge is used.
Settle(a, n, charge, result) ==
    /\ used' = [x \in Resource |-> used[x] + charge[x]]
    /\ reserved' = [x \in Resource |-> reserved[x] - Need(call[a].authorized)[x]]
    /\ call' = [call EXCEPT ![a].state = "settled", ![a].started = n,
                            ![a].worker = "idle", ![a].result = result]

-----------------------------------------------------------------------------
(* The limiter *)

\* reap_surviving_processes: the slots of the survivors that have died come back.
Reap ==
    /\ free' = free + dead
    /\ dead' = 0
    /\ UNCHANGED stuck

\* Fault: a slot is released whatever has become of the worker.
VacateAnyway(survives) ==
    /\ free' = free + 1
    /\ stuck' = IF survives THEN stuck + 1 ELSE stuck
    /\ UNCHANGED dead

\* The end of a worker: its slot is released once it is confirmed dead.
Vacate(survives) ==
    /\ IF survives THEN stuck' = stuck + 1 /\ UNCHANGED free
                   ELSE free' = free + 1 /\ UNCHANGED stuck
    /\ UNCHANGED dead

\* A survivor dies.
Perish ==
    /\ stuck > 0
    /\ stuck' = stuck - 1
    /\ dead' = dead + 1
    /\ UNCHANGED <<request, used, reserved, call, free>>

-----------------------------------------------------------------------------
(* The orchestrator *)

Init ==
    /\ input \in AnalysisInput
    /\ report = "none"
    /\ phase = "gates"
    /\ round = 0
    /\ turn = 1
    /\ clock = "far"
    /\ cancelled = FALSE
    /\ used = [x \in Resource |-> 0]
    /\ reserved = [x \in Resource |-> 0]
    /\ call = [a \in Callers |->
                 [state |-> "waiting", authorized |-> 0, started |-> 0, begun |-> 0,
                  worker |-> "idle", result |-> "none"]]
    /\ stuck \in 0..MaxConcurrent /\ free = MaxConcurrent - stuck /\ dead = 0

\* The pre-flight gates; the clock starts when they are passed.
Admit ==
    /\ phase = "gates"
    /\ report' = Gate(input)
    /\ phase' = IF Gate(input) = "none" THEN "funding" ELSE "over"
    /\ UNCHANGED <<input, round, turn, clock, cancelled, used, reserved, call, slots>>

NextTurn ==
    IF turn < Len(Order) THEN turn' = turn + 1 /\ UNCHANGED round
                         ELSE turn' = 1 /\ round' = round + 1

\* Fault: the first round reserves the retries along with the base attempt.
FundGreedily ==
    /\ phase = "funding" /\ round = 0
    /\ NextTurn
    /\ IF Order[turn] = NewsAgent /\ input.news # "past"
       THEN /\ call' = [call EXCEPT ![Order[turn]].state = "skipped"]
            /\ UNCHANGED reserved
       ELSE Reserve(Order[turn], MaxRetries + 1)
    /\ UNCHANGED <<input, report, phase, clock, cancelled, used, slots>>

\* Every eligible agent in turn reserves one base attempt.
Fund ==
    /\ phase = "funding" /\ round = 0
    /\ NextTurn
    /\ IF Order[turn] = NewsAgent /\ input.news # "past"
       THEN /\ call' = [call EXCEPT ![Order[turn]].state = "skipped"]
            /\ UNCHANGED reserved
       ELSE Reserve(Order[turn], 1)
    /\ UNCHANGED <<input, report, phase, clock, cancelled, used, slots>>

\* Then the funded agents get retries, a round at a time.
FundRetry ==
    /\ phase = "funding" /\ round \in 1..MaxRetries
    /\ NextTurn
    /\ Authorize(Order[turn])
    /\ UNCHANGED <<input, report, phase, clock, cancelled, used, slots>>

\* Every funded agent becomes a task.
Launch ==
    /\ phase = "funding" /\ round > MaxRetries
    /\ phase' = "agents"
    /\ UNCHANGED <<input, report, round, turn, clock, cancelled, used, reserved, call, slots>>

Ended(a) == call[a].state \in {"skipped", "refused", "settled"}

\* When the agents are done, the meta controller reserves what it can; a cancelled
\* request only waits for its tasks.
Synthesize ==
    /\ phase = "agents"
    /\ \A a \in Agents : Ended(a)
    /\ IF cancelled
       THEN phase' = "over" /\ report' = "CANCELLED" /\ UNCHANGED <<call, reserved>>
       ELSE phase' = "meta" /\ Reserve(Meta, MaxRetries + 1) /\ UNCHANGED report
    /\ UNCHANGED <<input, round, turn, clock, cancelled, used, slots>>

Ready == {a \in Agents : call[a].result = "READY"}

\* Fault: the agents alone make an answer READY.
StatusOfAgents ==
    CASE Ready = Agents -> "READY"
      [] Ready # Agents /\ Cardinality(Ready) >= Enough -> "PARTIAL"
      [] Ready = {} -> "UNAVAILABLE"
      [] OTHER -> "DEGRADED"

\* The status of the answer: what the agents delivered and whether the meta controller
\* made its synthesis.
Status ==
    CASE Ready = {} -> "UNAVAILABLE"
      [] Ready = Agents /\ call[Meta].result = "READY" -> "READY"
      [] /\ Ready \notin {{}, Agents} /\ call[Meta].result = "READY"
         /\ Cardinality(Ready) >= Enough -> "PARTIAL"
      [] OTHER -> "DEGRADED"

\* A cancellation ends the request without an answer, unless the failure to kill the
\* worker replaced it on its way up.
Answer ==
    /\ phase = "meta"
    /\ Ended(Meta)
    /\ phase' = "over"
    /\ report' = IF call[Meta].result = "none" THEN "CANCELLED" ELSE Status
    /\ UNCHANGED <<input, round, turn, clock, cancelled, used, reserved, call, slots>>

\* The deadline comes nearer than MIN_PROVIDER_TIMEOUT_SECONDS, then passes.
Expire ==
    /\ phase # "gates" /\ clock # "over"
    /\ clock' = IF clock = "far" THEN "near" ELSE "over"
    /\ UNCHANGED <<input, report, phase, round, turn, cancelled, used, reserved, call, slots>>

\* The server cancels the request while it waits for its calls.
Cancel ==
    /\ phase = "agents" \/ (phase = "meta" /\ ~Ended(Meta))
    /\ ~cancelled
    /\ cancelled' = TRUE
    /\ UNCHANGED <<input, report, phase, round, turn, clock, used, reserved, call, slots>>

-----------------------------------------------------------------------------
(* The executor and its workers *)

Calling(a) == IF a = Meta THEN phase = "meta" ELSE phase = "agents"

Waiting(a) == Calling(a) /\ call[a].state \in {"reserved", "queued"}

\* The call is admitted to the queue for a slot, and survivors are reaped.
Enter(a) ==
    /\ Calling(a) /\ call[a].state = "reserved"
    /\ clock = "far" /\ ~cancelled
    /\ call' = [call EXCEPT ![a].state = "queued"]
    /\ Reap
    /\ UNCHANGED <<request, used, reserved>>

\* The call is over before a worker is started: the task is cancelled, the deadline too
\* near, no slot was released in time, or the call itself could not be made.
GiveUp(a) ==
    /\ Waiting(a)
    /\ \E blame \in Blame \cup {"none"} :
         /\ CASE cancelled -> blame = "none"
              [] ~cancelled -> \/ blame = "DEADLINE" /\ clock # "far"
                               \/ blame = Late("CAPACITY") /\ call[a].state = "queued" /\ free = 0
                               \/ blame = "PROVIDER"
         /\ Settle(a, 0, Need(0), blame)
    /\ UNCHANGED <<request, slots>>

\* A slot is free: process.start(), after which the first attempt counts as started.
StartWorker(a) ==
    /\ Calling(a) /\ call[a].state = "queued"
    /\ clock = "far" /\ ~cancelled
    /\ free > 0
    /\ free' = free - 1
    /\ call' = [call EXCEPT ![a].state = "running", ![a].started = 1]
    /\ UNCHANGED <<request, used, reserved, stuck, dead>>

\* The worker announces an attempt in the pipe and makes it.
Attempt(a) ==
    /\ call[a].state = "running" /\ call[a].worker = "idle"
    /\ call' = [call EXCEPT ![a].begun = @ + 1, ![a].worker = "trying"]
    /\ UNCHANGED <<request, used, reserved, slots>>

\* The attempt ends: the worker tries again after a transient error while it may, and
\* sends anything else to the parent.
Hear(a, exchange) ==
    /\ call[a].state = "running" /\ call[a].worker = "trying"
    /\ call' = [call EXCEPT ![a].worker =
                  IF Raised[exchange] \in Transient /\ call[a].begun < call[a].authorized
                  THEN "idle" ELSE Raised[exchange]]
    /\ UNCHANGED <<request, used, reserved, slots>>

\* The worker finds no provider to ask or no time left to try again, or it dies.
Break(a) ==
    /\ call[a].state = "running" /\ call[a].worker \in {"idle", "trying"}
    /\ \E message \in {"died", "ProviderAuthError", "ProviderTimeoutError"} :
         /\ message = "ProviderAuthError" => call[a].begun = 0
         /\ message = "ProviderTimeoutError" => call[a].worker = "idle"
         /\ call' = [call EXCEPT ![a].worker = message]
    /\ UNCHANGED <<request, used, reserved, slots>>

\* What the parent knows once it has emptied the pipe.
Observed(a) == Max({call[a].started, call[a].begun})

\* The pipe holds attempts but no answer yet.
Poll(a) ==
    /\ call[a].state = "running" /\ call[a].worker \in {"idle", "trying"}
    /\ call[a].begun > call[a].started
    /\ call' = [call EXCEPT ![a].started = call[a].begun]
    /\ UNCHANGED <<request, used, reserved, slots>>

\* Fault: the attempts before the last are forgotten.
ChargeLast(n, tokens) == [attempts |-> 1, tokens |-> tokens]

\* The charge for n attempts of which the last used the given tokens.
Charge(n, tokens) == [attempts |-> n, tokens |-> (n - 1) * PerAttempt + tokens]

\* A result that respects the limits of the model is charged what it used, although the
\* reply in it may be invalid or say itself that it is not READY.
Deliver(a, tokens) ==
    /\ call[a].state = "running" /\ call[a].worker = "ProviderResult"
    /\ ~cancelled
    /\ \E result \in {"READY", "PROVIDER"} :
         Settle(a, Observed(a), Charge(Observed(a), tokens), result)
    /\ Vacate(FALSE)
    /\ UNCHANGED request

\* Any other message, a result beyond the limits or a worker that outlives its message is
\* charged the full allowance of the attempts known.
Reject(a) ==
    /\ call[a].state = "running" /\ call[a].worker \in Messages
    /\ ~cancelled
    /\ \E survives \in BOOLEAN :
         /\ Settle(a, Observed(a), Need(Observed(a)),
                   IF ~survives /\ call[a].worker = "ProviderTimeoutError"
                   THEN Late("PROVIDER") ELSE "PROVIDER")
         /\ Vacate(survives)
    /\ UNCHANGED request

\* Fault: only an answer ends a call.
TerminateAnswered(a) ==
    /\ call[a].state = "running" /\ call[a].worker \in Messages
    /\ \E survives \in BOOLEAN :
         /\ Settle(a, call[a].started, Need(call[a].started), "PROVIDER")
         /\ Vacate(survives)
    /\ UNCHANGED request

\* The time of the call or of the request is over, or the task is cancelled: the
\* worker is killed and the attempts known so far are charged in full.  A worker that
\* survives is what the call failed of.
Terminate(a) ==
    /\ call[a].state = "running"
    /\ \E survives \in BOOLEAN :
         /\ Settle(a, call[a].started, Need(call[a].started),
                   CASE survives -> "PROVIDER"
                     [] ~survives /\ cancelled -> "none"
                     [] OTHER -> Late("PROVIDER"))
         /\ Vacate(survives)
    /\ UNCHANGED request

-----------------------------------------------------------------------------

Orchestrate == Admit \/ Fund \/ FundRetry \/ Launch \/ Synthesize \/ Answer

\* The request has answered; nothing is left to do.
Rest == phase = "over" /\ UNCHANGED vars

Next ==
    \/ Orchestrate
    \/ Expire
    \/ Cancel
    \/ Perish
    \/ \E a \in Callers :
          \/ Enter(a)
          \/ GiveUp(a)
          \/ StartWorker(a)
          \/ Attempt(a)
          \/ \E exchange \in Exchanges : Hear(a, exchange)
          \/ Break(a)
          \/ Poll(a)
          \/ \E tokens \in 0..PerAttempt : Deliver(a, tokens)
          \/ Reject(a)
          \/ Terminate(a)
    \/ Rest

\* The event loop keeps running the orchestrator, the deadline comes, and then
\* asyncio.wait and wait_for cancel every call that is still open.
Fairness ==
    /\ WF_vars(Orchestrate)
    /\ WF_vars(Expire)
    /\ \A a \in Callers : WF_vars(clock = "over" /\ (GiveUp(a) \/ Terminate(a)))

Spec == Init /\ [][Next]_vars
FairSpec == Spec /\ Fairness

-----------------------------------------------------------------------------
(* Properties *)

Open == {a \in Callers : call[a].state \in {"reserved", "queued", "running"}}
Settled == {a \in Callers : call[a].state = "settled"}
Running == {a \in Callers : call[a].state = "running"}

\* Each attempt that an open call may make, and each that a settled call has made as far
\* as the parent knows.
HeldAttempts ==
    {p \in Callers \X (1..MaxRetries + 1) : p[1] \in Open /\ p[2] <= call[p[1]].authorized}
ChargedAttempts ==
    {p \in Callers \X (1..MaxRetries + 1) : p[1] \in Settled /\ p[2] <= call[p[1]].started}

\* The books balance after every reservation, retry, result, failure, timeout and
\* cancellation: what is reserved is what the open calls hold, every attempt the parent
\* has seen start is charged when its call ends, by whatever path, and the limits hold for
\* what is used and reserved together (_assert_invariants_locked never raises).
BooksBalance ==
    /\ reserved.attempts = Cardinality(HeldAttempts)
    /\ reserved.tokens = Cardinality(HeldAttempts) * PerAttempt
    /\ used.attempts = Cardinality(ChargedAttempts)
    /\ used.tokens <= Cardinality(ChargedAttempts) * PerAttempt
    /\ \A x \in Resource : used[x] + reserved[x] <= Limit[x]

\* No slot of the limiter is lost or released twice: those not free belong to a worker
\* that runs, that survived its kill, or that died since and waits to be reaped.  So no
\* more than MaxConcurrent processes ever run, survivors included.
SlotsAccounted == free + Cardinality(Running) + stuck + dead = MaxConcurrent

\* Retries never starve a base attempt, nor one agent another: an agent that found the
\* budget empty means that nobody has a retry, and the funded agents are at most one
\* attempt apart, the earlier ones ahead.
FairFunding ==
    phase = "agents" =>
        /\ \A a, b \in Agents : call[a].result = "BUDGET" => call[b].authorized <= 1
        /\ \A i, j \in 1..Len(Order) :
              i < j /\ call[Order[i]].authorized > 0 /\ call[Order[j]].authorized > 0 =>
                  call[Order[i]].authorized - call[Order[j]].authorized \in {0, 1}

\* The answer says what happened.  A result is a provider's that was asked and paid for, a
\* deadline blamed was near, a call refused for the budget or for want of a slot never had
\* a worker; and a READY or PARTIAL answer passed every gate and rests on the synthesis of
\* the meta controller and on results of enough agents.
AnswerIsTruthful ==
    /\ \A a \in Callers :
          /\ call[a].result = "READY" =>
                call[a].begun > 0 /\ call[a].started >= call[a].begun
          /\ call[a].result = "DEADLINE" => clock # "far"
          /\ call[a].result \in {"BUDGET", "CAPACITY"} => call[a].started = 0
    /\ report \in {"READY", "PARTIAL"} =>
          /\ input.kill = "INACTIVE" /\ input.granted /\ input.held /\ input.quote = "past"
          /\ call[Meta].result = "READY"
          /\ Cardinality(Ready) >= IF report = "READY" THEN Len(Order) ELSE Enough

\* Every request is answered, with workers that never reply too.
RequestEnds == <>(phase = "over")

(* What the repository says and the code does not do *)

\* budget.py: max_provider_attempts is a ceiling for one complete analysis request.
CeilingHolds == MapThenSumSet(LAMBDA a : call[a].begun, Callers) <= MaxAttempts
=============================================================================
