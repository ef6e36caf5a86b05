------------------------- MODULE AnalysisBudgetProofs -------------------------
(***************************************************************************)
(* Proofs about AnalysisBudget, for every number of agents, retries and    *)
(* worker slots and every limit: the books of the budget, the slots of the *)
(* limiter, the fairness of the funding and the truth of the answer.       *)
(***************************************************************************)
EXTENDS AnalysisBudget, FiniteSetTheorems, TLAPS

-----------------------------------------------------------------------------
(* Arithmetic *)

LEMMA Division ==
    ASSUME NEW n \in Nat, NEW p \in Nat \ {0}
    PROVE  n \div p \in Nat /\ (n \div p) * p <= n
BY SMT

LEMMA ProductMonotone ==
    ASSUME NEW m \in Nat, NEW n \in Nat, NEW p \in Nat, m <= n
    PROVE  m * p \in Nat /\ m * p <= n * p
BY SMT

LEMMA ProductDistributes ==
    ASSUME NEW m \in Int, NEW n \in Int, NEW p \in Nat
    PROVE  (m + n) * p = m * p + n * p
BY SMT

LEMMA MinOfThree ==
    ASSUME NEW x \in Int, NEW y \in Int, NEW z \in Int
    PROVE  /\ Min({x, y, z}) \in {x, y, z}
           /\ Min({x, y, z}) <= x /\ Min({x, y, z}) <= y /\ Min({x, y, z}) <= z
<1>1. \E m \in {x, y, z} : \A k \in {x, y, z} : m <= k
  OBVIOUS
<1>. QED  BY <1>1 DEF Min

LEMMA MaxOfTwo ==
    ASSUME NEW x \in Int, NEW y \in Int
    PROVE  Max({x, y}) = IF x < y THEN y ELSE x
<1>1. \E m \in {x, y} : \A k \in {x, y} : m >= k
  OBVIOUS
<1>. QED  BY <1>1 DEF Max

-----------------------------------------------------------------------------
(* Callers and sets of attempts *)

LEMMA CallersFinite ==
    /\ IsFiniteSet(Agents) /\ IsFiniteSet(Callers)
    /\ \A i \in 1..Len(Order) : Order[i] \in Agents
    /\ \A i, j \in 1..Len(Order) : Order[i] = Order[j] => i = j
    /\ Len(Order) \in Nat \ {0}
<1>1. /\ Len(Order) \in Nat \ {0}
      /\ Order \in [1..Len(Order) -> Agents]
  BY OrderAssumption
<1>2. Order \in Surjection(1..Len(Order), Agents)
  BY <1>1 DEF Surjection, Agents
<1>3. /\ IsFiniteSet(1..Len(Order))
      /\ Cardinality(1..Len(Order)) = Len(Order)
  BY <1>1, FS_Interval
<1>4. /\ IsFiniteSet(Agents)
      /\ Order \in Injection(1..Len(Order), Agents)
  BY <1>2, <1>3, FS_Surjection, OrderAssumption
<1>5. IsFiniteSet(Callers)
  BY <1>4, FS_AddElement DEF Callers
<1>. QED  BY <1>1, <1>4, <1>5 DEF Injection, IsInjective

\* The attempts 1..f[a] of the callers a in S.
Pairs(S, f) == {p \in Callers \X (1..MaxRetries + 1) : p[1] \in S /\ p[2] <= f[p[1]]}

LEMMA PairsFinite ==
    ASSUME NEW S, NEW f
    PROVE  IsFiniteSet(Pairs(S, f)) /\ Cardinality(Pairs(S, f)) \in Nat
<1>1. IsFiniteSet(1..MaxRetries + 1)
  BY FS_Interval, LimitsAssumption
<1>2. IsFiniteSet(Callers \X (1..MaxRetries + 1))
  BY <1>1, CallersFinite, FS_Product
<1>. QED  BY <1>2, FS_Subset, FS_CardinalityType DEF Pairs

\* A caller more means its attempts more.
LEMMA PairsAdd ==
    \A S, f, g : \A a \in Callers \ S :
        (\A b \in S : g[b] = f[b]) /\ g[a] \in 0..MaxRetries + 1 =>
            Cardinality(Pairs(S \cup {a}, g)) = Cardinality(Pairs(S, f)) + g[a]
<1>. SUFFICES ASSUME NEW S, NEW f, NEW g, NEW a \in Callers \ S,
                     \A b \in S : g[b] = f[b], g[a] \in 0..MaxRetries + 1
              PROVE  Cardinality(Pairs(S \cup {a}, g)) = Cardinality(Pairs(S, f)) + g[a]
  OBVIOUS
<1>. DEFINE Block == {a} \X (1..g[a])
<1>1. /\ IsFiniteSet(1..g[a]) /\ Cardinality(1..g[a]) = g[a]
  BY FS_Interval
<1>2. /\ IsFiniteSet({a}) /\ Cardinality({a}) = 1
  BY FS_Singleton
<1>3. /\ IsFiniteSet(Block) /\ Cardinality(Block) = 1 * g[a]
  BY <1>1, <1>2, FS_Product
<1>4. Pairs(S \cup {a}, g) = Pairs(S, f) \cup Block
  <2>1. ASSUME NEW p \in Pairs(S \cup {a}, g)
        PROVE  p \in Pairs(S, f) \cup Block
    BY LimitsAssumption DEF Pairs
  <2>2. ASSUME NEW p \in Pairs(S, f)
        PROVE  p \in Pairs(S \cup {a}, g)
    BY DEF Pairs
  <2>3. ASSUME NEW p \in Block
        PROVE  p \in Pairs(S \cup {a}, g)
    BY LimitsAssumption DEF Pairs
  <2>. QED  BY <2>1, <2>2, <2>3
<1>5. Pairs(S, f) \cap Block = {}
  BY DEF Pairs
<1>6. IsFiniteSet(Pairs(S, f)) /\ Cardinality(Pairs(S, f)) \in Nat
  BY PairsFinite
<1>. HIDE DEF Block
<1>7. Cardinality(Pairs(S, f) \cup Block)
        = Cardinality(Pairs(S, f)) + Cardinality(Block) - Cardinality({})
  BY <1>3, <1>5, <1>6, FS_Union
<1>8. g[a] \in Nat /\ 1 * g[a] = g[a] /\ Cardinality({}) = 0
  BY FS_EmptySet, LimitsAssumption
<1>9. Cardinality(Pairs(S, f) \cup Block) = Cardinality(Pairs(S, f)) + g[a]
  BY <1>3, <1>6, <1>7, <1>8
<1>. QED  BY <1>4, <1>9

LEMMA PairsSame ==
    ASSUME NEW S, NEW f, NEW g, \A a \in S : f[a] = g[a]
    PROVE  Pairs(S, f) = Pairs(S, g)
BY DEF Pairs

LEMMA PairsEmpty ==
    ASSUME NEW f
    PROVE  Cardinality(Pairs({}, f)) = 0
<1>1. Pairs({}, f) = {}
  BY DEF Pairs
<1>. QED  BY <1>1, FS_EmptySet

-----------------------------------------------------------------------------
(* The inductive invariant *)

\* What the state of a call says of its attempts, its worker and its result.
CallShape(c) ==
    /\ c.authorized <= MaxRetries + 1
    /\ c.state \in {"waiting", "skipped", "refused"} => c.authorized = 0
    /\ c.state \in {"reserved", "queued"} => c.authorized >= 1
    /\ c.state \notin {"running", "settled"} => c.started = 0 /\ c.begun = 0
    /\ c.state # "running" => c.worker = "idle"
    /\ c.state = "running" =>
          /\ c.started >= 1 /\ c.started <= c.authorized /\ c.begun <= c.authorized
          /\ c.worker = "idle" => c.begun < c.authorized
          /\ c.worker \in {"trying", "ProviderResult"} => c.begun > 0
    /\ c.state = "settled" => c.started <= c.authorized
    /\ c.state \notin {"refused", "settled"} => c.result = "none"
    /\ c.result = "READY" => c.state = "settled" /\ c.begun > 0 /\ c.started >= c.begun
    /\ c.result \in {"BUDGET", "CAPACITY"} => c.started = 0

Shapes == \A a \in Callers : CallShape(call[a])

\* Which calls may be in progress in each phase of the request.
Stages ==
    /\ phase = "gates" =>
          round = 0 /\ turn = 1 /\ \A a \in Callers : call[a].state = "waiting"
    /\ phase = "funding" =>
          /\ turn \in 1..Len(Order)
          /\ call[Meta].state = "waiting"
          /\ \A i \in 1..Len(Order) :
                /\ call[Order[i]].state \in {"waiting", "skipped", "refused", "reserved"}
                /\ call[Order[i]].state = "waiting" <=> round = 0 /\ i >= turn
    /\ phase = "agents" => call[Meta].state = "waiting"
    /\ phase = "meta" => \A a \in Agents : Ended(a)
    /\ phase = "over" => \A a \in Callers : call[a].state \notin {"reserved", "queued", "running"}
    /\ phase \in {"funding", "agents", "meta"} => Gate(input) = "none"
    /\ phase # "over" => report = "none"

\* The budget has no attempt left.
Exhausted == \E x \in Resource : Remaining[x] < Need(1)[x]

\* How far the passes of the funding have come: while the budget lasts, everyone funded
\* has the attempts of the passes that reached it.
Passes ==
    phase = "funding" =>
        /\ round = 0 => \A i \in 1..Len(Order) : call[Order[i]].authorized <= 1
        /\ ~Exhausted => \A i \in 1..Len(Order) :
              call[Order[i]].authorized > 0 =>
                  call[Order[i]].authorized = IF i < turn THEN round + 1 ELSE round
        /\ \A a \in Agents : call[a].result = "BUDGET" =>
              Exhausted /\ \A b \in Agents : call[b].authorized <= 1
        /\ \A i, j \in 1..Len(Order) :
              i < j /\ call[Order[i]].authorized > 0 /\ call[Order[j]].authorized > 0 =>
                  call[Order[i]].authorized - call[Order[j]].authorized \in {0, 1}

IInv ==
    /\ TypeOK
    /\ Shapes
    /\ Stages
    /\ BooksBalance
    /\ SlotsAccounted
    /\ Passes
    /\ FairFunding
    /\ AnswerIsTruthful

-----------------------------------------------------------------------------
(* The limits, and what the operations do to a call *)

LEMMA Limits ==
    /\ MaxRetries \in Nat /\ MaxConcurrent \in Nat \ {0} /\ PerAttempt \in Nat \ {0}
    /\ MaxAttempts \in Nat /\ MaxTokens \in Nat /\ Enough \in Nat \ {0}
    /\ Limit \in [Resource -> Nat]
BY LimitsAssumption DEF Limit, Resource

LEMMA NeedType ==
    ASSUME NEW n \in Nat
    PROVE  /\ Need(n) \in [Resource -> Nat]
           /\ Need(n)["attempts"] = n /\ Need(n)["tokens"] = n * PerAttempt
<1>1. n * PerAttempt \in Nat
  BY Limits, ProductMonotone
<1>. QED  BY <1>1 DEF Need, Resource

LEMMA RemainingType ==
    ASSUME TypeOK
    PROVE  /\ Remaining \in [Resource -> Int]
           /\ \A x \in Resource : Remaining[x] = Limit[x] - used[x] - reserved[x]
<1>1. \A x \in Resource : used[x] \in Nat /\ reserved[x] \in Nat /\ Limit[x] \in Nat
  BY Limits DEF TypeOK
<1>. QED  BY <1>1 DEF Remaining

\* A reservation fits into what remains.
LEMMA SupportedFits ==
    ASSUME TypeOK, BooksBalance, NEW k \in Nat
    PROVE  /\ Supported(k) \in Nat /\ Supported(k) <= k
           /\ Supported(k) <= Remaining["attempts"]
           /\ Supported(k) * PerAttempt <= Remaining["tokens"]
           /\ Supported(k) < 1 /\ k > 0 => Exhausted
<1>. DEFINE d == Remaining["tokens"] \div PerAttempt
<1>1. Remaining["attempts"] \in Nat /\ Remaining["tokens"] \in Nat
  BY RemainingType, Limits DEF BooksBalance, Resource, TypeOK
<1>2. d \in Nat /\ d * PerAttempt <= Remaining["tokens"]
  BY <1>1, Limits, Division
<1>a. Supported(k) = Min({k, Remaining["attempts"], d})
  BY DEF Supported
<1>b. d = 0 => Remaining["tokens"] < PerAttempt
  BY <1>1, Limits
<1>. HIDE DEF d
<1>3. /\ Supported(k) \in {k, Remaining["attempts"], d}
      /\ Supported(k) <= k /\ Supported(k) <= Remaining["attempts"] /\ Supported(k) <= d
  <2>1. k \in Int /\ Remaining["attempts"] \in Int /\ d \in Int
    BY <1>1, <1>2
  <2>. DEFINE m == Min({k, Remaining["attempts"], d})
  <2>2. m \in {k, Remaining["attempts"], d} /\ m <= k /\ m <= Remaining["attempts"] /\ m <= d
    BY <2>1, MinOfThree, Zenon
  <2>. QED  BY <1>a, <2>2
<1>4. Supported(k) * PerAttempt <= Remaining["tokens"]
  <2>1. Supported(k) * PerAttempt \in Nat /\ Supported(k) * PerAttempt <= d * PerAttempt
    BY <1>1, <1>2, <1>3, Limits, ProductMonotone
  <2>. QED  BY <1>1, <1>2, <2>1, Limits
<1>5. ASSUME Supported(k) < 1, k > 0 PROVE Exhausted
  <2>1. Need(1)["attempts"] = 1 /\ Need(1)["tokens"] = PerAttempt
    BY NeedType, Limits
  <2>2. CASE Remaining["attempts"] = 0
    BY <2>1, <2>2 DEF Exhausted, Resource
  <2>3. CASE d = 0
    BY <1>b, <2>1, <2>3 DEF Exhausted, Resource
  <2>. QED  BY <1>1, <1>2, <1>3, <1>5, <2>2, <2>3
<1>. QED  BY <1>1, <1>2, <1>3, <1>4, <1>5

LEMMA CallFields ==
    ASSUME TypeOK, NEW a \in Callers
    PROVE  /\ call[a] \in Call
           /\ call[a].authorized \in Nat /\ call[a].started \in Nat /\ call[a].begun \in Nat
           /\ call[a].worker \in {"idle", "trying"} \cup Messages
           /\ call[a].result \in {"none", "READY"} \cup Blame
BY DEF TypeOK, Call

\* Refused, or granted what is supported.
LEMMA ReserveEffect ==
    ASSUME TypeOK, NEW a \in Callers, NEW k, Supported(k) \in Nat, Reserve(a, k)
    PROVE  /\ call' \in [Callers -> Call]
           /\ \A b \in Callers \ {a} : call'[b] = call[b]
           /\ call'[a].started = call[a].started /\ call'[a].begun = call[a].begun
           /\ call'[a].worker = call[a].worker
           /\ \/ /\ clock = "over" \/ Supported(k) < 1
                 /\ call'[a].state = "refused" /\ call'[a].authorized = call[a].authorized
                 /\ call'[a].result = IF clock = "over" THEN "DEADLINE" ELSE "BUDGET"
                 /\ reserved' = reserved
              \/ /\ Supported(k) >= 1
                 /\ call'[a].state = "reserved" /\ call'[a].authorized = Supported(k)
                 /\ call'[a].result = call[a].result
                 /\ reserved' = [x \in Resource |-> reserved[x] + Need(Supported(k))[x]]
<1>1. CASE clock = "over" \/ Supported(k) < 1
  BY <1>1 DEF Reserve, TypeOK, Call, Late, Blame
<1>2. CASE ~(clock = "over" \/ Supported(k) < 1)
  BY <1>2 DEF Reserve, TypeOK, Call
<1>. QED  BY <1>1, <1>2

\* One attempt more, when the budget has it.
LEMMA AuthorizeEffect ==
    ASSUME TypeOK, NEW a \in Callers, Authorize(a)
    PROVE  /\ call' \in [Callers -> Call]
           /\ \A b \in Callers \ {a} : call'[b] = call[b]
           /\ call'[a].state = call[a].state /\ call'[a].result = call[a].result
           /\ call'[a].started = call[a].started /\ call'[a].begun = call[a].begun
           /\ call'[a].worker = call[a].worker
           /\ \/ /\ call[a].state = "reserved" /\ call[a].authorized < MaxRetries + 1
                 /\ ~Exhausted
                 /\ call'[a].authorized = call[a].authorized + 1
                 /\ reserved' = [x \in Resource |-> reserved[x] + Need(1)[x]]
              \/ /\ Exhausted \/ call[a].state # "reserved" \/ call[a].authorized >= MaxRetries + 1
                 /\ call' = call /\ reserved' = reserved
<1>. DEFINE Grants == /\ call[a].state = "reserved"
                      /\ call[a].authorized < MaxRetries + 1
                      /\ \A x \in Resource : Remaining[x] >= Need(1)[x]
<1>1. (\A x \in Resource : Remaining[x] >= Need(1)[x]) <=> ~Exhausted
  BY RemainingType, NeedType DEF Exhausted
<1>2. CASE Grants
  BY <1>1, <1>2 DEF Authorize, TypeOK, Call
<1>3. CASE ~Grants
  BY <1>1, <1>3, CallFields, Limits DEF Authorize, TypeOK
<1>. QED  BY <1>2, <1>3

LEMMA SettleEffect ==
    ASSUME TypeOK, NEW a \in Callers, NEW n \in Nat, NEW charge,
           NEW result \in {"none", "READY"} \cup Blame, Settle(a, n, charge, result)
    PROVE  /\ call' \in [Callers -> Call]
           /\ \A b \in Callers \ {a} : call'[b] = call[b]
           /\ call'[a].state = "settled" /\ call'[a].worker = "idle"
           /\ call'[a].authorized = call[a].authorized /\ call'[a].started = n
           /\ call'[a].begun = call[a].begun /\ call'[a].result = result
BY DEF Settle, TypeOK, Call

-----------------------------------------------------------------------------
(* The books *)

Authorized == [a \in Callers |-> call[a].authorized]
Started == [a \in Callers |-> call[a].started]

LEMMA AttemptsArePairs ==
    /\ HeldAttempts = Pairs(Open, Authorized)
    /\ ChargedAttempts = Pairs(Settled, Started)
    /\ HeldAttempts' = Pairs(Open', Authorized')
    /\ ChargedAttempts' = Pairs(Settled', Started')
<1>1. HeldAttempts = Pairs(Open, Authorized)
  BY DEF HeldAttempts, Pairs, Authorized
<1>2. ChargedAttempts = Pairs(Settled, Started)
  BY DEF ChargedAttempts, Pairs, Started
<1>3. HeldAttempts' = Pairs(Open', Authorized')
  BY DEF HeldAttempts, Pairs, Authorized
<1>4. ChargedAttempts' = Pairs(Settled', Started')
  BY DEF ChargedAttempts, Pairs, Started
<1>. QED  BY <1>1, <1>2, <1>3, <1>4

LEMMA AttemptsFinite ==
    Cardinality(HeldAttempts) \in Nat /\ Cardinality(ChargedAttempts) \in Nat
BY AttemptsArePairs, PairsFinite

\* A step that opens and settles nothing, and changes no attempt that counts.
LEMMA BooksKept ==
    ASSUME BooksBalance, UNCHANGED <<used, reserved>>,
           \A a \in Callers :
              /\ call'[a].state \in {"reserved", "queued", "running"}
                    <=> call[a].state \in {"reserved", "queued", "running"}
              /\ call'[a].state = "settled" <=> call[a].state = "settled"
              /\ call'[a].authorized = call[a].authorized
              /\ call[a].state = "settled" => call'[a].started = call[a].started
    PROVE  BooksBalance'
<1>1. Open' = Open /\ Settled' = Settled
  BY DEF Open, Settled
<1>2. \A a \in Open : Authorized'[a] = Authorized[a]
  BY DEF Open, Authorized
<1>3. \A a \in Settled : Started'[a] = Started[a]
  BY DEF Settled, Started
<1>4. HeldAttempts' = HeldAttempts /\ ChargedAttempts' = ChargedAttempts
  BY <1>1, <1>2, <1>3, AttemptsArePairs, PairsSame
<1>. QED  BY <1>4 DEF BooksBalance, Remaining, Limit

\* How the sets of attempts change when one call does.
LEMMA HeldOthers ==
    ASSUME NEW a \in Callers, \A b \in Callers \ {a} : call'[b] = call[b],
           call[a].authorized \in 0..MaxRetries + 1,
           call'[a].authorized \in 0..MaxRetries + 1
    PROVE  Cardinality(HeldAttempts')
             = Cardinality(HeldAttempts)
               - (IF a \in Open THEN call[a].authorized ELSE 0)
               + (IF a \in Open' THEN call'[a].authorized ELSE 0)
<1>. DEFINE Others == Open \ {a}
<1>. DEFINE R == Cardinality(Pairs(Others, Authorized))
<1>1. /\ a \in Open => Open = Others \cup {a}
      /\ a \notin Open => Open = Others
      /\ a \in Open' => Open' = Others \cup {a}
      /\ a \notin Open' => Open' = Others
      /\ a \notin Others
  BY DEF Open
<1>2. /\ \A b \in Others : Authorized'[b] = Authorized[b]
      /\ Authorized[a] = call[a].authorized /\ Authorized'[a] = call'[a].authorized
  BY DEF Authorized, Open
<1>. HIDE DEF Others
<1>3. R \in Nat
  BY PairsFinite
<1>4. Cardinality(Pairs(Others \cup {a}, Authorized)) = R + call[a].authorized
  <2>1. /\ a \notin Others /\ Authorized[a] \in 0..MaxRetries + 1
        /\ \A b \in Others : Authorized[b] = Authorized[b]
    BY <1>1, <1>2
  <2>2. Cardinality(Pairs(Others \cup {a}, Authorized))
          = Cardinality(Pairs(Others, Authorized)) + Authorized[a]
    BY <2>1, PairsAdd
  <2>. QED  BY <1>2, <2>2
<1>5. Cardinality(Pairs(Others \cup {a}, Authorized')) = R + call'[a].authorized
  <2>1. /\ a \in Callers \ Others /\ Authorized'[a] \in 0..MaxRetries + 1
        /\ \A b \in Others : Authorized'[b] = Authorized[b]
    BY <1>1, <1>2
  <2>2. Cardinality(Pairs(Others \cup {a}, Authorized'))
          = Cardinality(Pairs(Others, Authorized)) + Authorized'[a]
    BY <2>1, PairsAdd
  <2>. QED  BY <1>2, <2>2
<1>6. Cardinality(Pairs(Others, Authorized')) = R
  BY <1>2, PairsSame
<1>. HIDE DEF R
<1>7. Cardinality(HeldAttempts) = R + (IF a \in Open THEN call[a].authorized ELSE 0)
  <2>1. CASE a \in Open
    BY <2>1, <1>1, <1>4, AttemptsArePairs
  <2>2. CASE a \notin Open
    BY <2>2, <1>1, <1>3, AttemptsArePairs DEF R
  <2>. QED  BY <2>1, <2>2
<1>8. Cardinality(HeldAttempts') = R + (IF a \in Open' THEN call'[a].authorized ELSE 0)
  <2>1. CASE a \in Open'
    BY <2>1, <1>1, <1>5, AttemptsArePairs
  <2>2. CASE a \notin Open'
    BY <2>2, <1>1, <1>3, <1>6, AttemptsArePairs
  <2>. QED  BY <2>1, <2>2
<1>9. MaxRetries \in Nat
  BY Limits
<1>. QED  BY <1>3, <1>7, <1>8, <1>9

LEMMA ChargedOthers ==
    ASSUME NEW a \in Callers, \A b \in Callers \ {a} : call'[b] = call[b],
           a \notin Settled,
           a \in Settled' => call'[a].started \in 0..MaxRetries + 1
    PROVE  Cardinality(ChargedAttempts')
             = Cardinality(ChargedAttempts)
               + (IF a \in Settled' THEN call'[a].started ELSE 0)
<1>1. /\ a \in Settled' => Settled' = Settled \cup {a}
      /\ a \notin Settled' => Settled' = Settled
  BY DEF Settled
<1>2. /\ \A b \in Settled : Started'[b] = Started[b]
      /\ Started'[a] = call'[a].started
  BY DEF Started, Settled
<1>3. Cardinality(ChargedAttempts) \in Nat
  BY AttemptsFinite
<1>4. CASE a \in Settled'
  <2>. DEFINE S == Settled  f == Started  g == Started'
  <2>1. a \in Callers \ S /\ g[a] \in 0..MaxRetries + 1 /\ \A b \in S : g[b] = f[b]
    BY <1>2, <1>4
  <2>. HIDE DEF S, f, g
  <2>2. Cardinality(Pairs(S \cup {a}, g)) = Cardinality(Pairs(S, f)) + g[a]
    BY <2>1, PairsAdd
  <2>. QED  BY <1>1, <1>2, <1>4, <2>2, AttemptsArePairs DEF S, f, g
<1>5. CASE a \notin Settled'
  BY <1>1, <1>2, <1>3, <1>5, AttemptsArePairs, PairsSame
<1>. QED  BY <1>4, <1>5

\* The books after a step that moves h attempts into the reservations and charges c.
LEMMA BooksFollow ==
    ASSUME TypeOK, BooksBalance, NEW h \in Int, NEW c \in Nat, NEW t \in Nat,
           Cardinality(HeldAttempts') = Cardinality(HeldAttempts) + h,
           Cardinality(ChargedAttempts') = Cardinality(ChargedAttempts) + c,
           reserved' = [x \in Resource |-> reserved[x] +
                           (IF x = "attempts" THEN h ELSE h * PerAttempt)],
           used' = [x \in Resource |-> used[x] + (IF x = "attempts" THEN c ELSE t)],
           t <= c * PerAttempt,
           c + h <= Remaining["attempts"], t + h * PerAttempt <= Remaining["tokens"]
    PROVE  BooksBalance' /\ reserved' \in [Resource -> Nat] /\ used' \in [Resource -> Nat]
<1>. DEFINE H == Cardinality(HeldAttempts)  C == Cardinality(ChargedAttempts)
<1>1. /\ H \in Nat /\ C \in Nat /\ H + h \in Nat /\ PerAttempt \in Nat
  <2>1. Cardinality(HeldAttempts') \in Nat
    BY AttemptsArePairs, PairsFinite
  <2>. QED  BY <2>1, AttemptsFinite, Limits
<1>2. /\ reserved["attempts"] = H /\ reserved["tokens"] = H * PerAttempt
      /\ used["attempts"] = C /\ used["tokens"] <= C * PerAttempt
      /\ used["attempts"] \in Nat /\ used["tokens"] \in Nat
      /\ reserved["attempts"] \in Nat /\ reserved["tokens"] \in Nat
  BY DEF BooksBalance, TypeOK, Resource
<1>. HIDE DEF H, C
<1>3. /\ (H + h) * PerAttempt = H * PerAttempt + h * PerAttempt
      /\ (C + c) * PerAttempt = C * PerAttempt + c * PerAttempt
      /\ (H + h) * PerAttempt \in Nat /\ H * PerAttempt \in Nat /\ C * PerAttempt \in Nat
      /\ c * PerAttempt \in Nat
      /\ h * PerAttempt \in Int
  <2>1. /\ H * PerAttempt \in Nat /\ C * PerAttempt \in Nat /\ c * PerAttempt \in Nat
        /\ (H + h) * PerAttempt \in Nat
    BY <1>1, ProductMonotone
  <2>2. h * PerAttempt \in Int
    BY <1>1
  <2>. QED  BY <1>1, <2>1, <2>2, ProductDistributes
<1>4. /\ reserved'["attempts"] = H + h
      /\ reserved'["tokens"] = H * PerAttempt + h * PerAttempt
      /\ used'["attempts"] = C + c /\ used'["tokens"] = used["tokens"] + t
  BY <1>2 DEF Resource
<1>5. reserved' \in [Resource -> Nat] /\ used' \in [Resource -> Nat]
  <2>1. /\ reserved'["attempts"] \in Nat /\ reserved'["tokens"] \in Nat
        /\ used'["attempts"] \in Nat /\ used'["tokens"] \in Nat
    BY <1>1, <1>2, <1>3, <1>4
  <2>. QED  BY <2>1 DEF Resource
<1>6. \A x \in Resource : used'[x] + reserved'[x] <= Limit[x]
  <2>1. /\ Remaining["attempts"] = Limit["attempts"] - C - H
        /\ Remaining["tokens"] = Limit["tokens"] - used["tokens"] - H * PerAttempt
        /\ Limit["attempts"] \in Nat /\ Limit["tokens"] \in Nat
    BY <1>2, RemainingType, Limits DEF Resource
  <2>2. used'["attempts"] + reserved'["attempts"] <= Limit["attempts"]
    BY <1>1, <1>4, <2>1
  <2>3. used'["tokens"] + reserved'["tokens"] <= Limit["tokens"]
    BY <1>1, <1>2, <1>3, <1>4, <2>1
  <2>. QED  BY <2>2, <2>3 DEF Resource
<1>7. /\ Cardinality(HeldAttempts') = H + h /\ Cardinality(ChargedAttempts') = C + c
  BY DEF H, C
<1>8. /\ reserved'["tokens"] = (H + h) * PerAttempt
      /\ used'["tokens"] <= (C + c) * PerAttempt
  BY <1>1, <1>2, <1>3, <1>4
<1>9. \A x \in Resource : used'[x] + reserved'[x] <= Limit'[x]
  BY <1>6 DEF Limit
<1>. QED  BY <1>4, <1>5, <1>7, <1>8, <1>9 DEF BooksBalance

LEMMA BooksReserved ==
    ASSUME TypeOK, Shapes, BooksBalance, NEW a \in Callers, NEW k \in 1..MaxRetries + 1,
           call[a].state = "waiting", Reserve(a, k), UNCHANGED used
    PROVE  BooksBalance' /\ reserved' \in [Resource -> Nat]
<1>. DEFINE n == Supported(k)
<1>1. /\ n \in Nat /\ n <= MaxRetries + 1
      /\ n <= Remaining["attempts"] /\ n * PerAttempt <= Remaining["tokens"]
      /\ MaxRetries \in Nat /\ PerAttempt \in Nat
  BY SupportedFits, Limits
<1>2. \A b \in Callers \ {a} : call'[b] = call[b]
  BY <1>1, ReserveEffect
<1>3. a \notin Open /\ a \notin Settled
  BY DEF Open, Settled
<1>4. CASE call'[a].state = "refused" /\ reserved' = reserved
  <2>1. call'[a].authorized = call[a].authorized
    BY <1>1, <1>4, ReserveEffect
  <2>. QED  BY <1>2, <1>4, <2>1, BooksKept DEF TypeOK
<1>5. CASE /\ n >= 1 /\ call'[a].state = "reserved" /\ call'[a].authorized = n
           /\ reserved' = [x \in Resource |-> reserved[x] + Need(n)[x]]
  <2>1. a \in Open' /\ a \notin Settled'
    BY <1>5 DEF Open, Settled
  <2>2. call[a].authorized \in 0..MaxRetries + 1 /\ call'[a].authorized \in 0..MaxRetries + 1
    BY <1>1, <1>5, CallFields DEF Shapes, CallShape
  <2>3. Cardinality(HeldAttempts') = Cardinality(HeldAttempts) + n
    BY <1>1, <1>2, <1>3, <1>5, <2>1, <2>2, HeldOthers, AttemptsFinite
  <2>4. Cardinality(ChargedAttempts') = Cardinality(ChargedAttempts) + 0
    BY <1>2, <1>3, <2>1, ChargedOthers, AttemptsFinite
  <2>5. reserved' = [x \in Resource |-> reserved[x] +
                        (IF x = "attempts" THEN n ELSE n * PerAttempt)]
    BY <1>1, <1>5, NeedType DEF Resource
  <2>6. used' = [x \in Resource |-> used[x] + (IF x = "attempts" THEN 0 ELSE 0)]
    BY DEF TypeOK
  <2>7. 0 * PerAttempt = 0 /\ n * PerAttempt \in Int
    BY <1>1
  <2>. HIDE DEF n
  <2>. QED  BY <1>1, <2>3, <2>4, <2>5, <2>6, <2>7, BooksFollow
<1>. QED  BY <1>1, <1>4, <1>5, ReserveEffect

LEMMA BooksAuthorized ==
    ASSUME TypeOK, Shapes, BooksBalance, NEW a \in Callers, Authorize(a), UNCHANGED used
    PROVE  BooksBalance' /\ reserved' \in [Resource -> Nat]
<1>1. CASE call' = call /\ reserved' = reserved
  BY <1>1, BooksKept DEF TypeOK
<1>2. CASE /\ call[a].state = "reserved" /\ call[a].authorized < MaxRetries + 1
           /\ ~Exhausted
           /\ call'[a].authorized = call[a].authorized + 1
           /\ reserved' = [x \in Resource |-> reserved[x] + Need(1)[x]]
  <2>1. /\ \A b \in Callers \ {a} : call'[b] = call[b]
        /\ call'[a].state = "reserved"
    BY <1>2, AuthorizeEffect
  <2>2. a \in Open /\ a \notin Settled /\ a \in Open' /\ a \notin Settled'
    BY <1>2, <2>1 DEF Open, Settled
  <2>3. /\ call[a].authorized \in 0..MaxRetries + 1 /\ call'[a].authorized \in 0..MaxRetries + 1
        /\ MaxRetries \in Nat /\ PerAttempt \in Nat
    BY <1>2, CallFields, Limits
  <2>4. Cardinality(HeldAttempts') = Cardinality(HeldAttempts) + 1
    BY <1>2, <2>1, <2>2, <2>3, HeldOthers, AttemptsFinite
  <2>5. Cardinality(ChargedAttempts') = Cardinality(ChargedAttempts) + 0
    BY <2>1, <2>2, ChargedOthers, AttemptsFinite
  <2>6. Need(1)["attempts"] = 1 /\ Need(1)["tokens"] = 1 * PerAttempt
    BY NeedType
  <2>7. reserved' = [x \in Resource |-> reserved[x] +
                        (IF x = "attempts" THEN 1 ELSE 1 * PerAttempt)]
    BY <1>2, <2>6 DEF Resource
  <2>8. used' = [x \in Resource |-> used[x] + (IF x = "attempts" THEN 0 ELSE 0)]
    BY DEF TypeOK
  <2>9. 1 <= Remaining["attempts"] /\ 1 * PerAttempt <= Remaining["tokens"]
    BY <1>2, <2>3, <2>6, RemainingType DEF Exhausted, Resource
  <2>10. 0 * PerAttempt = 0 /\ 1 * PerAttempt \in Int
    BY <2>3
  <2>. QED  BY <2>3, <2>4, <2>5, <2>7, <2>8, <2>9, <2>10, BooksFollow
<1>. QED  BY <1>1, <1>2, AuthorizeEffect

LEMMA BooksSettled ==
    ASSUME TypeOK, Shapes, BooksBalance, NEW a \in Callers, a \in Open,
           NEW n \in Nat, n <= call[a].authorized,
           NEW t \in Nat, t <= n * PerAttempt,
           NEW charge, charge["attempts"] = n, charge["tokens"] = t,
           NEW result \in {"none", "READY"} \cup Blame, Settle(a, n, charge, result)
    PROVE  BooksBalance' /\ reserved' \in [Resource -> Nat] /\ used' \in [Resource -> Nat]
<1>. DEFINE m == call[a].authorized
<1>1. /\ \A b \in Callers \ {a} : call'[b] = call[b]
      /\ call'[a].state = "settled" /\ call'[a].started = n
      /\ call'[a].authorized = call[a].authorized
  BY SettleEffect
<1>2. a \in Open /\ a \notin Settled /\ a \notin Open' /\ a \in Settled'
  BY <1>1 DEF Open, Settled
<1>3. /\ m \in Nat /\ m <= MaxRetries + 1
      /\ MaxRetries \in Nat /\ PerAttempt \in Nat
  BY CallFields, Limits DEF Shapes, CallShape
<1>4. Cardinality(HeldAttempts') = Cardinality(HeldAttempts) + (0 - m)
  BY <1>1, <1>2, <1>3, HeldOthers, AttemptsFinite
<1>5. Cardinality(ChargedAttempts') = Cardinality(ChargedAttempts) + n
  BY <1>1, <1>2, <1>3, ChargedOthers
<1>6. Need(m)["attempts"] = m /\ Need(m)["tokens"] = m * PerAttempt
  BY <1>3, NeedType
<1>7. (0 - m) * PerAttempt = 0 - m * PerAttempt /\ m * PerAttempt \in Nat
  BY <1>3, ProductMonotone
<1>8. reserved' = [x \in Resource |-> reserved[x] +
                      (IF x = "attempts" THEN 0 - m ELSE (0 - m) * PerAttempt)]
  <2>1. reserved' = [x \in Resource |-> reserved[x] - Need(m)[x]]
    BY DEF Settle
  <2>2. \A x \in Resource : reserved[x] \in Nat
    BY DEF TypeOK
  <2>. QED  BY <1>3, <1>6, <1>7, <2>1, <2>2 DEF Resource
<1>9. used' = [x \in Resource |-> used[x] + (IF x = "attempts" THEN n ELSE t)]
  BY DEF Settle, Resource
<1>10. n + (0 - m) <= Remaining["attempts"] /\ t + (0 - m) * PerAttempt <= Remaining["tokens"]
  <2>1. Remaining["attempts"] \in Nat /\ Remaining["tokens"] \in Nat
    BY RemainingType, Limits DEF BooksBalance, Resource, TypeOK
  <2>2. n * PerAttempt \in Nat /\ n * PerAttempt <= m * PerAttempt
    BY <1>3, ProductMonotone
  <2>. QED  BY <1>3, <1>7, <2>1, <2>2
<1>11. 0 - m \in Int
  BY <1>3
<1>. HIDE DEF m
<1>. QED  BY <1>4, <1>5, <1>8, <1>9, <1>10, <1>11, BooksFollow

-----------------------------------------------------------------------------
(* The slots *)

LEMMA RunningFinite ==
    IsFiniteSet(Running) /\ Cardinality(Running) \in Nat
<1>1. Running \subseteq Callers
  BY DEF Running
<1>. QED  BY <1>1, CallersFinite, FS_Subset, FS_CardinalityType

LEMMA SlotsKept ==
    ASSUME SlotsAccounted, UNCHANGED slots,
           \A a \in Callers : call'[a].state = "running" <=> call[a].state = "running"
    PROVE  SlotsAccounted'
<1>1. Running' = Running
  BY DEF Running
<1>. QED  BY <1>1 DEF SlotsAccounted, slots

LEMMA SlotTaken ==
    ASSUME TypeOK, SlotsAccounted, NEW a \in Callers, call[a].state # "running",
           call'[a].state = "running", \A b \in Callers \ {a} : call'[b] = call[b],
           free' = free - 1, UNCHANGED <<stuck, dead>>
    PROVE  SlotsAccounted'
<1>1. Running' = Running \cup {a} /\ a \notin Running
  BY DEF Running
<1>2. Cardinality(Running') = Cardinality(Running) + 1
  BY <1>1, RunningFinite, FS_AddElement
<1>. QED  BY <1>2, RunningFinite DEF SlotsAccounted, TypeOK

LEMMA SlotVacated ==
    ASSUME TypeOK, SlotsAccounted, NEW a \in Callers, call[a].state = "running",
           call'[a].state # "running", \A b \in Callers \ {a} : call'[b] = call[b],
           NEW survives \in BOOLEAN, Vacate(survives)
    PROVE  SlotsAccounted' /\ free' \in Nat /\ stuck' \in Nat /\ dead' \in Nat
<1>1. Running' = Running \ {a} /\ a \in Running
  BY DEF Running
<1>2. Cardinality(Running') = Cardinality(Running) - 1
  BY <1>1, RunningFinite, FS_RemoveElement
<1>. QED  BY <1>2, RunningFinite DEF SlotsAccounted, TypeOK, Vacate

-----------------------------------------------------------------------------
(* The steps of the executor and its workers *)

\* A step of one call that is in progress: what is left to show of it.
LEMMA CallStep ==
    ASSUME IInv, NEW a \in Callers, UNCHANGED request,
           call[a].state \in {"reserved", "queued", "running"},
           call[a].state = "reserved" => Calling(a),
           call' \in [Callers -> Call], \A b \in Callers \ {a} : call'[b] = call[b],
           call'[a].state \in {"queued", "running", "settled"},
           call'[a].authorized = call[a].authorized,
           CallShape(call'[a]),
           call'[a].result # "BUDGET",
           call'[a].result = "DEADLINE" => clock # "far"
    PROVE  Shapes' /\ Stages' /\ Passes' /\ FairFunding' /\ AnswerIsTruthful'
<1>. USE DEF IInv, request
<1>1. \/ phase = "agents" /\ a \in Agents
      \/ phase = "meta" /\ a = Meta
  <2>1. a \in Agents \/ a = Meta
    BY DEF Callers
  <2>2. phase \in {"gates", "funding", "agents", "meta", "over"}
    BY DEF TypeOK
  <2>3. phase # "gates" /\ phase # "over"
    BY DEF Stages
  <2>4. phase # "funding"
    <3>1. SUFFICES ASSUME phase = "funding" PROVE FALSE
      OBVIOUS
    <3>2. ~Calling(a)
      BY <3>1 DEF Calling
    <3>3. CASE a = Meta
      BY <3>1, <3>3 DEF Stages
    <3>4. CASE a \in Agents
      <4>1. PICK i \in 1..Len(Order) : a = Order[i]
        BY <3>4 DEF Agents
      <4>. QED  BY <3>1, <3>2, <4>1 DEF Stages
    <3>. QED  BY <2>1, <3>3, <3>4
  <2>5. phase = "agents" => a # Meta
    BY DEF Stages
  <2>6. phase = "meta" => a \notin Agents
    BY DEF Stages, Ended
  <2>. QED  BY <2>1, <2>2, <2>3, <2>4, <2>5, <2>6
<1>2. Meta \notin Agents /\ Meta \in Callers /\ Agents \subseteq Callers
  BY OrderAssumption DEF Callers
<1>3. Shapes'
  BY DEF Shapes
<1>4. Stages'
  BY <1>1, <1>2 DEF Stages, Ended
<1>5. Passes'
  BY <1>1 DEF Passes
<1>6. FairFunding'
  <2>1. ASSUME phase = "agents" PROVE FairFunding'
    <3>1. \A b \in Agents : call'[b].authorized = call[b].authorized
                            /\ (call'[b].result = "BUDGET" => call[b].result = "BUDGET")
      BY <1>2
    <3>2. \A i \in 1..Len(Order) : Order[i] \in Agents
      BY CallersFinite
    <3>. QED  BY <2>1, <3>1, <3>2 DEF FairFunding
  <2>. QED  BY <1>1, <2>1 DEF FairFunding
<1>7. AnswerIsTruthful'
  <2>1. report' = "none"
    BY <1>1 DEF Stages
  <2>2. \A b \in Callers : CallShape(call'[b])
    BY <1>3 DEF Shapes
  <2>3. \A b \in Callers : call'[b].result = "DEADLINE" => clock' # "far"
    BY DEF AnswerIsTruthful
  <2>. QED  BY <2>1, <2>2, <2>3 DEF AnswerIsTruthful, CallShape
<1>. QED  BY <1>3, <1>4, <1>5, <1>6, <1>7

\* A step of a worker or the parent that neither opens nor settles a call.
LEMMA QuietStep ==
    ASSUME IInv, NEW a \in Callers, UNCHANGED <<request, used, reserved>>,
           call[a].state \in {"reserved", "queued", "running"},
           call[a].state = "reserved" => Calling(a),
           call' \in [Callers -> Call], \A b \in Callers \ {a} : call'[b] = call[b],
           call'[a].state \in {"queued", "running"},
           call'[a].authorized = call[a].authorized,
           call'[a].result = call[a].result,
           CallShape(call'[a]),
           SlotsAccounted', free' \in Nat, stuck' \in Nat, dead' \in Nat
    PROVE  IInv'
<1>1. call[a].result = "none"
  BY DEF IInv, Shapes, CallShape
<1>2. Shapes' /\ Stages' /\ Passes' /\ FairFunding' /\ AnswerIsTruthful'
  BY <1>1, CallStep
<1>3. BooksBalance'
  BY BooksKept DEF IInv
<1>4. TypeOK'
  BY DEF IInv, TypeOK, request
<1>. QED  BY <1>2, <1>3, <1>4 DEF IInv

LEMMA EnterKeeps ==
    ASSUME IInv, NEW a \in Callers, Enter(a)
    PROVE  IInv'
<1>. USE DEF IInv
<1>1. /\ call' \in [Callers -> Call] /\ \A b \in Callers \ {a} : call'[b] = call[b]
      /\ call'[a] = [call[a] EXCEPT !.state = "queued"]
      /\ call[a].state = "reserved" /\ Calling(a)
  BY DEF Enter, TypeOK, Call
<1>2. CallShape(call'[a]) /\ call'[a].state = "queued"
      /\ call'[a].authorized = call[a].authorized /\ call'[a].result = call[a].result
  BY <1>1, CallFields DEF Shapes, CallShape, Call
<1>3. Running' = Running
  BY <1>1, <1>2 DEF Running
<1>4. SlotsAccounted' /\ free' \in Nat /\ stuck' \in Nat /\ dead' \in Nat
  BY <1>3, RunningFinite DEF Enter, Reap, SlotsAccounted, TypeOK
<1>. QED  BY <1>1, <1>2, <1>4, QuietStep DEF Enter

LEMMA StartWorkerKeeps ==
    ASSUME IInv, NEW a \in Callers, StartWorker(a)
    PROVE  IInv'
<1>. USE DEF IInv
<1>1. /\ call' \in [Callers -> Call] /\ \A b \in Callers \ {a} : call'[b] = call[b]
      /\ call'[a] = [call[a] EXCEPT !.state = "running", !.started = 1]
      /\ call[a].state = "queued" /\ Calling(a)
  BY DEF StartWorker, TypeOK, Call
<1>2. call[a].authorized >= 1 /\ call[a].worker = "idle"
  BY <1>1 DEF Shapes, CallShape
<1>3. /\ CallShape(call'[a]) /\ call'[a].state = "running"
      /\ call'[a].authorized = call[a].authorized /\ call'[a].result = call[a].result
  BY <1>1, <1>2, CallFields DEF Shapes, CallShape, Call
<1>4. SlotsAccounted'
  BY <1>1, <1>3, SlotTaken DEF StartWorker
<1>5. free' \in Nat /\ stuck' \in Nat /\ dead' \in Nat
  BY DEF StartWorker, TypeOK
<1>. QED  BY <1>1, <1>3, <1>4, <1>5, QuietStep DEF StartWorker

\* The workers' own steps and the parent's reading of their attempts.
LEMMA WorkerKeeps ==
    ASSUME IInv, NEW a \in Callers,
           Attempt(a) \/ (\E exchange \in Exchanges : Hear(a, exchange)) \/ Break(a) \/ Poll(a)
    PROVE  IInv'
<1>. USE DEF IInv
<1>0. /\ call[a] \in Call /\ CallShape(call[a]) /\ call[a].state = "running"
      /\ UNCHANGED <<request, used, reserved, slots>>
  BY CallFields DEF Shapes, Attempt, Hear, Break, Poll
<1>. DEFINE Quiet ==
       /\ call' \in [Callers -> Call] /\ \A b \in Callers \ {a} : call'[b] = call[b]
       /\ call'[a].state = "running" /\ call'[a].authorized = call[a].authorized
       /\ call'[a].result = call[a].result /\ CallShape(call'[a])
<1>1. ASSUME Attempt(a) PROVE Quiet
  <2>1. /\ call' \in [Callers -> Call] /\ \A b \in Callers \ {a} : call'[b] = call[b]
        /\ call'[a] = [call[a] EXCEPT !.begun = @ + 1, !.worker = "trying"]
        /\ call[a].worker = "idle"
    BY <1>1 DEF Attempt, TypeOK, Call
  <2>. QED  BY <1>0, <2>1, Limits DEF CallShape, Call
<1>2. ASSUME NEW exchange \in Exchanges, Hear(a, exchange)
      PROVE  Quiet
  <2>1. Raised[exchange] \in Messages
    BY LimitsAssumption DEF Messages
  <2>. DEFINE message == IF Raised[exchange] \in Transient /\ call[a].begun < call[a].authorized
                         THEN "idle" ELSE Raised[exchange]
  <2>2. message \in Messages \/ (message = "idle" /\ call[a].begun < call[a].authorized)
    BY <2>1
  <2>3. call' = [call EXCEPT ![a].worker = message]
    BY <1>2 DEF Hear
  <2>4. call[a].worker = "trying"
    BY <1>2 DEF Hear
  <2>5. "idle" \notin Messages /\ "trying" \notin Messages
    BY DEF Messages, Raised
  <2>. HIDE DEF message
  <2>. QED  BY <1>0, <2>2, <2>3, <2>4, <2>5 DEF CallShape, Call, TypeOK
<1>3. ASSUME Break(a) PROVE Quiet
  <2>1. PICK message \in {"died", "ProviderAuthError", "ProviderTimeoutError"} :
          call' = [call EXCEPT ![a].worker = message]
    BY <1>3 DEF Break
  <2>2. message \in Messages /\ message \notin {"idle", "ProviderResult"}
    BY <2>1 DEF Messages, Raised
  <2>. QED  BY <1>0, <2>1, <2>2 DEF CallShape, Call, TypeOK
<1>4. ASSUME Poll(a) PROVE Quiet
  <2>1. /\ call' \in [Callers -> Call] /\ \A b \in Callers \ {a} : call'[b] = call[b]
        /\ call'[a] = [call[a] EXCEPT !.started = call[a].begun]
        /\ call[a].begun > call[a].started
    BY <1>4 DEF Poll, TypeOK, Call
  <2>. QED  BY <1>0, <2>1 DEF CallShape, Call
<1>5. Quiet
  BY <1>1, <1>2, <1>3, <1>4
<1>. HIDE DEF Quiet
<1>6. SlotsAccounted'
  BY <1>0, <1>5, SlotsKept DEF Quiet
<1>7. free' \in Nat /\ stuck' \in Nat /\ dead' \in Nat
  BY <1>0 DEF slots, TypeOK
<1>. QED  BY <1>0, <1>5, <1>6, <1>7, QuietStep DEF Quiet

\* The end of a call, by whatever path: the slots apart.
LEMMA SettleKeeps ==
    ASSUME IInv, NEW a \in Callers, UNCHANGED request,
           call[a].state \in {"reserved", "queued", "running"},
           call[a].state = "reserved" => Calling(a),
           NEW n \in Nat, n <= call[a].authorized,
           NEW t \in Nat, t <= n * PerAttempt,
           NEW charge, charge["attempts"] = n, charge["tokens"] = t,
           NEW result \in {"none", "READY"} \cup Blame, Settle(a, n, charge, result),
           result = "READY" => call[a].begun > 0 /\ n >= call[a].begun,
           result # "BUDGET", result = "CAPACITY" => n = 0,
           result = "DEADLINE" => clock # "far",
           SlotsAccounted', free' \in Nat, stuck' \in Nat, dead' \in Nat
    PROVE  IInv'
<1>. USE DEF IInv
<1>1. /\ call' \in [Callers -> Call] /\ \A b \in Callers \ {a} : call'[b] = call[b]
      /\ call'[a].state = "settled" /\ call'[a].worker = "idle"
      /\ call'[a].authorized = call[a].authorized /\ call'[a].started = n
      /\ call'[a].begun = call[a].begun /\ call'[a].result = result
  BY SettleEffect
<1>2. CallShape(call'[a])
  BY <1>1, CallFields DEF Shapes, CallShape
<1>3. Shapes' /\ Stages' /\ Passes' /\ FairFunding' /\ AnswerIsTruthful'
  BY <1>1, <1>2, CallStep
<1>4. a \in Open
  BY DEF Open
<1>5. BooksBalance' /\ reserved' \in [Resource -> Nat] /\ used' \in [Resource -> Nat]
  BY <1>4, BooksSettled
<1>6. TypeOK'
  BY <1>1, <1>5 DEF TypeOK, request
<1>. QED  BY <1>3, <1>5, <1>6

LEMMA GiveUpKeeps ==
    ASSUME IInv, NEW a \in Callers, GiveUp(a)
    PROVE  IInv'
<1>. USE DEF IInv
<1>1. /\ call[a].state \in {"reserved", "queued"} /\ Calling(a)
      /\ UNCHANGED <<request, slots>>
  BY DEF GiveUp, Waiting
<1>2. PICK blame \in Blame \cup {"none"} :
        /\ CASE cancelled -> blame = "none"
             [] ~cancelled -> \/ blame = "DEADLINE" /\ clock # "far"
                              \/ blame = Late("CAPACITY") /\ call[a].state = "queued" /\ free = 0
                              \/ blame = "PROVIDER"
        /\ Settle(a, 0, Need(0), blame)
  BY DEF GiveUp
<1>3. /\ blame \in {"none", "DEADLINE", "CAPACITY", "PROVIDER"}
      /\ blame = "DEADLINE" => clock # "far"
  BY <1>2 DEF TypeOK, Late
<1>4. Need(0)["attempts"] = 0 /\ Need(0)["tokens"] = 0 /\ 0 * PerAttempt = 0
  BY NeedType, Limits
<1>5. /\ call'[a].state = "settled" /\ \A b \in Callers \ {a} : call'[b] = call[b]
  BY <1>2, SettleEffect
<1>6. SlotsAccounted'
  BY <1>1, <1>5, SlotsKept
<1>7. free' \in Nat /\ stuck' \in Nat /\ dead' \in Nat
  BY <1>1 DEF slots, TypeOK
<1>8. call[a].authorized \in Nat
  BY CallFields
<1>. QED  BY <1>1, <1>2, <1>3, <1>4, <1>6, <1>7, <1>8, SettleKeeps

\* The end of a worker.
LEMMA RunningEnds ==
    ASSUME IInv, NEW a \in Callers, UNCHANGED request, call[a].state = "running",
           NEW n \in Nat, n <= call[a].authorized,
           NEW t \in Nat, t <= n * PerAttempt,
           NEW charge, charge["attempts"] = n, charge["tokens"] = t,
           NEW result \in {"none", "READY", "PROVIDER", "DEADLINE"},
           Settle(a, n, charge, result),
           result = "READY" => call[a].begun > 0 /\ n >= call[a].begun,
           result = "DEADLINE" => clock # "far",
           NEW survives \in BOOLEAN, Vacate(survives)
    PROVE  IInv'
<1>. USE DEF IInv
<1>1. result \in {"none", "READY"} \cup Blame
  BY DEF Blame
<1>2. /\ call'[a].state = "settled" /\ \A b \in Callers \ {a} : call'[b] = call[b]
  BY <1>1, SettleEffect
<1>3. SlotsAccounted' /\ free' \in Nat /\ stuck' \in Nat /\ dead' \in Nat
  BY <1>2, SlotVacated
<1>. QED  BY <1>1, <1>3, SettleKeeps

LEMMA ObservedAttempts ==
    ASSUME IInv, NEW a \in Callers, call[a].state = "running"
    PROVE  /\ Observed(a) \in Nat /\ Observed(a) <= call[a].authorized /\ Observed(a) >= 1
           /\ Observed(a) >= call[a].begun
<1>1. /\ call[a].started \in Nat /\ call[a].begun \in Nat /\ call[a].authorized \in Nat
      /\ call[a].started >= 1 /\ call[a].started <= call[a].authorized
      /\ call[a].begun <= call[a].authorized
  BY CallFields DEF IInv, Shapes, CallShape
<1>. QED  BY <1>1, MaxOfTwo DEF Observed

LEMMA DeliverKeeps ==
    ASSUME IInv, NEW a \in Callers, NEW tokens \in 0..PerAttempt, Deliver(a, tokens)
    PROVE  IInv'
<1>. DEFINE n == Observed(a)
<1>1. /\ call[a].state = "running" /\ call[a].worker = "ProviderResult"
      /\ Vacate(FALSE) /\ UNCHANGED request
  BY DEF Deliver
<1>2. PICK result \in {"READY", "PROVIDER"} : Settle(a, n, Charge(n, tokens), result)
  BY DEF Deliver
<1>3. n \in Nat /\ n >= 1 /\ n <= call[a].authorized /\ n >= call[a].begun
  BY <1>1, ObservedAttempts
<1>4. call[a].begun > 0
  BY <1>1 DEF IInv, Shapes, CallShape
<1>. HIDE DEF n
<1>. DEFINE t == (n - 1) * PerAttempt + tokens
<1>5. Charge(n, tokens)["attempts"] = n /\ Charge(n, tokens)["tokens"] = t
  BY DEF Charge
<1>6. t \in Nat /\ t <= n * PerAttempt
  <2>1. /\ PerAttempt \in Nat /\ tokens \in Nat /\ tokens <= PerAttempt /\ n - 1 \in Nat
    BY <1>3, Limits
  <2>2. (n - 1) * PerAttempt \in Nat
    BY <2>1, ProductMonotone
  <2>3. ((n - 1) + 1) * PerAttempt = (n - 1) * PerAttempt + 1 * PerAttempt
    BY <2>1, ProductDistributes
  <2>4. (n - 1) + 1 = n /\ 1 * PerAttempt = PerAttempt
    BY <1>3, <2>1
  <2>5. n * PerAttempt = (n - 1) * PerAttempt + PerAttempt
    BY <2>3, <2>4
  <2>. QED  BY <2>1, <2>2, <2>5
<1>. HIDE DEF t
<1>. QED  BY <1>1, <1>2, <1>3, <1>4, <1>5, <1>6, RunningEnds

LEMMA RejectKeeps ==
    ASSUME IInv, NEW a \in Callers, Reject(a)
    PROVE  IInv'
<1>1. call[a].state = "running" /\ UNCHANGED request
  BY DEF Reject
<1>2. PICK survives \in BOOLEAN, result \in {"PROVIDER", "DEADLINE"} :
        /\ Settle(a, Observed(a), Need(Observed(a)), result)
        /\ Vacate(survives)
        /\ result = "DEADLINE" => clock # "far"
  <2>1. PICK survives \in BOOLEAN :
          /\ Settle(a, Observed(a), Need(Observed(a)),
                    IF ~survives /\ call[a].worker = "ProviderTimeoutError"
                    THEN Late("PROVIDER") ELSE "PROVIDER")
          /\ Vacate(survives)
    BY DEF Reject
  <2>2. /\ Late("PROVIDER") \in {"PROVIDER", "DEADLINE"}
        /\ Late("PROVIDER") = "DEADLINE" => clock # "far"
    BY DEF Late
  <2>. QED  BY <2>1, <2>2
<1>3. Observed(a) \in Nat /\ Observed(a) <= call[a].authorized
  BY <1>1, ObservedAttempts
<1>4. /\ Need(Observed(a))["attempts"] = Observed(a)
      /\ Need(Observed(a))["tokens"] = Observed(a) * PerAttempt
      /\ Observed(a) * PerAttempt \in Nat
  BY <1>3, NeedType, Limits, ProductMonotone
<1>. QED  BY <1>1, <1>2, <1>3, <1>4, RunningEnds

LEMMA TerminateKeeps ==
    ASSUME IInv, NEW a \in Callers, Terminate(a)
    PROVE  IInv'
<1>. DEFINE n == call[a].started
<1>1. call[a].state = "running" /\ UNCHANGED request
  BY DEF Terminate
<1>2. PICK survives \in BOOLEAN, result \in {"none", "PROVIDER", "DEADLINE"} :
        /\ Settle(a, n, Need(n), result)
        /\ Vacate(survives)
        /\ result = "DEADLINE" => clock # "far"
  <2>1. PICK survives \in BOOLEAN :
          /\ Settle(a, n, Need(n), CASE survives -> "PROVIDER"
                                     [] ~survives /\ cancelled -> "none"
                                     [] OTHER -> Late("PROVIDER"))
          /\ Vacate(survives)
    BY DEF Terminate
  <2>2. /\ Late("PROVIDER") \in {"PROVIDER", "DEADLINE"}
        /\ Late("PROVIDER") = "DEADLINE" => clock # "far"
    BY DEF Late
  <2>3. CASE survives
    BY <2>1, <2>3
  <2>4. CASE ~survives /\ cancelled
    BY <2>1, <2>4
  <2>5. CASE ~survives /\ ~cancelled
    BY <2>1, <2>2, <2>5
  <2>. QED  BY <2>3, <2>4, <2>5
<1>3. n \in Nat /\ n <= call[a].authorized
  BY <1>1, CallFields DEF IInv, Shapes, CallShape
<1>4. /\ Need(n)["attempts"] = n /\ Need(n)["tokens"] = n * PerAttempt
      /\ n * PerAttempt \in Nat
  BY <1>3, NeedType, Limits, ProductMonotone
<1>. HIDE DEF n
<1>. QED  BY <1>1, <1>2, <1>3, <1>4, RunningEnds

-----------------------------------------------------------------------------
(* The steps of the orchestrator *)

\* An input that passes every gate.
LEMMA GateOpen ==
    ASSUME input \in AnalysisInput, Gate(input) = "none"
    PROVE  input.kill = "INACTIVE" /\ input.granted /\ input.held /\ input.quote = "past"
<1>1. KillGate(input) = "none" /\ RiskGate(input) = "none" /\ MarketGate(input) = "none"
  BY DEF Gate
<1>2. input.kill \in {"ACTIVE", "INACTIVE", "UNKNOWN"}
  BY DEF AnalysisInput
<1>3. input.kill = "INACTIVE"
  BY <1>1, <1>2 DEF KillGate
<1>4. input.granted /\ input.held
  BY <1>1 DEF RiskGate
<1>5. input.quote = "past"
  BY <1>1 DEF MarketGate, NoLookahead
<1>. QED  BY <1>3, <1>4, <1>5

LEMMA GateType ==
    ASSUME input \in AnalysisInput
    PROVE  Gate(input) \in {"none", "STALE", "BLOCKED_BY_KILL_SWITCH", "BLOCKED_BY_RISK",
                            "BLOCKED_BY_UPSTREAM"}
<1>1. input.kill \in {"ACTIVE", "INACTIVE", "UNKNOWN"}
  BY DEF AnalysisInput
<1>2. KillGate(input) \in {"none", "BLOCKED_BY_KILL_SWITCH", "BLOCKED_BY_UPSTREAM"}
  BY <1>1 DEF KillGate
<1>. QED  BY <1>2 DEF Gate, RiskGate, MarketGate

LEMMA InitEstablishes == Init => IInv
<1>. SUFFICES ASSUME Init PROVE IInv
  OBVIOUS
<1>1. TypeOK
  <2>1. call \in [Callers -> Call]
    BY DEF Init, Call
  <2>2. used \in [Resource -> Nat] /\ reserved \in [Resource -> Nat]
    BY DEF Init
  <2>3. free \in Nat /\ stuck \in Nat /\ dead \in Nat
    BY Limits DEF Init
  <2>. QED  BY <2>1, <2>2, <2>3 DEF Init, TypeOK
<1>2. \A a \in Callers :
        call[a] = [state |-> "waiting", authorized |-> 0, started |-> 0, begun |-> 0,
                   worker |-> "idle", result |-> "none"]
  BY DEF Init
<1>3. Shapes
  BY <1>2, Limits DEF Shapes, CallShape
<1>4. Stages
  BY <1>2 DEF Init, Stages
<1>5. Open = {} /\ Settled = {} /\ Running = {}
  BY <1>2 DEF Open, Settled, Running
<1>6. Cardinality(HeldAttempts) = 0 /\ Cardinality(ChargedAttempts) = 0
  BY <1>5, AttemptsArePairs, PairsEmpty
<1>7. BooksBalance
  BY <1>6, Limits DEF Init, BooksBalance, Resource
<1>8. SlotsAccounted
  <2>1. Cardinality(Running) = 0
    BY <1>5, FS_EmptySet
  <2>. QED  BY <2>1, Limits DEF Init, SlotsAccounted
<1>9. Passes /\ FairFunding
  BY DEF Init, Passes, FairFunding
<1>10. AnswerIsTruthful
  BY <1>2 DEF Init, AnswerIsTruthful
<1>. QED  BY <1>1, <1>3, <1>4, <1>7, <1>8, <1>9, <1>10 DEF IInv

\* A step that leaves the calls, the books and the slots alone.
LEMMA CallsKept ==
    ASSUME IInv, UNCHANGED <<used, reserved, call>>
    PROVE  Shapes' /\ BooksBalance'
<1>1. Shapes'
  BY DEF IInv, Shapes
<1>2. BooksBalance'
  BY BooksKept DEF IInv
<1>. QED  BY <1>1, <1>2

LEMMA AdmitKeeps ==
    ASSUME IInv, Admit
    PROVE  IInv'
<1>. USE DEF IInv
<1>1. /\ phase = "gates" /\ report' = Gate(input)
      /\ phase' = IF Gate(input) = "none" THEN "funding" ELSE "over"
      /\ UNCHANGED <<input, round, turn, clock, cancelled, used, reserved, call, slots>>
  BY DEF Admit
<1>2. \A a \in Callers : call[a].state = "waiting" /\ CallShape(call[a])
  BY <1>1 DEF Stages, Shapes
<1>3. Gate(input) \in {"none", "STALE", "BLOCKED_BY_KILL_SWITCH", "BLOCKED_BY_RISK",
                       "BLOCKED_BY_UPSTREAM"}
  BY GateType DEF TypeOK
<1>4. \A i \in 1..Len(Order) : Order[i] \in Agents
  BY CallersFinite
<1>5. TypeOK'
  BY <1>1, <1>3 DEF TypeOK, slots
<1>6. Shapes' /\ BooksBalance'
  BY <1>1, CallsKept
<1>7. Stages'
  <2>1. 1 \in 1..Len(Order)
    BY CallersFinite
  <2>. QED  BY <1>1, <1>2, <1>4, <2>1 DEF Stages, Callers
<1>8. SlotsAccounted'
  BY <1>1, SlotsKept
<1>9. Passes'
  <2>1. \A a \in Agents : call[a].authorized = 0 /\ call[a].result = "none"
    BY <1>2 DEF CallShape, Callers
  <2>. QED  BY <1>1, <1>4, <2>1 DEF Passes
<1>10. FairFunding'
  BY <1>1 DEF FairFunding
<1>11. AnswerIsTruthful'
  BY <1>1, <1>3 DEF AnswerIsTruthful
<1>. QED  BY <1>5, <1>6, <1>7, <1>8, <1>9, <1>10, <1>11

\* The turns of the funding passes.
LEMMA Turns ==
    ASSUME TypeOK, turn \in 1..Len(Order), NextTurn
    PROVE  /\ turn' \in 1..Len(Order) /\ round' \in Nat
           /\ \A i \in 1..Len(Order) :
                 /\ (IF i < turn' THEN round' + 1 ELSE round')
                      = (IF i <= turn THEN round + 1 ELSE round)
                 /\ (round' = 0 /\ i >= turn') <=> (round = 0 /\ i > turn)
BY CallersFinite DEF NextTurn, TypeOK

\* Reservations only grow while the agents are funded.
LEMMA StaysExhausted ==
    ASSUME TypeOK, Exhausted, UNCHANGED used, reserved' \in [Resource -> Nat],
           NEW n \in Nat,
           reserved' = reserved \/ reserved' = [x \in Resource |-> reserved[x] + Need(n)[x]]
    PROVE  Exhausted'
<1>1. PICK x \in Resource : Remaining[x] < Need(1)[x]
  BY DEF Exhausted
<1>2. /\ Need(1)[x] \in Nat /\ Need(n)[x] \in Nat /\ reserved[x] \in Nat /\ used[x] \in Nat
      /\ Limit[x] \in Nat /\ Need(1)' = Need(1) /\ Limit' = Limit
  BY NeedType, Limits DEF TypeOK, Need, Limit
<1>3. Remaining[x] = Limit[x] - used[x] - reserved[x]
  BY <1>2, RemainingType
<1>4. Remaining'[x] = Limit[x] - used[x] - reserved'[x]
  BY <1>2 DEF Remaining
<1>5. reserved'[x] \in Nat /\ reserved'[x] >= reserved[x]
  BY <1>2
<1>6. Remaining'[x] < Need(1)[x]
  BY <1>1, <1>2, <1>3, <1>4, <1>5
<1>. QED  BY <1>2, <1>6 DEF Exhausted

\* Only the agent whose turn it is changes.
LEMMA OneAgentFunded ==
    ASSUME TypeOK, turn \in 1..Len(Order),
           \A b \in Callers \ {Order[turn]} : call'[b] = call[b]
    PROVE  /\ Order[turn] \in Agents /\ Order[turn] \in Callers
           /\ call'[Meta] = call[Meta]
           /\ \A i \in 1..Len(Order) : Order[i] \in Agents
           /\ \A i \in 1..Len(Order) : i # turn => call'[Order[i]] = call[Order[i]]
           /\ \A b \in Agents : \E i \in 1..Len(Order) : b = Order[i]
BY CallersFinite, OrderAssumption DEF Callers, Agents

LEMMA FundKeeps ==
    ASSUME IInv, Fund
    PROVE  IInv'
<1>. DEFINE a == Order[turn]
<1>. USE DEF IInv
<1>1. /\ phase = "funding" /\ round = 0 /\ NextTurn
      /\ UNCHANGED <<input, report, phase, clock, cancelled, used, slots>>
      /\ turn \in 1..Len(Order)
  BY DEF Fund, Stages
<1>2. a \in Agents /\ a \in Callers /\ call[a].state = "waiting" /\ Meta \notin Agents
  BY <1>1, CallersFinite, OrderAssumption DEF Stages, TypeOK, Callers
<1>. HIDE DEF a
<1>3. /\ CallShape(call[a]) /\ call[a].authorized = 0 /\ call[a].result = "none"
      /\ call[a].started = 0 /\ call[a].begun = 0 /\ call[a].worker = "idle"
  BY <1>2 DEF Shapes, CallShape
<1>4. Supported(1) \in Nat /\ Supported(1) <= 1 /\ (Supported(1) < 1 => Exhausted)
  BY SupportedFits
<1>5. /\ call' \in [Callers -> Call] /\ \A b \in Callers \ {a} : call'[b] = call[b]
      /\ call'[a].state \in {"skipped", "refused", "reserved"}
      /\ CallShape(call'[a])
      /\ call'[a].authorized \in {0, 1}
      /\ call'[a].result = "BUDGET" => Exhausted
      /\ call'[a].result = "DEADLINE" => clock # "far"
      /\ call'[a].started = 0 /\ call'[a].result # "READY" /\ call'[a].state # "running"
      /\ BooksBalance' /\ reserved' \in [Resource -> Nat]
      /\ reserved' = reserved \/ reserved' = [x \in Resource |-> reserved[x] + Need(1)[x]]
  <2>1. CASE call' = [call EXCEPT ![a].state = "skipped"] /\ UNCHANGED reserved
    <3>1. /\ call' \in [Callers -> Call] /\ \A b \in Callers \ {a} : call'[b] = call[b]
          /\ call'[a] = [call[a] EXCEPT !.state = "skipped"]
      BY <1>2, <2>1 DEF TypeOK, Call
    <3>2. /\ call'[a].state = "skipped" /\ call'[a].authorized = 0 /\ call'[a].started = 0
          /\ call'[a].begun = 0 /\ call'[a].worker = "idle" /\ call'[a].result = "none"
      BY <1>2, <1>3, <3>1, CallFields DEF Call
    <3>3. CallShape(call'[a])
      BY <3>2, Limits DEF CallShape
    <3>4. BooksBalance'
      BY <1>1, <1>2, <1>3, <2>1, <3>1, <3>2, BooksKept
    <3>. QED  BY <2>1, <3>1, <3>2, <3>3, <3>4 DEF TypeOK
  <2>2. CASE Reserve(a, 1)
    <3>1. BooksBalance' /\ reserved' \in [Resource -> Nat]
      <4>1. 1 \in 1..MaxRetries + 1
        BY Limits
      <4>. QED  BY <1>1, <1>2, <2>2, <4>1, BooksReserved
    <3>2. /\ call' \in [Callers -> Call] /\ \A b \in Callers \ {a} : call'[b] = call[b]
          /\ call'[a].started = 0 /\ call'[a].begun = 0 /\ call'[a].worker = "idle"
          /\ \/ /\ call'[a].state = "refused" /\ call'[a].authorized = 0
                /\ call'[a].result = IF clock = "over" THEN "DEADLINE" ELSE "BUDGET"
                /\ clock = "over" \/ Exhausted
                /\ reserved' = reserved
             \/ /\ call'[a].state = "reserved" /\ call'[a].authorized = 1
                /\ call'[a].result = "none"
                /\ reserved' = [x \in Resource |-> reserved[x] + Need(1)[x]]
      <4>1. Supported(1) >= 1 => Supported(1) = 1
        BY <1>4
      <4>. QED  BY <1>2, <1>3, <1>4, <2>2, <4>1, ReserveEffect
    <3>3. CallShape(call'[a])
      BY <3>2, Limits DEF CallShape
    <3>. QED  BY <3>1, <3>2, <3>3
  <2>. QED  BY <2>1, <2>2 DEF Fund, a
<1>6. /\ turn' \in 1..Len(Order) /\ round' \in Nat
      /\ \A i \in 1..Len(Order) :
            /\ (IF i < turn' THEN round' + 1 ELSE round')
                 = (IF i <= turn THEN round + 1 ELSE round)
            /\ (round' = 0 /\ i >= turn') <=> (round = 0 /\ i > turn)
  BY <1>1, Turns
<1>7. /\ call'[Meta] = call[Meta]
      /\ \A i \in 1..Len(Order) : Order[i] \in Agents
      /\ \A i \in 1..Len(Order) : i # turn => call'[Order[i]] = call[Order[i]]
      /\ \A b \in Agents : \E i \in 1..Len(Order) : b = Order[i]
      /\ Agents \subseteq Callers
  BY <1>1, <1>5, OneAgentFunded DEF a, Callers
<1>8. TypeOK'
  BY <1>1, <1>5, <1>6 DEF TypeOK, slots
<1>9. Shapes'
  BY <1>5 DEF Shapes
<1>10. Stages'
  <2>1. \A i \in 1..Len(Order) :
          /\ call'[Order[i]].state \in {"waiting", "skipped", "refused", "reserved"}
          /\ call'[Order[i]].state = "waiting" <=> round' = 0 /\ i >= turn'
    <3>. SUFFICES ASSUME NEW i \in 1..Len(Order)
                  PROVE  /\ call'[Order[i]].state \in {"waiting", "skipped", "refused", "reserved"}
                         /\ call'[Order[i]].state = "waiting" <=> round' = 0 /\ i >= turn'
      OBVIOUS
    <3>1. CASE i = turn
      <4>1. ~(i > turn) /\ call'[Order[i]].state \in {"skipped", "refused", "reserved"}
        BY <1>1, <1>5, <3>1 DEF a
      <4>. QED  BY <1>6, <4>1
    <3>2. CASE i # turn
      <4>1. i > turn <=> i >= turn
        BY <1>1, <3>2
      <4>. QED  BY <1>1, <1>6, <1>7, <3>2, <4>1 DEF Stages
    <3>. QED  BY <3>1, <3>2
  <2>. QED  BY <1>1, <1>6, <1>7, <2>1 DEF Stages
<1>11. SlotsAccounted'
  BY <1>1, <1>2, <1>5, SlotsKept
<1>12. Passes'
  <2>1. \A i \in 1..Len(Order) : call'[Order[i]].authorized \in {0, 1}
    <3>1. \A i \in 1..Len(Order) : call[Order[i]].authorized \in {0, 1}
      <4>1. \A i \in 1..Len(Order) : call[Order[i]].authorized \in Nat /\ call[Order[i]].authorized <= 1
        BY <1>1, <1>7, CallFields DEF Passes
      <4>. QED  BY <4>1
    <3>. QED  BY <1>5, <1>7, <3>1 DEF a
  <2>2. Exhausted => Exhausted'
    BY <1>1, <1>5, StaysExhausted
  <2>3. \A i \in 1..Len(Order) : call'[Order[i]].authorized > 0 => i <= turn
    <3>. SUFFICES ASSUME NEW i \in 1..Len(Order), call'[Order[i]].authorized > 0, i > turn
                  PROVE  FALSE
      BY <1>1
    <3>1. call[Order[i]].state = "waiting" /\ call'[Order[i]] = call[Order[i]]
      BY <1>1, <1>7 DEF Stages
    <3>2. call[Order[i]].authorized = 0
      BY <1>7, <3>1 DEF Shapes, CallShape
    <3>. QED  BY <3>1, <3>2
  <2>4. \A b \in Agents : call'[b].result = "BUDGET" => Exhausted'
    BY <1>1, <1>5, <1>7, <2>2 DEF Passes
  <2>5. \A b \in Agents : call'[b].authorized <= 1
    BY <1>7, <2>1
  <2>6. \A i, j \in 1..Len(Order) :
          call'[Order[i]].authorized > 0 /\ call'[Order[j]].authorized > 0 =>
              call'[Order[i]].authorized - call'[Order[j]].authorized = 0
    <3>1. \A i \in 1..Len(Order) : call'[Order[i]].authorized > 0 => call'[Order[i]].authorized = 1
      BY <2>1
    <3>. QED  BY <3>1
  <2>7. \A i \in 1..Len(Order) : call'[Order[i]].authorized > 0 =>
          call'[Order[i]].authorized = IF i < turn' THEN round' + 1 ELSE round'
    <3>. SUFFICES ASSUME NEW i \in 1..Len(Order), call'[Order[i]].authorized > 0
                  PROVE  call'[Order[i]].authorized = IF i < turn' THEN round' + 1 ELSE round'
      OBVIOUS
    <3>1. call'[Order[i]].authorized = 1
      BY <2>1
    <3>2. (IF i < turn' THEN round' + 1 ELSE round') = round + 1
      BY <1>6, <2>3
    <3>. QED  BY <1>1, <3>1, <3>2
  <2>. QED  BY <1>6, <2>1, <2>4, <2>5, <2>6, <2>7 DEF Passes
<1>13. FairFunding'
  BY <1>1 DEF FairFunding
<1>14. AnswerIsTruthful'
  <2>1. report' = "none"
    BY <1>1 DEF Stages
  <2>. QED  BY <1>1, <1>5, <2>1 DEF AnswerIsTruthful
<1>. QED  BY <1>5, <1>8, <1>9, <1>10, <1>11, <1>12, <1>13, <1>14

LEMMA FundRetryKeeps ==
    ASSUME IInv, FundRetry
    PROVE  IInv'
<1>. DEFINE a == Order[turn]
<1>. USE DEF IInv
<1>1. /\ phase = "funding" /\ round \in 1..MaxRetries /\ NextTurn /\ Authorize(a)
      /\ UNCHANGED <<input, report, phase, clock, cancelled, used, slots>>
      /\ turn \in 1..Len(Order)
  BY DEF FundRetry, Stages
<1>2. a \in Callers /\ a \in Agents
  BY <1>1, CallersFinite DEF Callers
<1>. HIDE DEF a
<1>3. /\ call' \in [Callers -> Call] /\ \A b \in Callers \ {a} : call'[b] = call[b]
      /\ call'[a].state = call[a].state /\ call'[a].result = call[a].result
      /\ call'[a].started = call[a].started /\ call'[a].begun = call[a].begun
      /\ call'[a].worker = call[a].worker
  BY <1>1, <1>2, AuthorizeEffect
<1>4. \/ /\ call[a].state = "reserved" /\ call[a].authorized < MaxRetries + 1
         /\ ~Exhausted
         /\ call'[a].authorized = call[a].authorized + 1
         /\ reserved' = [x \in Resource |-> reserved[x] + Need(1)[x]]
      \/ /\ Exhausted \/ call[a].state # "reserved" \/ call[a].authorized >= MaxRetries + 1
         /\ call' = call /\ reserved' = reserved
  BY <1>1, <1>2, AuthorizeEffect
<1>5. BooksBalance' /\ reserved' \in [Resource -> Nat]
  BY <1>1, <1>2, BooksAuthorized
<1>6. /\ turn' \in 1..Len(Order) /\ round' \in Nat
      /\ \A i \in 1..Len(Order) :
            /\ (IF i < turn' THEN round' + 1 ELSE round')
                 = (IF i <= turn THEN round + 1 ELSE round)
            /\ (round' = 0 /\ i >= turn') <=> (round = 0 /\ i > turn)
  BY <1>1, Turns
<1>7. /\ call'[Meta] = call[Meta]
      /\ \A i \in 1..Len(Order) : Order[i] \in Agents
      /\ \A i \in 1..Len(Order) : i # turn => call'[Order[i]] = call[Order[i]]
      /\ \A b \in Agents : \E i \in 1..Len(Order) : b = Order[i]
      /\ Agents \subseteq Callers
  BY <1>1, <1>3, OneAgentFunded DEF a, Callers
<1>8. TypeOK'
  BY <1>1, <1>3, <1>5, <1>6 DEF TypeOK, slots
<1>9. Shapes'
  <2>1. CallShape(call[a]) /\ call[a].authorized \in Nat
    BY <1>2, CallFields DEF Shapes
  <2>2. CallShape(call'[a])
    BY <1>3, <1>4, <2>1, Limits DEF CallShape
  <2>. QED  BY <1>3, <2>2 DEF Shapes
<1>10. round # 0 /\ round' # 0
  <2>1. \E i \in 1..Len(Order) : i = turn
    BY <1>1
  <2>. QED  BY <1>1, Limits DEF NextTurn
<1>11. Stages'
  <2>1. \A i \in 1..Len(Order) : call'[Order[i]].state = call[Order[i]].state
    BY <1>3, <1>7 DEF a
  <2>. QED  BY <1>1, <1>6, <1>7, <1>10, <2>1 DEF Stages
<1>12. SlotsAccounted'
  BY <1>1, <1>3, SlotsKept
<1>13. Passes'
  <2>1. Exhausted => Exhausted'
    BY <1>1, <1>4, <1>5, StaysExhausted
  <2>2. CASE Exhausted
    BY <1>1, <1>4, <1>10, <2>1, <2>2 DEF Passes
  <2>3. CASE ~Exhausted
    <3>1. \A i \in 1..Len(Order) : call[Order[i]].authorized > 0 =>
            call[Order[i]].authorized = IF i < turn THEN round + 1 ELSE round
      BY <1>1, <2>3 DEF Passes
    <3>2. \A i \in 1..Len(Order) :
            call'[Order[i]].authorized > 0 =>
                call'[Order[i]].authorized = IF i <= turn THEN round + 1 ELSE round
      <4>. SUFFICES ASSUME NEW i \in 1..Len(Order), call'[Order[i]].authorized > 0
                    PROVE  call'[Order[i]].authorized = IF i <= turn THEN round + 1 ELSE round
        OBVIOUS
      <4>1. CASE i # turn
        BY <1>1, <1>7, <3>1, <4>1
      <4>2. CASE i = turn
        <5>1. CASE call[a].state = "reserved"
          <6>1. call[a].authorized >= 1 /\ call[a].authorized \in Nat
            BY <1>2, <5>1, CallFields DEF Shapes, CallShape
          <6>2. call[a].authorized = round
            BY <1>1, <3>1, <4>2, <6>1 DEF a
          <6>3. call'[a].authorized = round + 1
            BY <1>1, <1>4, <2>3, <5>1, <6>2, Limits
          <6>. QED  BY <1>1, <4>2, <6>3 DEF a
        <5>2. CASE call[a].state # "reserved"
          <6>1. call[a].authorized = 0
            <7>1. call[a].state \in {"waiting", "skipped", "refused"}
              BY <1>1, <5>2 DEF Stages, a
            <7>. QED  BY <1>2, <7>1 DEF Shapes, CallShape
          <6>2. call'[a].authorized = 0
            BY <1>4, <5>2, <6>1
          <6>. QED  BY <4>2, <6>2 DEF a
        <5>. QED  BY <5>1, <5>2
      <4>. QED  BY <4>1, <4>2
    <3>3. \A i \in 1..Len(Order) :
            call'[Order[i]].authorized > 0 =>
                call'[Order[i]].authorized = IF i < turn' THEN round' + 1 ELSE round'
      BY <1>6, <3>2
    <3>4. \A b \in Agents : call'[b].result # "BUDGET"
      <4>1. \A b \in Agents : call[b].result # "BUDGET"
        BY <1>1, <2>3 DEF Passes
      <4>. QED  BY <1>3, <1>7, <4>1
    <3>5. \A i, j \in 1..Len(Order) :
            i < j /\ call'[Order[i]].authorized > 0 /\ call'[Order[j]].authorized > 0 =>
                call'[Order[i]].authorized - call'[Order[j]].authorized \in {0, 1}
      BY <1>1, <3>2
    <3>. QED  BY <1>10, <3>3, <3>4, <3>5 DEF Passes
  <2>. QED  BY <2>2, <2>3
<1>14. FairFunding'
  BY <1>1 DEF FairFunding
<1>15. AnswerIsTruthful'
  <2>1. report' = "none"
    BY <1>1 DEF Stages
  <2>2. \A b \in Callers : /\ call'[b].result = call[b].result
                           /\ call'[b].started = call[b].started
                           /\ call'[b].begun = call[b].begun
    BY <1>3
  <2>. QED  BY <1>1, <2>1, <2>2 DEF AnswerIsTruthful
<1>. QED  BY <1>5, <1>8, <1>9, <1>11, <1>12, <1>13, <1>14, <1>15

LEMMA LaunchKeeps ==
    ASSUME IInv, Launch
    PROVE  IInv'
<1>. USE DEF IInv
<1>1. /\ phase = "funding" /\ phase' = "agents"
      /\ UNCHANGED <<input, report, round, turn, clock, cancelled, used, reserved, call, slots>>
  BY DEF Launch
<1>2. TypeOK'
  BY <1>1 DEF TypeOK, slots
<1>3. Shapes' /\ BooksBalance' /\ SlotsAccounted'
  BY <1>1, CallsKept, SlotsKept
<1>4. Stages'
  BY <1>1 DEF Stages
<1>5. Passes'
  BY <1>1 DEF Passes
<1>6. FairFunding'
  BY <1>1 DEF Passes, FairFunding
<1>7. AnswerIsTruthful'
  BY <1>1 DEF Stages, AnswerIsTruthful
<1>. QED  BY <1>2, <1>3, <1>4, <1>5, <1>6, <1>7

LEMMA SynthesizeKeeps ==
    ASSUME IInv, Synthesize
    PROVE  IInv'
<1>. USE DEF IInv
<1>1. /\ phase = "agents" /\ \A b \in Agents : Ended(b)
      /\ UNCHANGED <<input, round, turn, clock, cancelled, used, slots>>
      /\ call[Meta].state = "waiting" /\ report = "none" /\ Gate(input) = "none"
      /\ Meta \in Callers /\ Meta \notin Agents /\ Agents \subseteq Callers
      /\ \A b \in Callers : b \in Agents \/ b = Meta
  BY OrderAssumption DEF Synthesize, Stages, Callers
<1>2. CASE cancelled
  <2>1. phase' = "over" /\ report' = "CANCELLED" /\ UNCHANGED <<call, reserved>>
    BY <1>2 DEF Synthesize
  <2>2. TypeOK'
    BY <1>1, <2>1 DEF TypeOK, slots
  <2>3. Shapes' /\ BooksBalance' /\ SlotsAccounted'
    BY <1>1, <2>1, CallsKept, SlotsKept
  <2>4. Stages'
    BY <1>1, <2>1 DEF Stages, Ended
  <2>5. Passes' /\ FairFunding'
    BY <2>1 DEF Passes, FairFunding
  <2>6. AnswerIsTruthful'
    BY <1>1, <2>1 DEF AnswerIsTruthful
  <2>. QED  BY <2>2, <2>3, <2>4, <2>5, <2>6
<1>3. CASE ~cancelled
  <2>1. phase' = "meta" /\ Reserve(Meta, MaxRetries + 1) /\ UNCHANGED report
    BY <1>3 DEF Synthesize
  <2>2. MaxRetries + 1 \in 1..MaxRetries + 1 /\ MaxRetries + 1 \in Nat
    BY Limits
  <2>3. BooksBalance' /\ reserved' \in [Resource -> Nat]
    BY <1>1, <2>1, <2>2, BooksReserved
  <2>4. /\ Supported(MaxRetries + 1) \in Nat /\ Supported(MaxRetries + 1) <= MaxRetries + 1
    BY <2>2, SupportedFits
  <2>5. /\ CallShape(call[Meta]) /\ call[Meta].authorized = 0 /\ call[Meta].result = "none"
        /\ call[Meta].started = 0 /\ call[Meta].begun = 0 /\ call[Meta].worker = "idle"
    BY <1>1 DEF Shapes, CallShape
  <2>6. /\ call' \in [Callers -> Call] /\ \A b \in Callers \ {Meta} : call'[b] = call[b]
        /\ call'[Meta].started = 0 /\ call'[Meta].begun = 0 /\ call'[Meta].worker = "idle"
        /\ \/ /\ call'[Meta].state = "refused" /\ call'[Meta].authorized = 0
              /\ call'[Meta].result = IF clock = "over" THEN "DEADLINE" ELSE "BUDGET"
           \/ /\ call'[Meta].state = "reserved" /\ call'[Meta].result = "none"
              /\ call'[Meta].authorized \in 1..MaxRetries + 1
    BY <1>1, <2>1, <2>4, <2>5, ReserveEffect
  <2>7. CallShape(call'[Meta])
    BY <2>6, Limits DEF CallShape
  <2>8. TypeOK'
    BY <1>1, <2>1, <2>3, <2>6 DEF TypeOK, slots
  <2>9. Shapes'
    BY <2>6, <2>7 DEF Shapes
  <2>10. \A b \in Agents : call'[b] = call[b]
    BY <1>1, <2>6
  <2>11. Stages'
    BY <1>1, <2>1, <2>10 DEF Stages, Ended
  <2>12. SlotsAccounted'
    BY <1>1, <2>6, SlotsKept
  <2>13. Passes' /\ FairFunding'
    BY <2>1 DEF Passes, FairFunding
  <2>14. AnswerIsTruthful'
    BY <1>1, <2>1, <2>6 DEF AnswerIsTruthful
  <2>. QED  BY <2>3, <2>8, <2>9, <2>11, <2>12, <2>13, <2>14
<1>. QED  BY <1>2, <1>3

LEMMA AnswerKeeps ==
    ASSUME IInv, Answer
    PROVE  IInv'
<1>. USE DEF IInv
<1>1. /\ phase = "meta" /\ Ended(Meta) /\ phase' = "over"
      /\ report' = IF call[Meta].result = "none" THEN "CANCELLED" ELSE Status
      /\ UNCHANGED <<input, round, turn, clock, cancelled, used, reserved, call, slots>>
      /\ \A b \in Agents : Ended(b)
      /\ Gate(input) = "none" /\ \A b \in Callers : b \in Agents \/ b = Meta
  BY DEF Answer, Stages, Callers
<1>2. Status \in {"READY", "PARTIAL", "DEGRADED", "UNAVAILABLE"}
  BY DEF Status
<1>3. TypeOK'
  BY <1>1, <1>2 DEF TypeOK, slots
<1>4. Shapes' /\ BooksBalance' /\ SlotsAccounted'
  BY <1>1, CallsKept, SlotsKept
<1>5. Stages'
  BY <1>1 DEF Stages, Ended
<1>6. Passes' /\ FairFunding'
  BY <1>1 DEF Passes, FairFunding
<1>7. AnswerIsTruthful'
  <2>1. input.kill = "INACTIVE" /\ input.granted /\ input.held /\ input.quote = "past"
    BY <1>1, GateOpen DEF TypeOK
  <2>2. Ready' = Ready
    BY <1>1 DEF Ready
  <2>3. CASE Status = "READY"
    <3>1. Ready = Agents /\ call[Meta].result = "READY"
      BY <2>3 DEF Status
    <3>2. Cardinality(Agents) = Len(Order) /\ Len(Order) \in Nat
      BY OrderAssumption, CallersFinite
    <3>. QED  BY <1>1, <2>1, <2>2, <2>3, <3>1, <3>2 DEF AnswerIsTruthful
  <2>4. CASE Status = "PARTIAL"
    <3>1. Cardinality(Ready) >= Enough /\ call[Meta].result = "READY"
      BY <2>4 DEF Status
    <3>. QED  BY <1>1, <2>1, <2>2, <2>4, <3>1 DEF AnswerIsTruthful
  <2>5. CASE Status \notin {"READY", "PARTIAL"}
    BY <1>1, <2>5 DEF AnswerIsTruthful
  <2>. QED  BY <2>3, <2>4, <2>5
<1>. QED  BY <1>3, <1>4, <1>5, <1>6, <1>7

LEMMA PerishKeepsSlots ==
    ASSUME TypeOK, SlotsAccounted, UNCHANGED call,
           Perish \/ UNCHANGED slots
    PROVE  SlotsAccounted'
<1>1. CASE UNCHANGED slots
  BY <1>1, SlotsKept
<1>2. CASE Perish
  <2>1. Running' = Running
    BY DEF Running
  <2>2. /\ free \in Nat /\ stuck \in Nat /\ dead \in Nat
        /\ free' = free /\ stuck' = stuck - 1 /\ dead' = dead + 1
    BY <1>2 DEF Perish, TypeOK
  <2>. QED  BY <2>1, <2>2, RunningFinite DEF SlotsAccounted
<1>. QED  BY <1>1, <1>2

\* The deadline, the cancellation and the death of a survivor.
LEMMA ElsewhereKeeps ==
    ASSUME IInv, Expire \/ Cancel \/ Perish \/ UNCHANGED vars
    PROVE  IInv'
<1>. USE DEF IInv
<1>1. /\ UNCHANGED <<input, report, phase, round, turn, used, reserved, call>>
      /\ clock' \in {"far", "near", "over"} /\ cancelled' \in BOOLEAN
      /\ clock # "far" => clock' # "far"
      /\ free' \in Nat /\ stuck' \in Nat /\ dead' \in Nat
  <2>1. CASE Expire
    BY <2>1 DEF Expire, TypeOK, slots
  <2>2. CASE Cancel
    BY <2>2 DEF Cancel, TypeOK, slots
  <2>3. CASE Perish
    BY <2>3 DEF Perish, TypeOK, request
  <2>4. CASE UNCHANGED vars
    BY <2>4 DEF vars, TypeOK
  <2>. QED  BY <2>1, <2>2, <2>3, <2>4
<1>2. TypeOK'
  BY <1>1 DEF TypeOK
<1>3. Shapes' /\ BooksBalance'
  BY <1>1, CallsKept
<1>4. SlotsAccounted'
  BY <1>1, PerishKeepsSlots DEF Expire, Cancel, vars, slots
<1>5. Stages'
  BY <1>1 DEF Stages, Ended
<1>6. Passes'
  BY <1>1 DEF Passes, Exhausted, Remaining, Need, Limit
<1>7. FairFunding'
  BY <1>1 DEF FairFunding
<1>8. AnswerIsTruthful'
  BY <1>1 DEF AnswerIsTruthful, Ready
<1>. QED  BY <1>2, <1>3, <1>4, <1>5, <1>6, <1>7, <1>8

-----------------------------------------------------------------------------
(* The theorems *)

LEMMA NextKeeps ==
    ASSUME IInv, [Next]_vars
    PROVE  IInv'
<1>1. CASE Orchestrate
  BY <1>1, AdmitKeeps, FundKeeps, FundRetryKeeps, LaunchKeeps, SynthesizeKeeps, AnswerKeeps
     DEF Orchestrate
<1>2. CASE Expire \/ Cancel \/ Perish \/ Rest \/ UNCHANGED vars
  BY <1>2, ElsewhereKeeps DEF Rest
<1>3. ASSUME NEW a \in Callers,
             \/ Enter(a)
             \/ GiveUp(a)
             \/ StartWorker(a)
             \/ Attempt(a)
             \/ \E exchange \in Exchanges : Hear(a, exchange)
             \/ Break(a)
             \/ Poll(a)
             \/ \E tokens \in 0..PerAttempt : Deliver(a, tokens)
             \/ Reject(a)
             \/ Terminate(a)
      PROVE  IInv'
  BY <1>3, EnterKeeps, GiveUpKeeps, StartWorkerKeeps, WorkerKeeps, DeliverKeeps, RejectKeeps,
     TerminateKeeps
<1>. QED  BY <1>1, <1>2, <1>3 DEF Next

LEMMA Invariance == Spec => []IInv
<1>1. Init => IInv
  BY InitEstablishes
<1>2. IInv /\ [Next]_vars => IInv'
  BY NextKeeps
<1>. QED  BY <1>1, <1>2, PTL DEF Spec

\* Every variable keeps its type: in particular nothing used, reserved or free is ever
\* negative.
THEOREM TypeCorrect == Spec => []TypeOK
<1>1. IInv => TypeOK
  BY DEF IInv
<1>. QED  BY <1>1, Invariance, PTL

\* The budget's books balance, whatever the limits, and the limits hold: the check that
\* _assert_invariants_locked makes never fails.
THEOREM BooksAlwaysBalance == Spec => []BooksBalance
<1>1. IInv => BooksBalance
  BY DEF IInv
<1>. QED  BY <1>1, Invariance, PTL

\* No slot of GlobalProviderLimiter is lost or released twice, however workers end.
THEOREM SlotsAlwaysAccounted == Spec => []SlotsAccounted
<1>1. IInv => SlotsAccounted
  BY DEF IInv
<1>. QED  BY <1>1, Invariance, PTL

\* The funding of analyze() is fair to any number of agents under any limits.
THEOREM FundingIsFair == Spec => []FairFunding
<1>1. IInv => FairFunding
  BY DEF IInv
<1>. QED  BY <1>1, Invariance, PTL

\* The status of an answer and the results it rests on are never claimed without cause.
THEOREM AnswersAreTruthful == Spec => []AnswerIsTruthful
<1>1. IInv => AnswerIsTruthful
  BY DEF IInv
<1>. QED  BY <1>1, Invariance, PTL
===============================================================================
