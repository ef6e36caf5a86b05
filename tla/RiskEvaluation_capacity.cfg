SPECIFICATION Spec
CONSTANTS
    TradingMode = "PAPER"
    AsOf = {}
    c1 = c1
    c2 = c2
    c3 = c3
    Workers = {w1, w2}
    Accounts = {a1}
    Candidates = {c1, c2, c3}
    Direction <- Sides
    PlanExpiry <- Expiry
    Requests = {2}
    Situations <- BeforeRelease
    Sizable = {1, 2, 3}
    DefaultBalance = 100
    LongAgo <- Never
    NoServer = "none"
    System = "system"
    QuoteFreshness = 2
    AccountFreshness = 3
    SpecFreshness = 8
    MaxSpread = 5
    DailyLossLimit = 3
    WeeklyLossLimit = 6
    MaxDrawdown = 10
    CooldownLosses = 3
    CooldownPeriod = 2
    BlackoutPre = 1
    WindowPre = 3
    WindowPost = 3
    MinRisk = 1
    MaxRisk = 2
    MaxAccountRisk = 3
    MaxSymbolRisk = 3
    MaxDirectionalRisk = 2
    MaxConcurrent = 2
    TTL = 1
    MaxTime = 1
    MaxTransitions = 0
    MaxSwitches = 0
    MaxDecisions = 4
    HealthRow = health
    SwitchAction = switchaction
    Nobody = nobody
SYMMETRY Interchangeable
INVARIANTS
    TypeOK
    UniqueRows
    WithinCapacity
