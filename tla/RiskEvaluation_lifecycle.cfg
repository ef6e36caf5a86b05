SPECIFICATION FairSpec
CONSTANTS
    TradingMode = "BACKTEST"
    AsOf = {1}
    c1 = c1
    c2 = c2
    c3 = c3
    Workers = {w1, w2}
    Accounts = {a1, a2}
    Candidates = {c2}
    Direction <- Sides
    PlanExpiry <- Expiry
    Requests = {1}
    Situations <- Quiet
    Sizable = {1, 2, 3}
    DefaultBalance = 100
    LongAgo <- Never
    NoServer = "none"
    System = "system"
    QuoteFreshness = 2
    AccountFreshness = 3
    SpecFreshness = 8
    MaxSpread = 5
    DailyLossLimit = 3
    WeeklyLossLimit = 6
    MaxDrawdown = 10
    CooldownLosses = 3
    CooldownPeriod = 2
    BlackoutPre = 1
    WindowPre = 3
    WindowPost = 3
    MinRisk = 1
    MaxRisk = 2
    MaxAccountRisk = 3
    MaxSymbolRisk = 3
    MaxDirectionalRisk = 2
    MaxConcurrent = 2
    TTL = 1
    MaxTime = 0
    MaxTransitions = 1
    MaxSwitches = 2
    MaxDecisions = 2
    HealthRow = health
    SwitchAction = switchaction
    Nobody = nobody
PROPERTIES
    EndedGetsNothing
    NoRevivalAcrossActivation
    EvaluationsEnd
