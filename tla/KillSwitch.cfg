SPECIFICATION FairSpec
CONSTANTS
    Workers = {w1, w2}
    Sources = {mt5}
    Threshold = 2
    MaxClock = 1
    MaxRecords = 4
    MaxFailures = 4
    Nobody = nobody
    NoRecord = norecord
INVARIANTS
    TypeOK
    LatestIsLast
    ActionsAlternate
    TrippingEvaluationSeesActive
PROPERTIES
    ImplementsRegister
    TransactionsEnd
