SPECIFICATION Spec
CONSTANTS
    Tabs = {t1, t2}
    Users = {u1, u2}
    MaxSessions = 3
    MaxActs = 4
    None = none
CHECK_DEADLOCK FALSE
SYMMETRY Interchangeable
INVARIANTS
    TypeOK
    NothingRestored
    HonestUnlessLost
    TabsAgreeAtRest
    RetriesKeepTheirUser
