SPECIFICATION Spec
CONSTANTS
    Requests = {r1, r2}
    Users = {u1}
    SessionIds = {s1, s2, s3}
    Grace = 0
    Lifetime = 2
    MaxTime = 2
    Never = never
    NoSession = nosession
    Nobody = nobody
SYMMETRY Interchangeable
INVARIANTS
    TypeOK
    OneUnspentPerFamily
    RevokedFamilyStaysOver
PROPERTIES
    RevocationIsComplete
    ImplementsFamilies
