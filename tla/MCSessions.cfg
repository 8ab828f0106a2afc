\* A user and an admin, one token, four requests; half seconds, and a token
\* that lives for two seconds.
SPECIFICATION Spec
CONSTANTS
    Users = {u, a}
    Admins = {a}
    NoUser = NoUser
    Tokens = {k}
    NoToken = NoToken
    Calls = {c1, c2, c3, c4}
    TicksPerSecond = 2
    LifeSeconds = 2
    MaxTime = 5
    RedisFails = TRUE
SYMMETRY Symmetry
INVARIANTS
    TypeOK
    RevokedIsRefused
    NoAccountUpdateLost
CHECK_DEADLOCK FALSE
