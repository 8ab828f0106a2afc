\* Three requests at any mix of the two gateways, by a user, an admin or
\* without a token; one request per window.
SPECIFICATION Spec
CONSTANTS
    Requests = {r1, r2, r3}
    Users = {u}
    Admins = {a}
    Nobody = Nobody
    MaxRequests = 1
    Repeats = 1
    RedisFails = TRUE
INVARIANTS
    TypeOK
    BudgetKept
    CountedWindowIsTimed
SYMMETRY Symmetry
CHECK_DEADLOCK FALSE
