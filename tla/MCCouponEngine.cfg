\* One order with a number and requests without one, amounts next to the
\* thresholds, one coupon of each type, one request per window.
SPECIFICATION Spec
CONSTANTS
    Calls = {c1, c2, c3}
    Orders = {o}
    NoOrder = NoOrder
    Amounts = {199994, 199995, 600000, 900000}
    StartBalance = 1
    MaxIssues = 1
    MaxClaims = 1
    RedisFails = TRUE
    Simulated = TRUE
INVARIANTS
    TypeOK
    BalanceAccounted
    BestCouponGiven
    RecordsAreTrue
    CounterEnds
SYMMETRY Symmetry
CHECK_DEADLOCK FALSE
