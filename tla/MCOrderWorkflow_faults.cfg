\* Four calls, two idempotency keys and a row of the older schema, two replicas
\* of the scheduler, every fault. The stock is enough for one order and a half.
SPECIFICATION Spec
CONSTANTS
    Calls = {c1, c2, c3, c4}
    Ids = {o1, o2, o3}
    Requests = {r1, r2}
    Legacy = {o1}
    NoOrder = NoOrder
    NoRequest = NoRequest
    InitialStock = 3
    Quantity = 2
    Schedulers = {s1, s2}
    BatchSize = 1
    CouponEnabled = TRUE
    PaymentEnabled = TRUE
    Faults = {"crash", "lost", "overload"}
SYMMETRY Symmetry
INVARIANTS
    TypeOK
    OutboxMatchesStatus
    PaidBeforeShipped
    CouponFlowOrdered
    OneOrderPerRequest
    StockAccounted
PROPERTIES
    RefinesLifecycle
CHECK_DEADLOCK FALSE
