\* One call creates the order and one pays it. Nothing crashes and no answer is
\* lost: only a pool that is full refuses work.
SPECIFICATION Spec
CONSTANTS
    Calls = {c1, c2}
    Ids = {o1}
    Requests = {r1}
    Legacy = {}
    NoOrder = NoOrder
    NoRequest = NoRequest
    InitialStock = 2
    Quantity = 2
    Schedulers = {}
    BatchSize = 1
    CouponEnabled = TRUE
    PaymentEnabled = TRUE
    Faults = {"overload"}
INVARIANTS
    ChargedIsPaid
CHECK_DEADLOCK FALSE
