\* Two replicas race to complete two shipped orders, one order per page.
SPECIFICATION FairSpec
CONSTANTS
    Calls = {c1, c2, c3}
    Ids = {o1, o2}
    Requests = {r1}
    Legacy = {o1, o2}
    NoOrder = NoOrder
    NoRequest = NoRequest
    InitialStock = 3
    Quantity = 2
    Schedulers = {s1, s2}
    BatchSize = 1
    CouponEnabled = FALSE
    PaymentEnabled = FALSE
    Faults = {"lost"}
PROPERTIES
    DueOrderCompletes
CHECK_DEADLOCK FALSE
