\* One order paid twice, two replicas, two retries and one fault.
SPECIFICATION FairSpec
CONSTANTS
    Orders = {o1}
    NoOrder = NoOrder
    Eligible = {o1}
    Jobs = {j1, j2}
    Replicas = {r1, r2}
    PageSize = 1
    MaxRetries = 2
    MaxFaults = 1
INVARIANTS
    SuccessIsGranted
    GivenUpAfterRetries
PROPERTY
    EveryTaskSettles
CHECK_DEADLOCK FALSE
