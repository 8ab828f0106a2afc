\* All four scripts at once. They make five logins in all, one more than a window
\* admits, and place five orders of which four are open at most, with three units.
SPECIFICATION TestsSpec
CONSTANTS
    Scripts = {"phase1", "phase2", "mongodb", "rabbitmq"}
    Stock = 3
    LoginLimit = 4
    Attempts = 5
    MaxOrders = 5
INVARIANTS
    TestsTypeOK
    FailureExplained
PROPERTIES
    EveryScriptEnds
CHECK_DEADLOCK FALSE
