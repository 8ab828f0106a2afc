\* One event, which two relays may send twice and two consumers may handle at
\* once, and four faults of any kind: enough for create_index to fail in
\* both processes, for one of them to end, and for one fault before that.
SPECIFICATION FairSpec
CONSTANTS
    Messages = {1}
    Relays = {r1, r2}
    Consumers = {k1, k2}
    NoMessage = NoMessage
    BatchSize = 1
    MaxCopies = 2
    Faults = {"crash", "send", "lost", "amqp", "exit", "mongo"}
    MaxFaults = 4
INVARIANTS
    TypeOK
    PublishedIsAccounted
    AuditedOnce
PROPERTIES
    StagedIsDelivered
CHECK_DEADLOCK FALSE
