\* Three concurrent payments of one order: a holder, a waiter and a newcomer.
\* Five remote calls with one permit, two pool threads and one place in the queue.
SPECIFICATION PaymentSpec
CONSTANTS
    Threads = {t1, t2, t3}
    NoThread = NoThread
    SyncCalls = {s1, s2, s3}
    AsyncCalls = {a1, a2}
    Permits = 1
    CorePool = 1
    MaxPool = 2
    QueueCapacity = 1
INVARIANTS
    EntryInUse
    OneWinner
    TypeOK
    PermitsConserved
    FailureReportedOnce
PROPERTIES
    EveryCallAnswered
    EveryCallReturns
CHECK_DEADLOCK FALSE
