\* Two payments of one order, both charged.
SPECIFICATION FairPaySpec
CONSTANTS
    Threads = {t1, t2}
    NoThread = NoThread
INVARIANTS
    ChargedOnce
CHECK_DEADLOCK FALSE
