---------------------------- MODULE InFlightLock ----------------------------
(***************************************************************************)
(* OrderInFlightLockManager inside one JVM, around the payment of one      *)
(* order: withOrderLock(orderId, doPayOrder) called from payOrder, which   *)
(* is @Transactional. The lock lives inside the transaction, so a thread   *)
(* unlocks, tidies the map, and only then commits.                         *)
(*                                                                         *)
(* Entries of the ConcurrentHashMap for different orders are independent,  *)
(* so one order is enough. ReentrantLock is the non-fair one of the JDK: a *)
(* thread may take a free lock past the queue.                             *)
(***************************************************************************)
EXTENDS Naturals, FiniteSets

CONSTANTS
    Threads,   \* concurrent payOrder requests for the order; each runs once
    NoThread   \* nobody

ASSUME ThreadAssumption == NoThread \notin Threads

VARIABLES
    entry,    \* the lock the map holds for the order, 0 when it holds none
    made,     \* locks created so far; they are numbered from 1
    owner,    \* owner[l]: the thread that holds lock l
    pc,       \* where each thread is
    mine,     \* mine[t]: the lock computeIfAbsent gave to t
    paid,     \* the committed row: paid for, or still PAYING
    version,  \* its version column
    seen,     \* seen[t]: the version t has read
    result,   \* result[t]: what became of the call
    charges   \* charges made by the payment platform

lockVars == <<entry, made, owner, mine>>
rowVars == <<paid, version>>
payVars == <<lockVars, pc, rowVars, seen, result, charges>>

Locks == 1 .. Cardinality(Threads)

\* The steps between computeIfAbsent and the end of the finally block.
Using == {"acquire", "queued", "read", "charge", "unlock", "tidy"}

PayInit ==
    /\ entry = 0
    /\ made = 0
    /\ owner = [l \in Locks |-> NoThread]
    /\ pc = [t \in Threads |-> "idle"]
    /\ mine = [t \in Threads |-> 0]
    /\ paid = FALSE
    /\ version = 0
    /\ seen = [t \in Threads |-> 0]
    /\ result = [t \in Threads |-> "none"]
    /\ charges = 0

\* Definitions named Bug... are seeded defects. No action uses them: each
\* replaces the definition after it to show that a property can fail.

Goto(t, step) == pc' = [pc EXCEPT ![t] = step]

\* locks.computeIfAbsent(orderId, ignored -> new ReentrantLock())
GetLock(t) ==
    /\ pc[t] = "idle"
    /\ IF entry = 0
       THEN /\ made' = made + 1
            /\ entry' = made + 1
            /\ mine' = [mine EXCEPT ![t] = made + 1]
       ELSE /\ mine' = [mine EXCEPT ![t] = entry]
            /\ UNCHANGED <<made, entry>>
    /\ Goto(t, "acquire")
    /\ UNCHANGED <<owner, rowVars, seen, result, charges>>

\* lock.lock(): take it when it is free, else join its queue.
Acquire(t) ==
    /\ pc[t] \in {"acquire", "queued"}
    /\ owner[mine[t]] = NoThread
    /\ owner' = [owner EXCEPT ![mine[t]] = t]
    /\ Goto(t, "read")
    /\ UNCHANGED <<entry, made, mine, rowVars, seen, result, charges>>

Enqueue(t) ==
    /\ pc[t] = "acquire"
    /\ owner[mine[t]] # NoThread
    /\ Goto(t, "queued")
    /\ UNCHANGED <<lockVars, rowVars, seen, result, charges>>

\* doPayOrder reads the row: an order already paid is returned as it is.
Read(t) ==
    /\ pc[t] = "read"
    /\ IF paid
       THEN /\ result' = [result EXCEPT ![t] = "already"]
            /\ Goto(t, "unlock")
            /\ UNCHANGED seen
       ELSE /\ seen' = [seen EXCEPT ![t] = version]
            /\ Goto(t, "charge")
            /\ UNCHANGED result
    /\ UNCHANGED <<lockVars, rowVars, charges>>

\* The rest of the supplier: the platform charges, or an exception leaves the
\* supplier and will roll the transaction back, be it before the charge or after
\* it (a coupon-issue job that the executor refuses).
Charge(t) ==
    /\ pc[t] = "charge"
    /\ \/ result' = [result EXCEPT ![t] = "charged"] /\ charges' = charges + 1
       \/ result' = [result EXCEPT ![t] = "failed"] /\ charges' \in {charges, charges + 1}
    /\ Goto(t, "unlock")
    /\ UNCHANGED <<lockVars, rowVars, seen>>

BugUnlockForgotten(l) == owner

Unlocked(l) == [owner EXCEPT ![l] = NoThread]

\* lock.unlock() of the finally block.
Unlock(t) ==
    /\ pc[t] = "unlock"
    /\ owner' = Unlocked(mine[t])
    /\ Goto(t, "tidy")
    /\ UNCHANGED <<entry, made, mine, rowVars, seen, result, charges>>

BugNeverIdle(l) == TRUE

\* lock.hasQueuedThreads()
HasQueuedThreads(l) == \E u \in Threads : pc[u] = "queued" /\ mine[u] = l

\* if (!lock.hasQueuedThreads()) locks.remove(orderId, lock)
Tidy(t) ==
    /\ pc[t] = "tidy"
    /\ entry' = IF ~HasQueuedThreads(mine[t]) /\ entry = mine[t] THEN 0 ELSE entry
    /\ Goto(t, IF result[t] = "charged" THEN "commit" ELSE "done")
    /\ UNCHANGED <<made, owner, mine, rowVars, seen, result, charges>>

BugVersionUnchecked(t) == TRUE

VersionUnchanged(t) == seen[t] = version

\* The transaction around withOrderLock commits, or meets another version.
Commit(t) ==
    /\ pc[t] = "commit"
    /\ IF VersionUnchanged(t)
       THEN /\ paid' = TRUE
            /\ version' = version + 1
            /\ result' = [result EXCEPT ![t] = "paid"]
       ELSE /\ result' = [result EXCEPT ![t] = "conflict"]
            /\ UNCHANGED rowVars
    /\ Goto(t, "done")
    /\ UNCHANGED <<lockVars, seen, charges>>

PayStep(t) ==
    \/ Acquire(t) \/ Enqueue(t) \/ Read(t) \/ Charge(t)
    \/ Unlock(t) \/ Tidy(t) \/ Commit(t)

PayNext == \E t \in Threads : GetLock(t) \/ PayStep(t)

PaySpec == PayInit /\ [][PayNext]_payVars

\* A thread inside withOrderLock keeps running; no request has to arrive.
PayFairness == \A t \in Threads : WF_payVars(PayStep(t))

FairPaySpec == PaySpec /\ PayFairness

----------------------------------------------------------------------------
(* Properties *)

\* The map never keeps a lock nobody uses: an entry always belongs to a thread
\* still between computeIfAbsent and the end of its finally block, although
\* hasQueuedThreads is asked after the unlock and may be out of date.
EntryInUse == entry # 0 => \E t \in Threads : pc[t] \in Using /\ mine[t] = entry

\* However the lock fails to exclude, at most one of the concurrent payments
\* of an order commits, and the order is paid exactly when one did.
OneWinner ==
    /\ \A t, u \in Threads : result[t] = "paid" /\ result[u] = "paid" => t = u
    /\ paid <=> \E t \in Threads : result[t] = "paid"

\* Every request that reached the lock manager leaves it: no wait is forever.
EveryCallAnswered == \A t \in Threads : pc[t] # "idle" ~> pc[t] = "done"

\* What the README says of the lock: it "keeps concurrent retries safe". An
\* order is charged at most once.
ChargedOnce == charges <= 1

=============================================================================
