------------------------- MODULE ExternalCallGuard -------------------------
(***************************************************************************)
(* ExternalCallGuard of order-service in one JVM: the semaphore that       *)
(* bounds remote calls and the bounded thread pool that executes them.     *)
(*                                                                         *)
(* callSync takes a permit on the caller's thread, submits the call to the *)
(* pool and joins it. callAsync submits first and takes its permit on the  *)
(* pool thread. So a permit may wait for a pool thread while a pool thread *)
(* waits for a permit; only the timeout of tryAcquire parts them.          *)
(*                                                                         *)
(* The counters of the guard are diagnostics nobody reads and are left out.*)
(***************************************************************************)
EXTENDS Naturals, Sequences, FiniteSets

CONSTANTS
    SyncCalls,     \* invocations of callSync; each runs once
    AsyncCalls,    \* invocations of callAsync; each runs once
    Permits,       \* app.workflow.external-semaphore-permits
    CorePool,      \* app.workflow.executor-core-pool-size
    MaxPool,       \* app.workflow.executor-max-pool-size
    QueueCapacity  \* app.workflow.executor-queue-capacity

Calls == SyncCalls \cup AsyncCalls

ASSUME CallAssumption == SyncCalls \cap AsyncCalls = {} /\ IsFiniteSet(Calls)
ASSUME SizeAssumption ==
    /\ Permits \in Nat \ {0}
    /\ CorePool \in Nat \ {0}
    /\ MaxPool \in Nat /\ CorePool <= MaxPool
    /\ QueueCapacity \in Nat \ {0}

VARIABLES
    permits,  \* permits the semaphore has left
    threads,  \* pool threads alive
    queue,    \* tasks waiting for a pool thread, oldest first
    caller,   \* caller[c]: where the thread that invoked c is
    task,     \* task[c]: what became of the task c submitted
    retries   \* retries[c]: times onFailure has run for c

vars == <<permits, threads, queue, caller, task, retries>>

CallerSteps == {"idle", "acquire", "submit", "join", "attach", "release", "done"}
\* A task in one of these steps occupies a pool thread.
OnThread == {"acquire", "run", "release", "callback"}
TaskSteps == OnThread \cup {"none", "queued", "ok", "failed", "reported"}

Busy == {c \in Calls : task[c] \in OnThread}

\* The callers and the tasks that hold a permit.
Holders == {c \in SyncCalls : caller[c] \in {"submit", "join", "release"}}
              \cup {c \in AsyncCalls : task[c] \in {"run", "release"}}

\* Permits, pool and queue stay within their sizes.
TypeOK ==
    /\ permits \in 0 .. Permits
    /\ threads \in 0 .. MaxPool
    /\ queue \in Seq(Calls) /\ Len(queue) <= QueueCapacity
    /\ caller \in [Calls -> CallerSteps]
    /\ task \in [Calls -> TaskSteps]
    /\ retries \in [Calls -> Nat]

Init ==
    /\ permits = Permits
    /\ threads = 0
    /\ queue = <<>>
    /\ caller = [c \in Calls |-> "idle"]
    /\ task = [c \in Calls |-> "none"]
    /\ retries = [c \in Calls |-> 0]

CallerTo(c, step) == caller' = [caller EXCEPT ![c] = step]
TaskTo(c, step) == task' = [task EXCEPT ![c] = step]

\* Definitions named Bug... are seeded defects. No action uses them: each
\* replaces the definition after it to show that a property can fail.
BugNoTimeout == FALSE

\* tryAcquire gives up when no permit came free in time.
Expired == permits = 0

----------------------------------------------------------------------------
(* The caller's thread *)

Begin(c) ==
    /\ caller[c] = "idle"
    /\ CallerTo(c, IF c \in SyncCalls THEN "acquire" ELSE "submit")
    /\ UNCHANGED <<permits, threads, queue, task, retries>>

BugReleaseUnacquired == permits' = permits + 1

\* acquirePermit throws before the try block, so nothing is released.
Refuse == UNCHANGED permits

\* acquirePermit of callSync: 429 when the wait is over.
SyncAcquire(c) ==
    /\ caller[c] = "acquire"
    /\ \/ permits > 0 /\ permits' = permits - 1 /\ CallerTo(c, "submit")
       \/ Expired /\ Refuse /\ CallerTo(c, "done")
    /\ UNCHANGED <<threads, queue, task, retries>>

FirstStep(c) == IF c \in SyncCalls THEN "run" ELSE "acquire"

AfterSubmit(c) == IF c \in SyncCalls THEN "join" ELSE "attach"

BugRefusedKeepsPermit(c) == "done"

\* RejectedExecutionException: callSync still runs its finally block, callAsync
\* lets it out.
AfterRejection(c) == IF c \in SyncCalls THEN "release" ELSE "done"

\* ThreadPoolExecutor.execute: a new thread below the core size, else the
\* queue, else a new thread up to the maximum, else a rejection.
Submit(c) ==
    /\ caller[c] = "submit"
    /\ LET spawn == threads < CorePool \/ (Len(queue) = QueueCapacity /\ threads < MaxPool)
           store == threads >= CorePool /\ Len(queue) < QueueCapacity IN
       \/ /\ spawn
          /\ threads' = threads + 1
          /\ TaskTo(c, FirstStep(c))
          /\ CallerTo(c, AfterSubmit(c))
          /\ UNCHANGED queue
       \/ /\ store
          /\ queue' = Append(queue, c)
          /\ TaskTo(c, "queued")
          /\ CallerTo(c, AfterSubmit(c))
          /\ UNCHANGED threads
       \/ /\ ~spawn /\ ~store
          /\ CallerTo(c, AfterRejection(c))
          /\ UNCHANGED <<threads, queue, task>>
    /\ UNCHANGED <<permits, retries>>

\* join() of callSync returns the result or throws.
Join(c) ==
    /\ caller[c] = "join"
    /\ task[c] \in {"ok", "failed"}
    /\ CallerTo(c, "release")
    /\ UNCHANGED <<permits, threads, queue, task, retries>>

\* The finally block of callSync.
SyncRelease(c) ==
    /\ caller[c] = "release"
    /\ permits' = permits + 1
    /\ CallerTo(c, "done")
    /\ UNCHANGED <<threads, queue, task, retries>>

\* whenComplete: a task that has already failed is reported here, on the
\* caller's thread and hence inside the caller's transaction.
Attach(c) ==
    /\ caller[c] = "attach"
    /\ CallerTo(c, "done")
    /\ IF task[c] = "failed"
       THEN TaskTo(c, "reported") /\ retries' = [retries EXCEPT ![c] = @ + 1]
       ELSE UNCHANGED <<task, retries>>
    /\ UNCHANGED <<permits, threads, queue>>

----------------------------------------------------------------------------
(* The pool threads *)

Take ==
    /\ queue # <<>>
    /\ Cardinality(Busy) < threads
    /\ TaskTo(Head(queue), FirstStep(Head(queue)))
    /\ queue' = Tail(queue)
    /\ UNCHANGED <<permits, threads, caller, retries>>

\* A thread above the core size dies after its keep-alive time.
Retire ==
    /\ queue = <<>>
    /\ threads > CorePool
    /\ Cardinality(Busy) < threads
    /\ threads' = threads - 1
    /\ UNCHANGED <<permits, queue, caller, task, retries>>

BugFailureUnreported(c) == "failed"

\* A failed task runs the callback if it is attached already.
Failed(c) == IF c \in AsyncCalls /\ caller[c] = "done" THEN "callback" ELSE "failed"

\* acquirePermit of callAsync, on the pool thread.
AsyncAcquire(c) ==
    /\ task[c] = "acquire"
    /\ \/ permits > 0 /\ permits' = permits - 1 /\ TaskTo(c, "run")
       \/ Expired /\ Refuse /\ TaskTo(c, Failed(c))
    /\ UNCHANGED <<threads, queue, caller, retries>>

\* The remote call answers or fails. The finally block of callAsync follows
\* on the same thread, the one of callSync on the caller's.
Answer(c) ==
    /\ task[c] = "run"
    /\ IF c \in SyncCalls
       THEN TaskTo(c, "ok") \/ TaskTo(c, "failed")
       ELSE TaskTo(c, "release")
    /\ UNCHANGED <<permits, threads, queue, caller, retries>>

AsyncRelease(c) ==
    /\ task[c] = "release"
    /\ permits' = permits + 1
    /\ TaskTo(c, "ok") \/ TaskTo(c, Failed(c))
    /\ UNCHANGED <<threads, queue, caller, retries>>

\* onFailure: CouponIssueRetryService.scheduleRetry
Callback(c) ==
    /\ task[c] = "callback"
    /\ TaskTo(c, "reported")
    /\ retries' = [retries EXCEPT ![c] = @ + 1]
    /\ UNCHANGED <<permits, threads, queue, caller>>

----------------------------------------------------------------------------

Step(c) ==
    \/ SyncAcquire(c) \/ Submit(c) \/ Join(c) \/ SyncRelease(c) \/ Attach(c)
    \/ AsyncAcquire(c) \/ Answer(c) \/ AsyncRelease(c) \/ Callback(c)

Next == \/ \E c \in Calls : Begin(c) \/ Step(c)
        \/ Take
        \/ Retire

Spec == Init /\ [][Next]_vars

\* Threads run, the timeout of tryAcquire passes, a free pool thread takes the
\* next task, and a remote call ends one way or the other. No call has to begin.
GuardFairness == WF_vars(Take) /\ \A c \in Calls : WF_vars(Step(c))

FairSpec == Spec /\ GuardFairness

----------------------------------------------------------------------------
(* Properties *)

\* No path through callSync or callAsync leaks a permit or returns one it does
\* not hold: timeouts, rejections by the pool and failing calls included. In
\* particular at most Permits remote calls are in progress.
PermitsConserved == permits + Cardinality(Holders) = Permits

\* No call hangs, however few permits and threads there are: permits held by
\* callers whose tasks are queued behind tasks that wait for a permit come free.
EveryCallReturns == \A c \in Calls :
    caller[c] # "idle" ~> caller[c] = "done" /\ task[c] \notin OnThread \cup {"queued"}

\* A failed callAsync is handed to its onFailure, once, whichever of the two
\* threads gets there first.
FailureReportedOnce ==
    /\ \A c \in Calls : retries[c] = IF task[c] = "reported" THEN 1 ELSE 0
    /\ \A c \in AsyncCalls : caller[c] = "done" => task[c] # "failed"

=============================================================================
