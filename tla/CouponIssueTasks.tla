-------------------------- MODULE CouponIssueTasks --------------------------
(***************************************************************************)
(* The coupon a paid order earns. payOrder submits one issue job; when its *)
(* call of the coupon engine fails, the callback writes a row of           *)
(* t_order_coupon_issue_task, and a scheduler in every replica retries the *)
(* rows that are due.                                                      *)
(*                                                                         *)
(* The task row has no version column. processRetry calls markSuccess and  *)
(* markFailure on this, past the transactional proxy, so their findById    *)
(* and save are two transactions, and the merge in save writes every       *)
(* column it has read: updates can be lost.                                *)
(***************************************************************************)
EXTENDS Integers, FiniteSets

CONSTANTS
    Orders,      \* paid orders
    NoOrder,     \* no order
    Eligible,    \* those whose amount meets the threshold of a coupon
    Jobs,        \* issue jobs submitted by payOrder; two racing payments of an order submit two
    Replicas,    \* schedulers
    PageSize,    \* tasks read at once: the 50 of findTop50
    MaxRetries,  \* app.workflow.coupon-issue-max-retries
    MaxFaults    \* bound: database errors and crashes

ASSUME OrdersAssumption == Eligible \subseteq Orders /\ NoOrder \notin Orders
ASSUME ReplicasAssumption == IsFiniteSet(Replicas)
ASSUME PageAssumption == PageSize \in Nat \ {0}
ASSUME RetriesAssumption == MaxRetries \in Nat
ASSUME FaultAssumption == MaxFaults \in Nat

VARIABLES
    task,      \* task[o]: the row; "NONE" when there is none
    job,       \* job[j]: where the issue job is, its order, the row it has read
    sched,     \* sched[r]: where the scheduler is, its batch, order and row read
    granted,   \* granted[o]: coupons the engine added to the balance for o
    attempts,  \* history: attempts[o], retries of o that were carried out
    faults

vars == <<task, job, sched, granted, attempts, faults>>

Rows == [status : {"NONE", "PENDING", "SUCCESS", "FAILED"}, count : Nat, due : BOOLEAN]
NoRow == [status |-> "NONE", count |-> 0, due |-> FALSE]

NewJob == [pc |-> "idle", order |-> NoOrder, read |-> NoRow]
IdleSched == [pc |-> "idle", batch |-> {}, order |-> NoOrder, read |-> NoRow]

\* Rows, the copies read of them and the counts keep their types.
TypeOK ==
    /\ task \in [Orders -> Rows]
    /\ job \in [Jobs -> [pc : {"idle", "call", "report", "save", "done"},
                         order : Orders \cup {NoOrder}, read : Rows]]
    /\ sched \in [Replicas -> [pc : {"idle", "next", "succeeded", "failed", "saveSuccess", "saveFailure"},
                               batch : SUBSET Orders, order : Orders \cup {NoOrder}, read : Rows]]
    /\ granted \in [Orders -> Nat]
    /\ attempts \in [Orders -> Nat]
    /\ faults \in 0 .. MaxFaults

Init ==
    /\ task = [o \in Orders |-> NoRow]
    /\ job = [j \in Jobs |-> NewJob]
    /\ sched = [r \in Replicas |-> IdleSched]
    /\ granted = [o \in Orders |-> 0]
    /\ attempts = [o \in Orders |-> 0]
    /\ faults = 0

Fault ==
    /\ faults < MaxFaults
    /\ faults' = faults + 1

\* Definitions named Bug... are seeded defects. No action uses them: each
\* replaces the definition after it to show that a property can fail.

----------------------------------------------------------------------------
(* The coupon engine *)

\* issue_coupon_for_order: an amount below the threshold is answered with
\* success and no coupon. Nothing tells a repeated order_no from a new one.
Grant(o) == granted' = [granted EXCEPT ![o] = IF o \in Eligible THEN @ + 1 ELSE @]

\* A call that returns normally.
Issued(o) == Grant(o)

\* A call that throws: refused by the guard, the rate limit or Redis, or carried
\* out with its answer lost.
NotIssued(o) == Grant(o) \/ UNCHANGED granted

----------------------------------------------------------------------------
(* The issue job of a payment *)

JobGoes(j, where, row) ==
    job' = [job EXCEPT ![j] = [pc |-> where, order |-> job[j].order, read |-> row]]

Submit(j, o) ==
    /\ job[j].pc = "idle"
    /\ job' = [job EXCEPT ![j] = [pc |-> "call", order |-> o, read |-> NoRow]]
    /\ UNCHANGED <<task, sched, granted, attempts, faults>>

JobCall(j) ==
    /\ job[j].pc = "call"
    /\ \/ Issued(job[j].order) /\ JobGoes(j, "done", NoRow)
       \/ NotIssued(job[j].order) /\ JobGoes(j, "report", NoRow)
    /\ UNCHANGED <<task, sched, attempts, faults>>

\* scheduleRetry up to its save; a settled task is left alone.
ScheduleRead(j) ==
    /\ job[j].pc = "report"
    /\ LET row == task[job[j].order] IN
       IF row.status \in {"SUCCESS", "FAILED"}
       THEN JobGoes(j, "done", NoRow)
       ELSE JobGoes(j, "save", row)
    /\ UNCHANGED <<task, sched, granted, attempts, faults>>

\* The save: an INSERT that fails on uk_order_no when another job has inserted
\* the row meanwhile, or an UPDATE of every column.
ScheduleSave(j) ==
    /\ job[j].pc = "save"
    /\ LET o == job[j].order IN
       task' = IF job[j].read.status = "NONE" /\ task[o].status # "NONE"
               THEN task
               ELSE [task EXCEPT ![o] = [status |-> "PENDING", count |-> job[j].read.count, due |-> FALSE]]
    /\ JobGoes(j, "done", NoRow)
    /\ UNCHANGED <<sched, granted, attempts, faults>>

\* The process ends, or the database refuses the retry row: only a log line is left.
JobLost(j) ==
    /\ job[j].pc \in {"call", "report", "save"}
    /\ Fault
    /\ JobGoes(j, "done", NoRow)
    /\ UNCHANGED <<task, sched, granted, attempts>>

----------------------------------------------------------------------------
(* The scheduler of a replica *)

SchedGoes(r, where, left, o, row) ==
    sched' = [sched EXCEPT ![r] = [pc |-> where, batch |-> left, order |-> o, read |-> row]]

\* next_retry_time is reached.
FallDue(o) ==
    /\ task[o].status = "PENDING"
    /\ ~task[o].due
    /\ task' = [task EXCEPT ![o] = [status |-> "PENDING", count |-> task[o].count, due |-> TRUE]]
    /\ UNCHANGED <<job, sched, granted, attempts, faults>>

BugFreshOnly(o) == task[o].status = "PENDING" /\ task[o].due /\ task[o].count = 0

\* findTop50ByStatusAndNextRetryTimeLessThanEqual
Selected(o) == task[o].status = "PENDING" /\ task[o].due

\* retryPendingTasks: a full page of the selected tasks, or all of them. Which
\* ones come first, the oldest in the code, is left open.
Poll(r) ==
    /\ sched[r].pc = "idle"
    /\ LET due == {o \in Orders : Selected(o)} IN
       \E page \in SUBSET due :
          /\ page # {}
          /\ \/ Cardinality(page) = PageSize
             \/ Cardinality(page) < PageSize /\ page = due
          /\ SchedGoes(r, "next", page, NoOrder, NoRow)
    /\ UNCHANGED <<task, job, granted, attempts, faults>>

BugErrorIgnored(outcome) == "succeeded"

\* Where processRetry goes on: past the call, or in its catch block.
AfterCall(outcome) == outcome

\* The call of processRetry for one task of the batch.
Retry(r, o) ==
    /\ sched[r].pc = "next"
    /\ o \in sched[r].batch
    /\ \E outcome \in {"succeeded", "failed"} :
          /\ IF outcome = "succeeded" THEN Issued(o) ELSE NotIssued(o)
          /\ SchedGoes(r, AfterCall(outcome), sched[r].batch \ {o}, o, NoRow)
    /\ attempts' = [attempts EXCEPT ![o] = @ + 1]
    /\ UNCHANGED <<task, job, faults>>

\* findById in markSuccess or markFailure
ReadTask(r) ==
    /\ sched[r].pc \in {"succeeded", "failed"}
    /\ SchedGoes(r, IF sched[r].pc = "succeeded" THEN "saveSuccess" ELSE "saveFailure",
                 sched[r].batch, sched[r].order, task[sched[r].order])
    /\ UNCHANGED <<task, job, granted, attempts, faults>>

\* A save and the return to the loop over the batch.
SaveTask(r, row) ==
    /\ task' = [task EXCEPT ![sched[r].order] = row]
    /\ SchedGoes(r, IF sched[r].batch = {} THEN "idle" ELSE "next", sched[r].batch, NoOrder, NoRow)
    /\ UNCHANGED <<job, granted, attempts, faults>>

\* markSuccess
MarkSuccess(r) ==
    /\ sched[r].pc = "saveSuccess"
    /\ LET row == sched[r].read IN
       SaveTask(r, [status |-> "SUCCESS", count |-> row.count, due |-> row.due])

NextRetryCount(row) == row.count + 1

BugLimitOffByOne(count) == count + 1 >= IF MaxRetries > 1 THEN MaxRetries ELSE 1

\* Math.max(couponIssueMaxRetries, 1)
Exhausted(count) == count >= IF MaxRetries > 1 THEN MaxRetries ELSE 1

\* markFailure
MarkFailure(r) ==
    /\ sched[r].pc = "saveFailure"
    /\ LET count == NextRetryCount(sched[r].read) IN
       SaveTask(r, [status |-> IF Exhausted(count) THEN "FAILED" ELSE "PENDING",
                    count |-> count, due |-> FALSE])

\* A database error in markSuccess is caught like a failed call; one in
\* markFailure leaves retryPendingTasks and the rest of the batch.
MarkThrows(r) ==
    /\ Fault
    /\ \/ /\ sched[r].pc \in {"succeeded", "saveSuccess"}
          /\ SchedGoes(r, "failed", sched[r].batch, sched[r].order, NoRow)
       \/ /\ sched[r].pc \in {"failed", "saveFailure"}
          /\ SchedGoes(r, "idle", {}, NoOrder, NoRow)
    /\ UNCHANGED <<task, job, granted, attempts>>

\* The replica stops and starts again.
Crash(r) ==
    /\ sched[r].pc # "idle"
    /\ Fault
    /\ SchedGoes(r, "idle", {}, NoOrder, NoRow)
    /\ UNCHANGED <<task, job, granted, attempts>>

----------------------------------------------------------------------------

JobStep(j) ==
    \/ \E o \in Orders : Submit(j, o)
    \/ JobCall(j) \/ ScheduleRead(j) \/ ScheduleSave(j) \/ JobLost(j)

Run(r) ==
    \/ \E o \in Orders : Retry(r, o)
    \/ ReadTask(r) \/ MarkSuccess(r) \/ MarkFailure(r)

Next ==
    \/ \E j \in Jobs : JobStep(j)
    \/ \E o \in Orders : FallDue(o)
    \/ \E r \in Replicas : Poll(r) \/ Run(r) \/ MarkThrows(r) \/ Crash(r)

Spec == Init /\ [][Next]_vars

\* Time passes, @Scheduled starts the method again after every end, and what a
\* thread has begun it goes on with.
FairSpec ==
    /\ Spec
    /\ \A o \in Orders : WF_vars(FallDue(o))
    /\ \A r \in Replicas : WF_vars(Poll(r)) /\ WF_vars(Run(r))
    /\ \A j \in Jobs : WF_vars(JobCall(j) \/ ScheduleRead(j) \/ ScheduleSave(j))

----------------------------------------------------------------------------
(* Properties *)

\* A task is marked SUCCESS only when the engine has issued the coupon its order
\* earns, whichever replica saves which stale row last.
SuccessIsGranted == \A o \in Eligible :
    task[o].status = "SUCCESS" => granted[o] > 0

\* A task is given up only after the configured number of retries was really
\* carried out: lost updates lose counts, they never invent them.
GivenUpAfterRetries == \A o \in Orders :
    task[o].status = "FAILED" => attempts[o] >= MaxRetries

\* A task does not stay pending: it is settled after finitely many faults, also
\* when replicas overwrite each other's counts.
EveryTaskSettles == \A o \in Orders :
    task[o].status = "PENDING" ~> task[o].status \in {"SUCCESS", "FAILED"}

=============================================================================
