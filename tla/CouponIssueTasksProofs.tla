----------------------- MODULE CouponIssueTasksProofs -----------------------
(***************************************************************************)
(* Theorems about CouponIssueTasks, for any orders, jobs and retry limit   *)
(* and any finite number of replicas.                                      *)
(***************************************************************************)
EXTENDS CouponIssueTasks, FiniteSetTheorems, TLAPS

\* The schedulers that have retried o and not yet saved the outcome.
InFlight(o) == {r \in Replicas : sched[r].order = o}
Unsaved(o) == Cardinality(InFlight(o))

\* A scheduler has an order exactly while it works on it, and a job from the
\* moment it is submitted.
Working ==
    /\ \A r \in Replicas : sched[r].order = NoOrder <=> sched[r].pc \in {"idle", "next"}
    /\ \A j \in Jobs : job[j].order = NoOrder <=> job[j].pc = "idle"

\* A scheduler on its way to SUCCESS has seen the coupon issued.
Granted ==
    /\ SuccessIsGranted
    /\ \A r \in Replicas : sched[r].pc \in {"succeeded", "saveSuccess"} /\ sched[r].order \in Eligible
          => granted[sched[r].order] > 0

\* Every count, in the row or in a copy of it, stands for retries whose outcome
\* is saved: one for each retry still in flight is left.
RowCounted == \A o \in Orders : task[o].count + Unsaved(o) <= attempts[o]

JobCounted == \A j \in Jobs : job[j].pc = "save" =>
    job[j].read.count + Unsaved(job[j].order) <= attempts[job[j].order]

SchedCounted == \A r \in Replicas : sched[r].pc \in {"saveSuccess", "saveFailure"} =>
    sched[r].read.count + Unsaved(sched[r].order) <= attempts[sched[r].order]

FailedExhausted == \A o \in Orders : task[o].status = "FAILED" => Exhausted(task[o].count)

Counted == RowCounted /\ JobCounted /\ SchedCounted /\ FailedExhausted

Inv == TypeOK /\ Working /\ Granted /\ Counted

USE DEF Rows, NoRow, NewJob, IdleSched, JobGoes, SchedGoes

\* The records stay well typed when a thread goes on.
LEMMA JobType ==
    ASSUME TypeOK, NEW j \in Jobs, NEW where \in {"idle", "call", "report", "save", "done"},
           NEW row \in Rows, JobGoes(j, where, row)
    PROVE  job' \in [Jobs -> [pc : {"idle", "call", "report", "save", "done"},
                             order : Orders \cup {NoOrder}, read : Rows]]
BY DEF TypeOK

LEMMA SchedType ==
    ASSUME TypeOK, NEW r \in Replicas,
           NEW where \in {"idle", "next", "succeeded", "failed", "saveSuccess", "saveFailure"},
           NEW left \in SUBSET Orders, NEW o \in Orders \cup {NoOrder},
           NEW row \in Rows, SchedGoes(r, where, left, o, row)
    PROVE  sched' \in [Replicas -> [pc : {"idle", "next", "succeeded", "failed", "saveSuccess", "saveFailure"},
                                   batch : SUBSET Orders, order : Orders \cup {NoOrder}, read : Rows]]
BY DEF TypeOK

LEMMA UnsavedNat == ASSUME NEW o PROVE IsFiniteSet(InFlight(o)) /\ Unsaved(o) \in Nat
BY ReplicasAssumption, FS_Subset, FS_CardinalityType DEF InFlight, Unsaved

LEMMA InitInv == Init => Inv
<1> SUFFICES ASSUME Init PROVE Inv
  OBVIOUS
<1>1. TypeOK /\ Working /\ Granted
  BY OrdersAssumption, FaultAssumption DEF Init, TypeOK, Working, Granted, SuccessIsGranted
<1>2. ASSUME NEW o \in Orders PROVE Unsaved(o) = 0
  <2>1. InFlight(o) = {}
    BY OrdersAssumption DEF InFlight, Init
  <2> QED
    BY <2>1, FS_EmptySet DEF Unsaved
<1>3. Counted
  BY <1>2 DEF Init, Counted, RowCounted, JobCounted, SchedCounted, FailedExhausted
<1> QED
  BY <1>1, <1>3 DEF Inv

\* What a call of the engine does to the balance, as the proofs use it.
LEMMA CallGrants ==
    ASSUME TypeOK, NEW o \in Orders, Issued(o) \/ NotIssued(o)
    PROVE  /\ granted' \in [Orders -> Nat]
           /\ \A p \in Orders : granted'[p] >= granted[p]
           /\ Issued(o) /\ o \in Eligible => granted'[o] > 0
<1>1. CASE Grant(o)
  BY <1>1 DEF TypeOK, Grant, Issued
<1>2. CASE UNCHANGED granted
  BY <1>2 DEF TypeOK, Grant, Issued
<1> QED
  BY <1>1, <1>2 DEF Issued, NotIssued

LEMMA NextType == Inv /\ [Next]_vars => TypeOK'
<1> SUFFICES ASSUME Inv, [Next]_vars PROVE TypeOK'
  OBVIOUS
<1> USE DEF Inv, TypeOK
<1>1. ASSUME NEW j \in Jobs, NEW o \in Orders, Submit(j, o) PROVE TypeOK'
  BY <1>1, FaultAssumption DEF Submit
<1>2. ASSUME NEW j \in Jobs, JobCall(j) PROVE TypeOK'
  <2>1. job[j].order \in Orders
    BY <1>2 DEF JobCall, Working
  <2>2. granted' \in [Orders -> Nat]
    BY <1>2, <2>1, CallGrants DEF JobCall
  <2>3. \E where \in {"report", "done"} : JobGoes(j, where, NoRow)
    BY <1>2 DEF JobCall
  <2>4. UNCHANGED <<task, sched, attempts, faults>>
    BY <1>2 DEF JobCall
  <2> QED
    BY <2>2, <2>3, <2>4, JobType
<1>3. ASSUME NEW j \in Jobs, ScheduleRead(j) PROVE TypeOK'
  <2>1. job[j].order \in Orders
    BY <1>3 DEF ScheduleRead, Working
  <2>2. task[job[j].order] \in Rows
    BY <2>1
  <2>3. \/ JobGoes(j, "done", NoRow)
        \/ JobGoes(j, "save", task[job[j].order])
    BY <1>3 DEF ScheduleRead
  <2>4. job' \in [Jobs -> [pc : {"idle", "call", "report", "save", "done"},
                          order : Orders \cup {NoOrder}, read : Rows]]
    BY <2>2, <2>3, JobType
  <2> QED
    BY <1>3, <2>4 DEF ScheduleRead
<1>4. ASSUME NEW j \in Jobs, ScheduleSave(j) PROVE TypeOK'
  BY <1>4 DEF ScheduleSave
<1>5. ASSUME NEW j \in Jobs, JobLost(j) PROVE TypeOK'
  BY <1>5, FaultAssumption DEF JobLost, Fault
<1>6. ASSUME NEW o \in Orders, FallDue(o) PROVE TypeOK'
  BY <1>6 DEF FallDue
<1>7. ASSUME NEW r \in Replicas, Poll(r) PROVE TypeOK'
  BY <1>7 DEF Poll
<1>8. ASSUME NEW r \in Replicas, NEW o \in Orders, Retry(r, o) PROVE TypeOK'
  <2>1. granted' \in [Orders -> Nat]
    BY <1>8, CallGrants DEF Retry
  <2>2. \E outcome \in {"succeeded", "failed"} : SchedGoes(r, outcome, sched[r].batch \ {o}, o, NoRow)
    BY <1>8 DEF Retry, AfterCall
  <2>3. attempts' \in [Orders -> Nat] /\ UNCHANGED <<task, job, faults>>
    BY <1>8 DEF Retry
  <2> QED
    BY <2>1, <2>2, <2>3, SchedType
<1>9. ASSUME NEW r \in Replicas, ReadTask(r) PROVE TypeOK'
  <2>1. sched[r].order \in Orders
    BY <1>9 DEF ReadTask, Working
  <2> QED
    BY <1>9, <2>1 DEF ReadTask
<1>10. ASSUME NEW r \in Replicas, MarkSuccess(r) PROVE TypeOK'
  BY <1>10 DEF MarkSuccess, SaveTask
<1>11. ASSUME NEW r \in Replicas, MarkFailure(r) PROVE TypeOK'
  <2> DEFINE count == NextRetryCount(sched[r].read)
             row == [status |-> IF Exhausted(count) THEN "FAILED" ELSE "PENDING",
                     count |-> count, due |-> FALSE]
  <2>1. row \in Rows
    BY DEF NextRetryCount
  <2>2. SaveTask(r, row)
    BY <1>11 DEF MarkFailure
  <2> QED
    BY <2>1, <2>2 DEF SaveTask
<1>12. ASSUME NEW r \in Replicas, MarkThrows(r) PROVE TypeOK'
  <2>1. faults' \in 0 .. MaxFaults
    BY <1>12, FaultAssumption DEF MarkThrows, Fault
  <2>2. \/ SchedGoes(r, "failed", sched[r].batch, sched[r].order, NoRow)
        \/ SchedGoes(r, "idle", {}, NoOrder, NoRow)
    BY <1>12 DEF MarkThrows
  <2>3. UNCHANGED <<task, job, granted, attempts>>
    BY <1>12 DEF MarkThrows
  <2>4. sched[r].batch \in SUBSET Orders /\ sched[r].order \in Orders \cup {NoOrder} /\ NoRow \in Rows
    OBVIOUS
  <2>5. sched' \in [Replicas -> [pc : {"idle", "next", "succeeded", "failed", "saveSuccess", "saveFailure"},
                                batch : SUBSET Orders, order : Orders \cup {NoOrder}, read : Rows]]
    <3>1. CASE SchedGoes(r, "failed", sched[r].batch, sched[r].order, NoRow)
      BY <2>4, <3>1, SchedType
    <3>2. CASE SchedGoes(r, "idle", {}, NoOrder, NoRow)
      BY <2>4, <3>2, SchedType
    <3> QED
      BY <2>2, <3>1, <3>2
  <2> QED
    BY <2>1, <2>3, <2>5
<1>13. ASSUME NEW r \in Replicas, Crash(r) PROVE TypeOK'
  BY <1>13, FaultAssumption DEF Crash, Fault
<1>14. CASE UNCHANGED vars
  BY <1>14 DEF vars
<1> QED
  BY <1>1, <1>2, <1>3, <1>4, <1>5, <1>6, <1>7, <1>8, <1>9, <1>10, <1>11, <1>12, <1>13, <1>14
  DEF Next, JobStep, Run

LEMMA NextWorking == Inv /\ [Next]_vars => Working'
<1> SUFFICES ASSUME Inv, [Next]_vars PROVE Working'
  OBVIOUS
<1> USE OrdersAssumption DEF Inv, TypeOK, Working
<1>1. ASSUME NEW j \in Jobs, NEW o \in Orders, Submit(j, o) PROVE Working'
  BY <1>1, FaultAssumption DEF Submit
<1>2. ASSUME NEW j \in Jobs, JobCall(j) \/ ScheduleRead(j) \/ ScheduleSave(j) \/ JobLost(j) PROVE Working'
  <2>1. job[j].pc # "idle" /\ UNCHANGED sched
    BY <1>2 DEF JobCall, ScheduleRead, ScheduleSave, JobLost
  <2>2. \E where \in {"report", "save", "done"} : \E row : JobGoes(j, where, row)
    BY <1>2 DEF JobCall, ScheduleRead, ScheduleSave, JobLost
  <2> QED
    BY <2>1, <2>2
<1>3. ASSUME NEW o \in Orders, FallDue(o) PROVE Working'
  BY <1>3 DEF FallDue
<1>4. ASSUME NEW r \in Replicas, Poll(r) PROVE Working'
  BY <1>4 DEF Poll
<1>5. ASSUME NEW r \in Replicas, NEW o \in Orders, Retry(r, o) PROVE Working'
  BY <1>5 DEF Retry, AfterCall
<1>6. ASSUME NEW r \in Replicas, ReadTask(r) PROVE Working'
  BY <1>6 DEF ReadTask
<1>7. ASSUME NEW r \in Replicas, MarkSuccess(r) \/ MarkFailure(r) PROVE Working'
  <2>1. UNCHANGED job /\ \E where \in {"idle", "next"} : SchedGoes(r, where, sched[r].batch, NoOrder, NoRow)
    BY <1>7 DEF MarkSuccess, MarkFailure, SaveTask
  <2> QED
    BY <2>1
<1>8. ASSUME NEW r \in Replicas, MarkThrows(r) \/ Crash(r) PROVE Working'
  BY <1>8 DEF MarkThrows, Crash
<1>9. CASE UNCHANGED vars
  BY <1>9 DEF vars
<1> QED
  BY <1>1, <1>2, <1>3, <1>4, <1>5, <1>6, <1>7, <1>8, <1>9 DEF Next, JobStep, Run

LEMMA NextGranted == Inv /\ [Next]_vars => Granted'
<1> SUFFICES ASSUME Inv, [Next]_vars PROVE Granted'
  OBVIOUS
<1> USE OrdersAssumption DEF Inv, TypeOK, Working, Granted, SuccessIsGranted
<1>1. ASSUME NEW j \in Jobs, NEW o \in Orders, Submit(j, o) PROVE Granted'
  BY <1>1, FaultAssumption DEF Submit
<1>2. ASSUME NEW j \in Jobs, JobCall(j) PROVE Granted'
  <2>1. job[j].order \in Orders
    BY <1>2 DEF JobCall
  <2>2. granted' \in [Orders -> Nat] /\ \A p \in Orders : granted'[p] >= granted[p]
    BY <1>2, <2>1, CallGrants DEF JobCall
  <2> QED
    BY <1>2, <2>2 DEF JobCall
<1>3. ASSUME NEW j \in Jobs, ScheduleRead(j) \/ ScheduleSave(j) \/ JobLost(j) PROVE Granted'
  BY <1>3 DEF ScheduleRead, ScheduleSave, JobLost
<1>4. ASSUME NEW o \in Orders, FallDue(o) PROVE Granted'
  BY <1>4 DEF FallDue
<1>5. ASSUME NEW r \in Replicas, Poll(r) PROVE Granted'
  BY <1>5 DEF Poll
<1>6. ASSUME NEW r \in Replicas, NEW o \in Orders, Retry(r, o) PROVE Granted'
  <2>1. PICK outcome \in {"succeeded", "failed"} :
          /\ IF outcome = "succeeded" THEN Issued(o) ELSE NotIssued(o)
          /\ SchedGoes(r, outcome, sched[r].batch \ {o}, o, NoRow)
    BY <1>6 DEF Retry, AfterCall
  <2>2. /\ granted' \in [Orders -> Nat]
        /\ \A p \in Orders : granted'[p] >= granted[p]
        /\ outcome = "succeeded" /\ o \in Eligible => granted'[o] > 0
    BY <2>1, CallGrants
  <2>3. UNCHANGED task
    BY <1>6 DEF Retry
  <2> QED
    BY <2>1, <2>2, <2>3
<1>7. ASSUME NEW r \in Replicas, ReadTask(r) PROVE Granted'
  BY <1>7 DEF ReadTask
<1>8. ASSUME NEW r \in Replicas, MarkSuccess(r) PROVE Granted'
  BY <1>8 DEF MarkSuccess, SaveTask
<1>9. ASSUME NEW r \in Replicas, MarkFailure(r) PROVE Granted'
  BY <1>9 DEF MarkFailure, SaveTask
<1>10. ASSUME NEW r \in Replicas, MarkThrows(r) PROVE Granted'
  BY <1>10 DEF MarkThrows
<1>11. ASSUME NEW r \in Replicas, Crash(r) PROVE Granted'
  BY <1>11 DEF Crash
<1>12. CASE UNCHANGED vars
  BY <1>12 DEF vars
<1> QED
  BY <1>1, <1>2, <1>3, <1>4, <1>5, <1>6, <1>7, <1>8, <1>9, <1>10, <1>11, <1>12 DEF Next, JobStep, Run

\* A scheduler that takes no order leaves the retries in flight alone.
LEMMA SameUnsaved ==
    ASSUME \A r \in Replicas : sched'[r].order = sched[r].order
    PROVE  \A o : Unsaved(o)' = Unsaved(o)
<1> SUFFICES ASSUME NEW o PROVE Unsaved(o)' = Unsaved(o)
  OBVIOUS
<1>1. InFlight(o)' = InFlight(o)
  BY DEF InFlight
<1> QED
  BY <1>1 DEF Unsaved

\* A scheduler that leaves its order is no longer in flight.
LEMMA FewerUnsaved ==
    ASSUME TypeOK, NEW r \in Replicas, sched[r].order # NoOrder, sched'[r].order = NoOrder,
           \A q \in Replicas \ {r} : sched'[q].order = sched[q].order
    PROVE  \A o \in Orders : Unsaved(o)' = IF o = sched[r].order THEN Unsaved(o) - 1 ELSE Unsaved(o)
<1> SUFFICES ASSUME NEW o \in Orders
             PROVE  Unsaved(o)' = IF o = sched[r].order THEN Unsaved(o) - 1 ELSE Unsaved(o)
  OBVIOUS
<1>1. InFlight(o)' = InFlight(o) \ {r}
  BY OrdersAssumption DEF InFlight
<1>2. r \in InFlight(o) <=> o = sched[r].order
  BY DEF InFlight
<1>3. Cardinality(InFlight(o) \ {r}) =
         IF r \in InFlight(o) THEN Cardinality(InFlight(o)) - 1 ELSE Cardinality(InFlight(o))
  BY UnsavedNat, FS_RemoveElement
<1>4. Unsaved(o)' = Cardinality(InFlight(o) \ {r})
  BY <1>1 DEF Unsaved
<1> QED
  BY <1>2, <1>3, <1>4 DEF Unsaved

\* A scheduler that begins a retry is in flight.
LEMMA MoreUnsaved ==
    ASSUME TypeOK, NEW r \in Replicas, NEW o \in Orders, sched[r].order = NoOrder, sched'[r].order = o,
           \A q \in Replicas \ {r} : sched'[q].order = sched[q].order
    PROVE  \A p \in Orders : Unsaved(p)' = IF p = o THEN Unsaved(p) + 1 ELSE Unsaved(p)
<1> SUFFICES ASSUME NEW p \in Orders
             PROVE  Unsaved(p)' = IF p = o THEN Unsaved(p) + 1 ELSE Unsaved(p)
  OBVIOUS
<1>1. InFlight(p)' = IF p = o THEN InFlight(p) \cup {r} ELSE InFlight(p)
  BY OrdersAssumption DEF InFlight
<1>2. r \notin InFlight(p)
  BY OrdersAssumption DEF InFlight
<1> QED
  BY <1>1, <1>2, UnsavedNat, FS_AddElement DEF Unsaved

\* The save of an outcome: a count one above the copy's takes the place of the
\* retry that is no longer in flight.
LEMMA SaveCounted ==
    ASSUME Inv, NEW r \in Replicas, sched[r].pc \in {"saveSuccess", "saveFailure"},
           NEW status \in {"PENDING", "SUCCESS", "FAILED"}, NEW count \in Nat, NEW due \in BOOLEAN,
           SaveTask(r, [status |-> status, count |-> count, due |-> due]),
           count <= sched[r].read.count + 1,
           status = "FAILED" => Exhausted(count)
    PROVE  Counted'
<1> USE OrdersAssumption DEF Inv, TypeOK, Working, Counted, RowCounted, JobCounted, SchedCounted, FailedExhausted
<1> DEFINE order == sched[r].order
<1>0. \A o : Unsaved(o) \in Nat
  BY UnsavedNat
<1>1. order \in Orders /\ sched[r].read.count + Unsaved(order) <= attempts[order]
  OBVIOUS
<1>2. /\ task' = [task EXCEPT ![order] = [status |-> status, count |-> count, due |-> due]]
      /\ UNCHANGED <<job, attempts>>
  BY DEF SaveTask
<1>3. \E where \in {"idle", "next"} : SchedGoes(r, where, sched[r].batch, NoOrder, NoRow)
  BY DEF SaveTask
<1>4. \A p \in Orders : Unsaved(p)' = IF p = order THEN Unsaved(p) - 1 ELSE Unsaved(p)
  BY <1>1, <1>3, FewerUnsaved
<1>5. RowCounted'
  <2> SUFFICES ASSUME NEW o \in Orders PROVE (task[o].count + Unsaved(o) <= attempts[o])'
    BY DEF RowCounted
  <2>1. CASE o = order
    <3>1. task'[o].count = count /\ attempts'[o] = attempts[o] /\ Unsaved(o)' = Unsaved(o) - 1
      BY <1>2, <1>4, <2>1
    <3> QED
      BY <1>0, <1>1, <2>1, <3>1
  <2>2. CASE o # order
    BY <1>2, <1>4, <2>2
  <2> QED
    BY <2>1, <2>2
<1>6. FailedExhausted'
  BY <1>1, <1>2 DEF Exhausted
<1>7. \A o \in Orders : Unsaved(o)' \in Int /\ Unsaved(o)' <= Unsaved(o)
  BY <1>0, <1>4
<1>8. JobCounted'
  BY <1>0, <1>2, <1>7
<1>9. SchedCounted'
  <2>1. \A q \in Replicas : sched'[q].pc \in {"saveSuccess", "saveFailure"} =>
           q # r /\ sched'[q] = sched[q] /\ sched[q].order \in Orders
    BY <1>3
  <2> QED
    BY <1>0, <1>2, <1>7, <2>1
<1> QED
  BY <1>5, <1>6, <1>8, <1>9

LEMMA NextCounted == Inv /\ [Next]_vars => Counted'
<1> SUFFICES ASSUME Inv, [Next]_vars PROVE Counted'
  OBVIOUS
<1> USE OrdersAssumption DEF Inv, TypeOK, Working, Counted, RowCounted, JobCounted, SchedCounted, FailedExhausted
<1>0. \A o : Unsaved(o) \in Nat
  BY UnsavedNat
<1>1. ASSUME NEW j \in Jobs, NEW o \in Orders, Submit(j, o) PROVE Counted'
  <2>1. \A q : Unsaved(q)' = Unsaved(q)
    BY <1>1, SameUnsaved DEF Submit
  <2> QED
    BY <1>1, <2>1 DEF Submit
<1>2. ASSUME NEW j \in Jobs, JobCall(j) \/ JobLost(j) PROVE Counted'
  <2>1. \A q : Unsaved(q)' = Unsaved(q)
    BY <1>2, SameUnsaved DEF JobCall, JobLost
  <2>2. /\ UNCHANGED <<task, sched, attempts>>
        /\ \E where \in {"report", "done"} : JobGoes(j, where, NoRow)
    BY <1>2 DEF JobCall, JobLost
  <2> QED
    BY <2>1, <2>2
<1>3. ASSUME NEW j \in Jobs, ScheduleRead(j) \/ ScheduleSave(j) PROVE Counted'
  <2>1. \A q : Unsaved(q)' = Unsaved(q)
    BY <1>3, SameUnsaved DEF ScheduleRead, ScheduleSave
  <2>2. job[j].order \in Orders
    BY <1>3 DEF ScheduleRead, ScheduleSave
  <2>3. CASE ScheduleRead(j)
    BY <2>1, <2>2, <2>3 DEF ScheduleRead
  <2>4. CASE ScheduleSave(j)
    BY <2>1, <2>2, <2>4 DEF ScheduleSave
  <2> QED
    BY <1>3, <2>3, <2>4
<1>4. ASSUME NEW o \in Orders, FallDue(o) PROVE Counted'
  <2>1. \A q : Unsaved(q)' = Unsaved(q)
    BY <1>4, SameUnsaved DEF FallDue
  <2> QED
    BY <1>4, <2>1 DEF FallDue
<1>5. ASSUME NEW r \in Replicas, Poll(r) \/ ReadTask(r) PROVE Counted'
  <2>1. \A q : Unsaved(q)' = Unsaved(q)
    <3>1. \E where, left, row : SchedGoes(r, where, left, sched[r].order, row)
      BY <1>5 DEF Poll, ReadTask
    <3> QED
      BY <3>1, SameUnsaved
  <2>2. ReadTask(r) => sched[r].order \in Orders
    BY DEF ReadTask
  <2>3. CASE Poll(r)
    BY <2>1, <2>3 DEF Poll
  <2>4. CASE ReadTask(r)
    BY <2>1, <2>2, <2>4 DEF ReadTask
  <2> QED
    BY <1>5, <2>3, <2>4
<1>6. ASSUME NEW r \in Replicas, NEW o \in Orders, Retry(r, o) PROVE Counted'
  <2>0. /\ sched[r].order = NoOrder
        /\ \E where \in {"succeeded", "failed"} :
              SchedGoes(r, where, sched[r].batch \ {o}, o, NoRow)
        /\ attempts' = [attempts EXCEPT ![o] = @ + 1] /\ UNCHANGED <<task, job>>
    BY <1>6 DEF Retry, AfterCall
  <2>1. sched'[r].order = o /\ \A q \in Replicas \ {r} : sched'[q] = sched[q]
    BY <2>0
  <2>2. \A p \in Orders : Unsaved(p)' = IF p = o THEN Unsaved(p) + 1 ELSE Unsaved(p)
    BY <2>0, <2>1, MoreUnsaved
  <2>3. \A p \in Orders : attempts'[p] = IF p = o THEN attempts[p] + 1 ELSE attempts[p]
    BY <2>0
  <2> QED
    BY <1>0, <2>0, <2>1, <2>2, <2>3
<1>7. ASSUME NEW r \in Replicas, MarkSuccess(r) \/ MarkFailure(r) PROVE Counted'
  <2> DEFINE read == sched[r].read
             next == NextRetryCount(read)
  <2>1. CASE MarkSuccess(r)
    <3>1. SaveTask(r, [status |-> "SUCCESS", count |-> read.count, due |-> read.due])
      BY <2>1 DEF MarkSuccess
    <3> QED
      BY <2>1, <3>1, SaveCounted DEF MarkSuccess
  <2>2. CASE MarkFailure(r)
    <3>1. SaveTask(r, [status |-> IF Exhausted(next) THEN "FAILED" ELSE "PENDING",
                       count |-> next, due |-> FALSE])
      BY <2>2 DEF MarkFailure
    <3>2. next \in Nat /\ next <= read.count + 1
      BY DEF NextRetryCount
    <3> QED
      BY <2>2, <3>1, <3>2, SaveCounted DEF MarkFailure
  <2> QED
    BY <1>7, <2>1, <2>2
<1>8. ASSUME NEW r \in Replicas, MarkThrows(r) \/ Crash(r) PROVE Counted'
  <2>1. UNCHANGED <<task, job, attempts>> /\ sched[r].pc # "idle"
    BY <1>8 DEF MarkThrows, Crash
  <2>2. CASE SchedGoes(r, "failed", sched[r].batch, sched[r].order, NoRow)
    <3>1. \A q : Unsaved(q)' = Unsaved(q)
      BY <2>2, SameUnsaved
    <3> QED
      BY <2>1, <2>2, <3>1
  <2>3. CASE SchedGoes(r, "idle", {}, NoOrder, NoRow) /\ sched[r].order = NoOrder
    <3>1. \A q : Unsaved(q)' = Unsaved(q)
      BY <2>3, SameUnsaved
    <3> QED
      BY <2>1, <2>3, <3>1
  <2>4. CASE SchedGoes(r, "idle", {}, NoOrder, NoRow) /\ sched[r].order # NoOrder
    <3>1. \A p \in Orders : Unsaved(p)' = IF p = sched[r].order THEN Unsaved(p) - 1 ELSE Unsaved(p)
      BY <2>4, FewerUnsaved
    <3>2. \A p \in Orders : Unsaved(p)' \in Int /\ Unsaved(p)' <= Unsaved(p)
      BY <1>0, <3>1
    <3>3. \A q \in Replicas : sched'[q].pc \in {"saveSuccess", "saveFailure"} =>
             q # r /\ sched'[q] = sched[q] /\ sched[q].order \in Orders
      BY <2>4
    <3>4. \A j \in Jobs : job[j].pc = "save" => job[j].order \in Orders
      OBVIOUS
    <3> QED
      BY <1>0, <2>1, <3>2, <3>3, <3>4
  <2> QED
    BY <1>8, <2>2, <2>3, <2>4 DEF MarkThrows, Crash
<1>9. CASE UNCHANGED vars
  <2>1. \A q : Unsaved(q)' = Unsaved(q)
    BY <1>9, SameUnsaved DEF vars
  <2> QED
    BY <1>9, <2>1 DEF vars
<1> QED
  BY <1>1, <1>2, <1>3, <1>4, <1>5, <1>6, <1>7, <1>8, <1>9 DEF Next, JobStep, Run

LEMMA InvHolds == Spec => []Inv
<1>1. Init => Inv
  BY InitInv
<1>2. Inv /\ [Next]_vars => Inv'
  BY NextType, NextWorking, NextGranted, NextCounted DEF Inv
<1> QED
  BY <1>1, <1>2, PTL DEF Spec

\* A SUCCESS row always has its coupon behind it: markSuccess runs only after
\* issueCoupon returned, and no stale save can turn a row into SUCCESS otherwise.
THEOREM SuccessCorrect == Spec => []SuccessIsGranted
<1>1. Inv => SuccessIsGranted
  BY DEF Inv, Granted
<1> QED
  BY <1>1, InvHolds, PTL

\* markFailure gives a task up only after couponIssueMaxRetries real retries, for
\* any number of replicas that overwrite each other's counts.
THEOREM GiveUpCorrect == Spec => []GivenUpAfterRetries
<1>1. Inv => GivenUpAfterRetries
  <2> SUFFICES ASSUME Inv, NEW o \in Orders, task[o].status = "FAILED"
               PROVE  attempts[o] >= MaxRetries
    BY DEF GivenUpAfterRetries
  <2>1. Unsaved(o) \in Nat
    BY UnsavedNat
  <2> QED
    BY <2>1, RetriesAssumption DEF Inv, TypeOK, Counted, RowCounted, FailedExhausted, Exhausted
<1> QED
  BY <1>1, InvHolds, PTL

=============================================================================
