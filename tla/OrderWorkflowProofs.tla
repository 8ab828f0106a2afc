------------------------ MODULE OrderWorkflowProofs ------------------------
(***************************************************************************)
(* Theorems about OrderWorkflow, for any number of calls, orders, keys and *)
(* replicas, any stock and any combination of faults.                      *)
(***************************************************************************)
EXTENDS OrderWorkflow, FiniteSetTheorems, TLAPS

----------------------------------------------------------------------------
(* The inductive invariant *)

TxSteps == PaySteps \cup {"release", "refund", "commit"}

\* A row that is not paid for yet has no payment_time, and status 0 belongs to
\* the rows of the older schema.
RowOK == \A o \in Ids :
    /\ orders[o].status \in {"NONE", "PAYING"} => ~orders[o].paid
    /\ orders[o].status = "PENDING_APPROVAL" => o \in Legacy

\* A transaction in progress works on an existing row, at a step its handler
\* has, and the version it has read is not ahead of the row. While the two are
\* equal the row still is in a status the handler accepts.
TxOf(c) == call[c].pc \in TxSteps =>
    /\ call[c].oid \in Ids
    /\ call[c].op \in TxOps
    /\ call[c].pc \in PaySteps => call[c].op = "pay"
    /\ call[c].pc = "refund" => call[c].op = "reject"
    /\ call[c].pc = "release" => Releases(call[c].op)
    /\ Exists(call[c].oid)
    /\ call[c].ver <= orders[call[c].oid].version
    /\ call[c].ver = orders[call[c].oid].version
          => orders[call[c].oid].status \in Allowed(call[c].op)

TxOK == \A c \in Calls : TxOf(c)

\* The same of a scheduler between its read and its save.
SchedOf(s) == sched[s].oid # NoOrder =>
    /\ Exists(sched[s].oid)
    /\ sched[s].ver <= orders[sched[s].oid].version
    /\ sched[s].ver = orders[sched[s].oid].version
          => orders[sched[s].oid].status = "SHIPPING"

SchedOK == \A s \in Schedulers : SchedOf(s)

\* A payOrder past its charge has charged, a reject past its refund has refunded.
MoneyOK == PaymentEnabled => \A c \in Calls :
    /\ call[c].op = "pay" /\ call[c].pc \in {"submit", "commit"} => payments[call[c].oid] > 0
    /\ call[c].op = "reject" /\ call[c].pc \in {"release", "commit"} => refunds[call[c].oid] > 0

Inv == TypeOK /\ RowOK /\ TxOK /\ SchedOK /\ MoneyOK

----------------------------------------------------------------------------
(* Facts about the tables of the handlers *)

LEMMA TableTypes ==
    ASSUME NEW op \in TxOps
    PROVE  /\ Allowed(op) \subseteq Statuses \ {"NONE"}
           /\ Result(op) \in Statuses \ {"NONE", "PAYING", "PENDING_APPROVAL"}
           /\ Event(op) \in EventKinds
           /\ FirstStep(op) \in TxSteps
           /\ FirstStep(op) \in PaySteps => op = "pay"
           /\ FirstStep(op) = "refund" => op = "reject"
           /\ FirstStep(op) = "release" => Releases(op)
           /\ FirstStep(op) # "submit"
           /\ FirstStep(op) = "commit" => op = "approve"
           /\ op = "reject" => FirstStep(op) # "release"
BY DEF TxOps, Allowed, Result, Event, FirstStep, Statuses, EventKinds, TxSteps, PaySteps,
       PendingApproval, Releases

LEMMA CallTypes ==
    /\ Idle \in CallStates
    /\ Done \in CallStates
    /\ Idle.pc = "idle" /\ Done.pc = "done" /\ Done.op = "none"
BY NoneAssumption DEF Idle, Done, CallStates, Steps

LEMMA InitInv == Init => Inv
<1> SUFFICES ASSUME Init PROVE Inv
  OBVIOUS
<1>1. TypeOK
  <2>1. NoRow \in Rows /\ Row("PENDING_APPROVAL", NoRequest) \in Rows
    BY DEF NoRow, Row, Rows, Statuses
  <2>2. orders \in [Ids -> Rows]
    BY <2>1 DEF Init
  <2>3. outbox \in [Ids -> Seq(EventKinds)]
    BY DEF Init
  <2>4. call \in [Calls -> CallStates]
    BY CallTypes DEF Init
  <2>5. sched \in [Schedulers -> SchedStates]
    BY DEF Init, Sleeping, SchedStates
  <2> QED
    BY <2>2, <2>3, <2>4, <2>5, StockAssumption DEF Init, TypeOK
<1>2. RowOK
  BY DEF Init, RowOK, NoRow, Row
<1>3. TxOK /\ MoneyOK
  BY CallTypes DEF Init, TxOK, TxOf, MoneyOK, Idle, TxSteps, PaySteps
<1>4. SchedOK
  BY DEF Init, SchedOK, SchedOf, Sleeping
<1> QED
  BY <1>1, <1>2, <1>3, <1>4 DEF Inv

----------------------------------------------------------------------------
(* Type correctness of each step *)

\* The states a call can be left in keep their type.
LEMMA CallUpdates ==
    ASSUME call \in [Calls -> CallStates], NEW c \in Calls
    PROVE  /\ Finish(c) => call' \in [Calls -> CallStates]
           /\ \A step \in Steps : Goto(c, step) => call' \in [Calls -> CallStates]
           /\ \A step \in Steps, op \in TxOps \cup {"create"}, r \in Requests \cup {NoRequest},
                 o \in Ids \cup {NoOrder}, v \in Nat :
                 Enter(c, step, op, r, o, v) => call' \in [Calls -> CallStates]
<1>1. Finish(c) => call' \in [Calls -> CallStates]
  BY CallTypes DEF Finish
<1>2. ASSUME NEW step \in Steps, Goto(c, step) PROVE call' \in [Calls -> CallStates]
  <2>1. [call[c] EXCEPT !.pc = step] \in CallStates
    BY DEF CallStates
  <2> QED
    BY <1>2, <2>1 DEF Goto
<1>3. ASSUME NEW step \in Steps, NEW op \in TxOps \cup {"create"},
             NEW r \in Requests \cup {NoRequest}, NEW o \in Ids \cup {NoOrder}, NEW v \in Nat,
             Enter(c, step, op, r, o, v)
      PROVE  call' \in [Calls -> CallStates]
  BY <1>3 DEF Enter, CallStates
<1> QED
  BY <1>1, <1>2, <1>3

LEMMA WriteType ==
    ASSUME orders \in [Ids -> Rows], NEW o \in Ids, NEW st \in Statuses
    PROVE  /\ orders[o].paid \in BOOLEAN
           /\ \A paid \in BOOLEAN : Write(o, st, paid) => orders' \in [Ids -> Rows]
BY DEF Write, Rows

\* One more effect counted against an order.
LEMMA CountType ==
    ASSUME NEW f \in [Ids -> Nat], NEW o \in Ids
    PROVE  [f EXCEPT ![o] = @ + 1] \in [Ids -> Nat]
OBVIOUS

LEMMA NextType == Inv /\ [Next]_vars => TypeOK'
<1> SUFFICES ASSUME Inv, [Next]_vars PROVE TypeOK'
  OBVIOUS
<1> USE DEF Inv
<1>1. ASSUME NEW c \in Calls, NEW r \in Requests, CreateStart(c, r) PROVE TypeOK'
  BY <1>1, CallUpdates DEF CreateStart, TypeOK, rowVars, extVars, histVars, Steps, CreateSteps
<1>2. ASSUME NEW c \in Calls, NEW op \in TxOps, NEW o \in Ids, TxStart(c, op, o) PROVE TypeOK'
  <2>1. FirstStep(op) \in Steps /\ orders[o].version \in Nat
    BY TableTypes DEF TypeOK, Rows, Steps, TxSteps
  <2>2. call' \in [Calls -> CallStates]
    BY <1>2, <2>1, CallUpdates DEF TxStart, TypeOK
  <2> QED
    BY <1>2, <2>2 DEF TxStart, TypeOK, rowVars, extVars, histVars
<1>3. ASSUME NEW c \in Calls, CreateReserve(c) PROVE TypeOK'
  <2>1. stock' \in Nat /\ orphaned' \in Nat
    BY <1>3, StockAssumption DEF CreateReserve, TypeOK, InStock
  <2>2. call' \in [Calls -> CallStates]
    BY <1>3, CallUpdates DEF CreateReserve, TypeOK, Steps, CreateSteps
  <2> QED
    BY <1>3, <2>1, <2>2 DEF CreateReserve, TypeOK, rowVars
<1>4. ASSUME NEW c \in Calls, CreateInsert(c) PROVE TypeOK'
  <2>1. Row("PAYING", call[c].req) \in Rows
    BY DEF TypeOK, CallStates, Row, Rows, Statuses
  <2>2. orders' \in [Ids -> Rows]
    BY <1>4, <2>1 DEF CreateInsert, TypeOK
  <2>4. unbacked' \in Nat
    BY <1>4, StockAssumption DEF CreateInsert, TypeOK
  <2>3. call' \in [Calls -> CallStates]
    BY <1>4, CallUpdates DEF CreateInsert, TypeOK, Steps, CreateSteps
  <2> QED
    BY <1>4, <2>2, <2>3, <2>4 DEF CreateInsert, TypeOK, extVars
<1>5. ASSUME NEW c \in Calls, CreateUndo(c) PROVE TypeOK'
  <2>1. stock' \in Nat /\ orphaned' \in Nat
    BY <1>5, StockAssumption DEF CreateUndo, TypeOK
  <2> QED
    BY <1>5, <2>1, CallUpdates DEF CreateUndo, TypeOK, rowVars
<1>6. ASSUME NEW c \in Calls, ClaimCoupon(c) PROVE TypeOK'
  <2>1. call' \in [Calls -> CallStates]
    BY <1>6, CallUpdates DEF ClaimCoupon, TypeOK, Steps, PaySteps
  <2>2. claims' \in [Ids -> Nat]
    <3>1. claims' = claims \/ claims' = [claims EXCEPT ![call[c].oid] = @ + 1]
      BY <1>6 DEF ClaimCoupon
    <3>2. call[c].oid \in Ids
      BY <1>6 DEF ClaimCoupon, At, TxOK, TxOf, TxSteps, PaySteps
    <3>3. claims \in [Ids -> Nat]
      BY DEF TypeOK
    <3>4. [claims EXCEPT ![call[c].oid] = @ + 1] \in [Ids -> Nat]
      BY <3>2, <3>3, CountType
    <3> QED
      BY <3>1, <3>3, <3>4
  <2> QED
    BY <1>6, <2>1, <2>2 DEF ClaimCoupon, TypeOK, rowVars, histVars
<1>7. ASSUME NEW c \in Calls, Charge(c) PROVE TypeOK'
  <2>1. call' \in [Calls -> CallStates]
    BY <1>7, CallUpdates DEF Charge, TypeOK, Steps, PaySteps
  <2>2. payments' \in [Ids -> Nat]
    <3>1. payments' = payments \/ payments' = [payments EXCEPT ![call[c].oid] = @ + 1]
      BY <1>7 DEF Charge
    <3>2. call[c].oid \in Ids
      BY <1>7 DEF Charge, At, TxOK, TxOf, TxSteps, PaySteps
    <3>3. payments \in [Ids -> Nat]
      BY DEF TypeOK
    <3>4. [payments EXCEPT ![call[c].oid] = @ + 1] \in [Ids -> Nat]
      BY <3>2, <3>3, CountType
    <3> QED
      BY <3>1, <3>3, <3>4
  <2> QED
    BY <1>7, <2>1, <2>2 DEF Charge, TypeOK, rowVars, histVars
<1>8. ASSUME NEW c \in Calls, SubmitIssue(c) PROVE TypeOK'
  <2>1. call' \in [Calls -> CallStates]
    BY <1>8, CallUpdates DEF SubmitIssue, TypeOK, Steps
  <2>2. issues' \in [Ids -> Nat]
    <3>1. issues' = issues \/ issues' = [issues EXCEPT ![call[c].oid] = @ + 1]
      BY <1>8 DEF SubmitIssue
    <3>2. call[c].oid \in Ids
      BY <1>8 DEF SubmitIssue, At, TxOK, TxOf, TxSteps, PaySteps
    <3>3. issues \in [Ids -> Nat]
      BY DEF TypeOK
    <3>4. [issues EXCEPT ![call[c].oid] = @ + 1] \in [Ids -> Nat]
      BY <3>2, <3>3, CountType
    <3> QED
      BY <3>1, <3>3, <3>4
  <2> QED
    BY <1>8, <2>1, <2>2 DEF SubmitIssue, TypeOK, rowVars, histVars
<1>9. ASSUME NEW c \in Calls, Refund(c) PROVE TypeOK'
  <2>1. call' \in [Calls -> CallStates]
    BY <1>9, CallUpdates DEF Refund, TypeOK, Steps
  <2>2. refunds' \in [Ids -> Nat]
    <3>1. refunds' = refunds \/ refunds' = [refunds EXCEPT ![call[c].oid] = @ + 1]
      BY <1>9 DEF Refund
    <3>2. call[c].oid \in Ids
      BY <1>9 DEF Refund, At, TxOK, TxOf, TxSteps, PaySteps
    <3>3. refunds \in [Ids -> Nat]
      BY DEF TypeOK
    <3>4. [refunds EXCEPT ![call[c].oid] = @ + 1] \in [Ids -> Nat]
      BY <3>2, <3>3, CountType
    <3> QED
      BY <3>1, <3>3, <3>4
  <2> QED
    BY <1>9, <2>1, <2>2 DEF Refund, TypeOK, rowVars, histVars
<1>10. ASSUME NEW c \in Calls, Release(c) PROVE TypeOK'
  <2>1. call' \in [Calls -> CallStates]
    BY <1>10, CallUpdates DEF Release, TypeOK, Steps
  <2>2. stock' \in Nat /\ unbacked' \in Nat
    BY <1>10, StockAssumption DEF Release, TypeOK
  <2> QED
    BY <1>10, <2>1, <2>2 DEF Release, TypeOK, rowVars
<1>11. ASSUME NEW c \in Calls, Commit(c) PROVE TypeOK'
  <2> DEFINE o == call[c].oid
             op == call[c].op
  <2>1. o \in Ids /\ op \in TxOps
    BY <1>11 DEF Commit, At, TxOK, TxOf, TxSteps
  <2>2. Result(op) \in Statuses /\ Event(op) \in EventKinds
    BY <2>1, TableTypes
  <2>3. orders' \in [Ids -> Rows]
    BY <1>11, <2>1, <2>2, WriteType DEF Commit, TypeOK
  <2>4. outbox' \in [Ids -> Seq(EventKinds)]
    BY <1>11, <2>1, <2>2 DEF Commit, TypeOK
  <2> QED
    BY <1>11, <2>3, <2>4, CallUpdates DEF Commit, TypeOK, extVars, histVars
<1>12. ASSUME NEW c \in Calls, Conflict(c) PROVE TypeOK'
  BY <1>12, CallUpdates, StockAssumption DEF Conflict, TypeOK, rowVars, extVars
<1>13. ASSUME NEW c \in Calls, Crash(c) PROVE TypeOK'
  BY <1>13, CallUpdates, StockAssumption DEF Crash, TypeOK, rowVars, extVars
<1>14. ASSUME NEW o \in Ids, DeliveryTimeReached(o) PROVE TypeOK'
  BY <1>14 DEF DeliveryTimeReached, TypeOK, rowVars, extVars, histVars
<1>15. ASSUME NEW s \in Schedulers, Scan(s) PROVE TypeOK'
  <2>1. sched' \in [Schedulers -> SchedStates]
    <3>1. PICK page \in SUBSET Candidates : sched' = [sched EXCEPT ![s].todo = page]
      BY <1>15 DEF Scan
    <3>2. page \in SUBSET Ids
      BY DEF Candidates, TypeOK
    <3> QED
      BY <3>1, <3>2 DEF TypeOK, SchedStates
  <2> QED
    BY <1>15, <2>1 DEF Scan, TypeOK, rowVars, extVars, histVars
<1>16. ASSUME NEW s \in Schedulers, MarkRead(s) PROVE TypeOK'
  <2>1. sched' \in [Schedulers -> SchedStates]
    BY <1>16 DEF MarkRead, TypeOK, SchedStates, Rows
  <2> QED
    BY <1>16, <2>1 DEF MarkRead, TypeOK, rowVars, extVars, histVars
<1>17. ASSUME NEW s \in Schedulers, MarkSave(s) PROVE TypeOK'
  <2>1. sched[s].oid \in Ids
    BY <1>17 DEF MarkSave, TypeOK, SchedStates
  <2>2. sched' \in [Schedulers -> SchedStates]
    BY <1>17 DEF MarkSave, TypeOK, SchedStates
  <2>3. orders' \in [Ids -> Rows]
    BY <1>17, <2>1, WriteType DEF MarkSave, TypeOK, Statuses
  <2> QED
    BY <1>17, <2>2, <2>3 DEF MarkSave, TypeOK, extVars, histVars
<1>18. ASSUME NEW s \in Schedulers, SchedulerCrash(s) PROVE TypeOK'
  <2>1. sched' \in [Schedulers -> SchedStates]
    BY <1>18 DEF SchedulerCrash, TypeOK, SchedStates, Sleeping
  <2> QED
    BY <1>18, <2>1 DEF SchedulerCrash, TypeOK, rowVars, extVars, histVars
<1>19. CASE UNCHANGED vars
  BY <1>19 DEF TypeOK, vars, rowVars, extVars, histVars
<1> QED
  BY <1>1, <1>2, <1>3, <1>4, <1>5, <1>6, <1>7, <1>8, <1>9, <1>10, <1>11, <1>12, <1>13,
     <1>14, <1>15, <1>16, <1>17, <1>18, <1>19 DEF Next, Step

----------------------------------------------------------------------------
(* The version column *)

\* What a step may do to a row that exists: nothing, or move its version on.
RowsAdvance == \A o \in Ids : Exists(o) =>
    /\ Exists(o)'
    /\ orders[o].version <= orders'[o].version
    /\ orders'[o].version = orders[o].version => orders'[o].status = orders[o].status

\* A commit finds its row in a status its handler accepts: the version it has
\* read is the version of the row.
LEMMA CommitAllowed ==
    ASSUME Inv, NEW c \in Calls, Commit(c)
    PROVE  /\ call[c].oid \in Ids
           /\ call[c].op \in TxOps
           /\ orders[call[c].oid].status \in Allowed(call[c].op)
           /\ Write(call[c].oid, Result(call[c].op), orders[call[c].oid].paid \/ call[c].op = "pay")
<1>1. TxOf(c) /\ call[c].pc \in TxSteps
  BY DEF Inv, TxOK, Commit, At, TxSteps
<1> QED
  BY <1>1 DEF TxOf, Commit, VersionIs

\* So does the save of the scheduler.
LEMMA MarkSaveAllowed ==
    ASSUME Inv, NEW s \in Schedulers, MarkSave(s), orders' # orders
    PROVE  /\ sched[s].oid \in Ids
           /\ orders[sched[s].oid].status = "SHIPPING"
           /\ Write(sched[s].oid, "COMPLETED", orders[sched[s].oid].paid)
<1>1. sched[s].oid # NoOrder /\ sched[s].oid \in Ids /\ SchedOf(s)
  BY DEF Inv, TypeOK, SchedStates, SchedOK, MarkSave
<1> QED
  BY <1>1 DEF SchedOf, MarkSave, VersionIs

LEMMA WriteAdvances ==
    ASSUME TypeOK, NEW o \in Ids, NEW st \in Statuses \ {"NONE"}, NEW paid \in BOOLEAN,
           Write(o, st, paid)
    PROVE  RowsAdvance
BY DEF TypeOK, Rows, Write, RowsAdvance, Exists

LEMMA NextAdvances == Inv /\ [Next]_vars => RowsAdvance
<1> SUFFICES ASSUME Inv, [Next]_vars PROVE RowsAdvance
  OBVIOUS
<1> USE DEF Inv
<1>1. CASE UNCHANGED orders
  BY <1>1 DEF RowsAdvance, Exists, TypeOK, Rows
<1>2. ASSUME NEW c \in Calls, CreateInsert(c), orders' # orders PROVE RowsAdvance
  <2>1. PICK o \in Ids : ~Exists(o) /\ orders' = [orders EXCEPT ![o] = Row("PAYING", call[c].req)]
    BY <1>2 DEF CreateInsert
  <2> QED
    BY <2>1 DEF RowsAdvance, Exists, TypeOK, Rows
<1>3. ASSUME NEW c \in Calls, Commit(c) PROVE RowsAdvance
  <2>1. Result(call[c].op) \in Statuses \ {"NONE"}
    BY <1>3, CommitAllowed, TableTypes
  <2>2. (orders[call[c].oid].paid \/ call[c].op = "pay") \in BOOLEAN
    OBVIOUS
  <2> QED
    BY <1>3, <2>1, <2>2, CommitAllowed, WriteAdvances
<1>4. ASSUME NEW s \in Schedulers, MarkSave(s), orders' # orders PROVE RowsAdvance
  <2>1. "COMPLETED" \in Statuses \ {"NONE"}
    BY DEF Statuses
  <2>2. sched[s].oid \in Ids /\ orders[sched[s].oid].paid \in BOOLEAN
    BY <1>4, MarkSaveAllowed DEF TypeOK, Rows
  <2> QED
    BY <1>4, <2>1, <2>2, MarkSaveAllowed, WriteAdvances
<1> QED
  BY <1>1, <1>2, <1>3, <1>4 DEF Next, Step, vars, rowVars, CreateStart, TxStart, CreateReserve,
     CreateUndo, ClaimCoupon, Charge, SubmitIssue, Refund, Release, Conflict, Crash,
     DeliveryTimeReached, Scan, MarkRead, SchedulerCrash

----------------------------------------------------------------------------
(* Transactions and schedulers in progress *)

\* A call that does not move keeps what it knows, whatever the others commit.
LEMMA OthersKeepTx ==
    ASSUME Inv, RowsAdvance, TypeOK', NEW d \in Calls, call'[d] = call[d]
    PROVE  TxOf(d)'
<1> SUFFICES ASSUME call[d].pc \in TxSteps PROVE TxOf(d)'
  BY DEF TxOf
<1>1. TxOf(d) /\ call[d].ver \in Nat
  BY DEF Inv, TxOK, TypeOK, CallStates
<1>2. \A o \in Ids : orders[o].version \in Nat /\ orders'[o].version \in Nat
  BY DEF Inv, TypeOK, Rows
<1> QED
  BY <1>1, <1>2 DEF TxOf, RowsAdvance, Exists

\* A handler that goes to its next step on an unchanged row keeps it too.
LEMMA GotoKeepsTx ==
    ASSUME Inv, orders' = orders, NEW c \in Calls, NEW step, Goto(c, step),
           call[c].pc \in TxSteps,
           step \in PaySteps => call[c].op = "pay",
           step # "refund",
           step = "release" => Releases(call[c].op)
    PROVE  TxOf(c)'
<1>1. /\ call'[c].pc = step
      /\ call'[c].op = call[c].op
      /\ call'[c].oid = call[c].oid
      /\ call'[c].ver = call[c].ver
  BY DEF Goto, Inv, TypeOK, CallStates
<1>2. TxOf(c)
  BY DEF Inv, TxOK
<1> QED
  BY <1>1, <1>2 DEF TxOf, Exists

\* A call moves only by its own steps.
LEMMA ActsAlone ==
    ASSUME Inv, [Next]_vars, NEW d \in Calls, call'[d] # call[d]
    PROVE  \/ \E r \in Requests : CreateStart(d, r)
           \/ \E op \in TxOps, o \in Ids : TxStart(d, op, o)
           \/ Step(d)
           \/ Crash(d)
<1>0. call \in [Calls -> CallStates]
  BY DEF Inv, TypeOK
<1>1. \A c \in Calls : c # d =>
        /\ ~Finish(c)
        /\ \A step : ~Goto(c, step)
        /\ \A step, op, r, o, v : ~Enter(c, step, op, r, o, v)
  BY <1>0 DEF Finish, Goto, Enter
<1>2. ASSUME NEW c \in Calls, NEW r \in Requests, CreateStart(c, r) PROVE c = d
  BY <1>1, <1>2 DEF CreateStart
<1>3. ASSUME NEW c \in Calls, NEW op \in TxOps, NEW o \in Ids, TxStart(c, op, o) PROVE c = d
  BY <1>1, <1>3 DEF TxStart
<1>4. ASSUME NEW c \in Calls, CreateReserve(c) \/ CreateInsert(c) \/ CreateUndo(c) PROVE c = d
  BY <1>1, <1>4 DEF CreateReserve, CreateInsert, CreateUndo
<1>5. ASSUME NEW c \in Calls, ClaimCoupon(c) \/ Charge(c) \/ SubmitIssue(c) PROVE c = d
  BY <1>1, <1>5 DEF ClaimCoupon, Charge, SubmitIssue
<1>6. ASSUME NEW c \in Calls, Refund(c) \/ Release(c) \/ Commit(c) \/ Conflict(c) \/ Crash(c) PROVE c = d
  BY <1>1, <1>6 DEF Refund, Release, Commit, Conflict, Crash
<1>7. ASSUME NEW c \in Calls, Step(c) PROVE c = d
  BY <1>4, <1>5, <1>6, <1>7 DEF Step
<1>8. call' # call
  OBVIOUS
<1> QED
  BY <1>2, <1>3, <1>6, <1>7, <1>8
  DEF Next, vars, DeliveryTimeReached, Scan, MarkRead, MarkSave, SchedulerCrash

LEMMA NextTx == Inv /\ [Next]_vars => TxOK'
<1> SUFFICES ASSUME Inv, [Next]_vars, NEW d \in Calls PROVE TxOf(d)'
  BY DEF TxOK
<1>1. RowsAdvance /\ TypeOK'
  BY NextAdvances, NextType
<1>2. CASE call'[d] = call[d]
  BY <1>1, <1>2, OthersKeepTx
<1>3. CASE Finish(d)
  BY <1>3 DEF Finish, Done, TxOf, TxSteps, PaySteps, Inv, TypeOK
<1>4. ASSUME call'[d] # call[d], ~Finish(d) PROVE TxOf(d)'
  <2>1. ASSUME NEW r \in Requests, CreateStart(d, r) PROVE TxOf(d)'
    BY <1>4, <2>1 DEF CreateStart, Enter, TxOf, TxSteps, PaySteps, Inv, TypeOK
  <2>2. ASSUME NEW op \in TxOps, NEW o \in Ids, TxStart(d, op, o) PROVE TxOf(d)'
    <3>1. /\ orders[o].status \in Allowed(op)
          /\ orders' = orders
          /\ call'[d] = [pc |-> FirstStep(op), op |-> op, req |-> NoRequest, oid |-> o,
                         ver |-> orders[o].version]
      BY <1>4, <2>2 DEF TxStart, Enter, rowVars, Inv, TypeOK
    <3>2. orders[o].version \in Nat /\ Exists(o)
      BY <3>1, TableTypes DEF Inv, TypeOK, Rows, Exists
    <3> QED
      BY <3>1, <3>2, TableTypes DEF TxOf, Exists
  <2>3. CASE CreateReserve(d) \/ CreateInsert(d) \/ CreateUndo(d)
    BY <1>4, <2>3 DEF CreateReserve, CreateInsert, CreateUndo, Goto, TxOf, TxSteps, PaySteps,
       Inv, TypeOK, CallStates
  <2>4. CASE ClaimCoupon(d) \/ Charge(d) \/ SubmitIssue(d)
    <3>1. call[d].pc \in PaySteps /\ call[d].pc \in TxSteps /\ orders' = orders
      BY <2>4 DEF ClaimCoupon, Charge, SubmitIssue, At, rowVars, PaySteps, TxSteps
    <3>2. call[d].op = "pay"
      BY <3>1 DEF Inv, TxOK, TxOf
    <3>3. PICK step \in {"charge", "submit", "commit"} : Goto(d, step)
      BY <1>4, <2>4 DEF ClaimCoupon, Charge, SubmitIssue
    <3> QED
      BY <3>1, <3>2, <3>3, GotoKeepsTx
  <2>5. CASE Refund(d)
    <3>1. call[d].pc = "refund" /\ call[d].pc \in TxSteps /\ orders' = orders /\ Goto(d, "release")
      BY <1>4, <2>5 DEF Refund, At, rowVars, TxSteps
    <3>2. Releases(call[d].op)
      BY <3>1 DEF Inv, TxOK, TxOf, Releases
    <3> QED
      BY <3>1, <3>2, GotoKeepsTx DEF PaySteps
  <2>6. CASE Release(d)
    <3>1. call[d].pc \in TxSteps /\ orders' = orders /\ Goto(d, "commit")
      BY <1>4, <2>6 DEF Release, At, rowVars, TxSteps
    <3> QED
      BY <3>1, GotoKeepsTx DEF PaySteps
  <2>7. ~Commit(d) /\ ~Conflict(d) /\ ~Crash(d)
    BY <1>4 DEF Commit, Conflict, Crash
  <2> QED
    BY <1>4, <2>1, <2>2, <2>3, <2>4, <2>5, <2>6, <2>7, ActsAlone DEF Step
<1> QED
  BY <1>2, <1>3, <1>4

LEMMA NextSched == Inv /\ [Next]_vars => SchedOK'
<1> SUFFICES ASSUME Inv, [Next]_vars, NEW t \in Schedulers PROVE SchedOf(t)'
  BY DEF SchedOK
<1>1. RowsAdvance /\ TypeOK'
  BY NextAdvances, NextType
<1>2. \A o \in Ids : orders[o].version \in Nat /\ orders'[o].version \in Nat
  BY <1>1 DEF Inv, TypeOK, Rows
<1>3. SchedOf(t) /\ sched[t].ver \in Nat /\ sched[t].oid \in Ids \cup {NoOrder}
  BY DEF Inv, SchedOK, TypeOK, SchedStates
<1>4. CASE sched'[t] = sched[t]
  BY <1>1, <1>2, <1>3, <1>4 DEF SchedOf, RowsAdvance, Exists
<1>5. CASE sched'[t].oid = NoOrder
  BY <1>5 DEF SchedOf
<1>6. ASSUME MarkRead(t), sched'[t].oid # NoOrder PROVE SchedOf(t)'
  <2>1. PICK o \in sched[t].todo :
          sched' = [sched EXCEPT
              ![t] = IF orders[o].status = "SHIPPING" /\ o \in due
                     THEN [todo |-> @.todo \ {o}, oid |-> o, ver |-> orders[o].version]
                     ELSE [todo |-> @.todo \ {o}, oid |-> NoOrder, ver |-> 0]]
    BY <1>6 DEF MarkRead
  <2>2. o \in Ids /\ orders' = orders
    BY <1>6 DEF MarkRead, rowVars, Inv, TypeOK, SchedStates
  <2>3. sched'[t] = IF orders[o].status = "SHIPPING" /\ o \in due
                    THEN [todo |-> sched[t].todo \ {o}, oid |-> o, ver |-> orders[o].version]
                    ELSE [todo |-> sched[t].todo \ {o}, oid |-> NoOrder, ver |-> 0]
    BY <2>1 DEF Inv, TypeOK
  <2> QED
    BY <1>2, <1>6, <2>2, <2>3 DEF SchedOf, Exists
<1>7. CASE Scan(t)
  <2>1. PICK page \in SUBSET Candidates : sched' = [sched EXCEPT ![t].todo = page]
    BY <1>7 DEF Scan
  <2>2. sched'[t].oid = sched[t].oid /\ sched[t] = Sleeping
    BY <1>7, <2>1 DEF Scan, Inv, TypeOK, SchedStates
  <2> QED
    BY <1>5, <2>2 DEF Sleeping
<1>8. CASE MarkSave(t)
  <2>1. sched'[t].oid = NoOrder
    BY <1>8 DEF MarkSave, Inv, TypeOK, SchedStates
  <2> QED
    BY <1>5, <2>1
<1>9. CASE SchedulerCrash(t)
  <2>1. sched'[t].oid = NoOrder
    BY <1>9 DEF SchedulerCrash, Sleeping, Inv, TypeOK, SchedStates
  <2> QED
    BY <1>5, <2>1
<1>10. \A s \in Schedulers : s # t /\ (Scan(s) \/ MarkRead(s) \/ MarkSave(s) \/ SchedulerCrash(s))
          => sched'[t] = sched[t]
  BY DEF Scan, MarkRead, MarkSave, SchedulerCrash, Inv, TypeOK
<1>11. CASE UNCHANGED sched
  BY <1>4, <1>11
<1> QED
  BY <1>4, <1>5, <1>6, <1>7, <1>8, <1>9, <1>10, <1>11
  DEF Next, Step, vars, CreateStart, TxStart, CreateReserve, CreateInsert, CreateUndo,
      ClaimCoupon, Charge, SubmitIssue, Refund, Release, Commit, Conflict, Crash,
      DeliveryTimeReached

----------------------------------------------------------------------------
(* Rows and money *)

\* The only ways a step changes a row: an insert, a commit, or the scheduler.
RowEffect(o) ==
    \/ orders'[o] = orders[o] /\ outbox'[o] = outbox[o]
    \/ /\ ~Exists(o)
       /\ outbox'[o] = outbox[o]
       /\ \E r : orders'[o] = Row("PAYING", r)
    \/ \E c \in Calls :
          /\ At(c, "commit") /\ call[c].oid = o /\ call[c].op \in TxOps
          /\ orders[o].status \in Allowed(call[c].op)
          /\ orders'[o].status = Result(call[c].op)
          /\ orders'[o].paid = (orders[o].paid \/ call[c].op = "pay")
          /\ outbox'[o] = Append(outbox[o], Event(call[c].op))
          /\ UNCHANGED <<payments, refunds>>
    \/ /\ orders[o].status = "SHIPPING"
       /\ orders'[o].status = "COMPLETED"
       /\ orders'[o].paid = orders[o].paid
       /\ outbox'[o] = outbox[o]

LEMMA NextRowEffect == Inv /\ [Next]_vars => \A o \in Ids : RowEffect(o)
<1> SUFFICES ASSUME Inv, [Next]_vars, NEW o \in Ids PROVE RowEffect(o)
  OBVIOUS
<1> USE DEF Inv
<1>1. CASE UNCHANGED rowVars
  BY <1>1 DEF RowEffect, rowVars
<1>2. ASSUME NEW c \in Calls, CreateInsert(c), orders' # orders PROVE RowEffect(o)
  <2>1. PICK p \in Ids : ~Exists(p) /\ orders' = [orders EXCEPT ![p] = Row("PAYING", call[c].req)]
    BY <1>2 DEF CreateInsert
  <2>2. outbox' = outbox
    BY <1>2 DEF CreateInsert
  <2>3. CASE p = o
    BY <2>1, <2>2, <2>3 DEF RowEffect, TypeOK
  <2>4. CASE p # o
    BY <2>1, <2>2, <2>4 DEF RowEffect, TypeOK
  <2> QED
    BY <2>3, <2>4
<1>3. ASSUME NEW c \in Calls, Commit(c) PROVE RowEffect(o)
  <2>1. /\ call[c].oid \in Ids /\ call[c].op \in TxOps
        /\ orders[call[c].oid].status \in Allowed(call[c].op)
        /\ Write(call[c].oid, Result(call[c].op), orders[call[c].oid].paid \/ call[c].op = "pay")
        /\ outbox' = [outbox EXCEPT ![call[c].oid] = Append(@, Event(call[c].op))]
        /\ At(c, "commit")
        /\ UNCHANGED <<payments, refunds>>
    BY <1>3, CommitAllowed DEF Commit, extVars
  <2>2. CASE call[c].oid = o
    BY <2>1, <2>2 DEF RowEffect, TypeOK, Write
  <2>3. CASE call[c].oid # o
    BY <2>1, <2>3 DEF RowEffect, TypeOK, Write
  <2> QED
    BY <2>2, <2>3
<1>4. ASSUME NEW s \in Schedulers, MarkSave(s), orders' # orders PROVE RowEffect(o)
  <2>1. /\ sched[s].oid \in Ids
        /\ orders[sched[s].oid].status = "SHIPPING"
        /\ Write(sched[s].oid, "COMPLETED", orders[sched[s].oid].paid)
        /\ outbox' = outbox
    BY <1>4, MarkSaveAllowed DEF MarkSave
  <2>2. CASE sched[s].oid = o
    BY <2>1, <2>2 DEF RowEffect, TypeOK, Write
  <2>3. CASE sched[s].oid # o
    BY <2>1, <2>3 DEF RowEffect, TypeOK, Write
  <2> QED
    BY <2>2, <2>3
<1> QED
  BY <1>1, <1>2, <1>3, <1>4 DEF Next, Step, vars, rowVars, CreateStart, TxStart, CreateReserve,
     CreateInsert, CreateUndo, ClaimCoupon, Charge, SubmitIssue, Refund, Release, Conflict,
     Crash, DeliveryTimeReached, Scan, MarkRead, MarkSave, SchedulerCrash

LEMMA NextRow == Inv /\ [Next]_vars => RowOK'
<1> SUFFICES ASSUME Inv, [Next]_vars, NEW o \in Ids
             PROVE  /\ orders'[o].status \in {"NONE", "PAYING"} => ~orders'[o].paid
                    /\ orders'[o].status = "PENDING_APPROVAL" => o \in Legacy
  BY DEF RowOK
<1>1. RowEffect(o)
  BY NextRowEffect
<1>2. RowOK
  BY DEF Inv
<1> DEFINE NoLonger == orders'[o].status \notin {"NONE", "PAYING", "PENDING_APPROVAL"}
<1> QED
  <2>1. CASE orders'[o] = orders[o]
    BY <1>2, <2>1 DEF RowOK
  <2>2. CASE \E r : orders'[o] = Row("PAYING", r)
    BY <2>2 DEF Row
  <2>3. ASSUME NEW op \in TxOps, orders'[o].status = Result(op) PROVE NoLonger
    BY <2>3, TableTypes
  <2> QED
    BY <1>1, <2>1, <2>2, <2>3 DEF RowEffect

\* Counters of the payment platform only grow.
LEMMA MoneyGrows ==
    Inv /\ [Next]_vars => \A o \in Ids : payments[o] <= payments'[o] /\ refunds[o] <= refunds'[o]
<1> SUFFICES ASSUME Inv, [Next]_vars, NEW o \in Ids
             PROVE  payments[o] <= payments'[o] /\ refunds[o] <= refunds'[o]
  OBVIOUS
<1>1. payments[o] \in Nat /\ refunds[o] \in Nat
  BY DEF Inv, TypeOK
<1>2. ASSUME NEW c \in Calls, Charge(c)
      PROVE  payments[o] <= payments'[o] /\ refunds[o] <= refunds'[o]
  <2>1. payments' = payments \/ payments' = [payments EXCEPT ![call[c].oid] = @ + 1]
    BY <1>2 DEF Charge
  <2>2. call[c].oid \in Ids /\ refunds' = refunds
    BY <1>2 DEF Charge, At, Inv, TxOK, TxOf, TxSteps, PaySteps
  <2>3. payments \in [Ids -> Nat]
    BY DEF Inv, TypeOK
  <2> QED
    BY <1>1, <2>1, <2>2, <2>3
<1>3. ASSUME NEW c \in Calls, Refund(c)
      PROVE  payments[o] <= payments'[o] /\ refunds[o] <= refunds'[o]
  <2>1. refunds' = refunds \/ refunds' = [refunds EXCEPT ![call[c].oid] = @ + 1]
    BY <1>3 DEF Refund
  <2>2. call[c].oid \in Ids /\ payments' = payments
    BY <1>3 DEF Refund, At, Inv, TxOK, TxOf, TxSteps
  <2>3. refunds \in [Ids -> Nat]
    BY DEF Inv, TypeOK
  <2> QED
    BY <1>1, <2>1, <2>2, <2>3
<1>4. CASE UNCHANGED <<payments, refunds>>
  BY <1>1, <1>4
<1> QED
  BY <1>2, <1>3, <1>4 DEF Next, Step, vars, extVars, CreateStart, TxStart, CreateReserve,
     CreateInsert, CreateUndo, ClaimCoupon, SubmitIssue, Release, Commit, Conflict,
     Crash, DeliveryTimeReached, Scan, MarkRead, MarkSave, SchedulerCrash

LEMMA NextMoney == Inv /\ [Next]_vars => MoneyOK'
<1> SUFFICES ASSUME Inv, [Next]_vars, PaymentEnabled, NEW d \in Calls
             PROVE  /\ call'[d].op = "pay" /\ call'[d].pc \in {"submit", "commit"}
                          => payments'[call'[d].oid] > 0
                    /\ call'[d].op = "reject" /\ call'[d].pc \in {"release", "commit"}
                          => refunds'[call'[d].oid] > 0
  BY DEF MoneyOK
<1> DEFINE Paid == call'[d].op = "pay" /\ call'[d].pc \in {"submit", "commit"}
                       => payments'[call'[d].oid] > 0
           Refunded == call'[d].op = "reject" /\ call'[d].pc \in {"release", "commit"}
                       => refunds'[call'[d].oid] > 0
<1>1. TypeOK /\ TypeOK' /\ TxOf(d) /\ TxOK' /\ MoneyOK
  BY NextType, NextTx DEF Inv, TxOK
<1>2. \A o \in Ids : /\ payments[o] \in Nat /\ payments'[o] \in Nat /\ payments[o] <= payments'[o]
                     /\ refunds[o] \in Nat /\ refunds'[o] \in Nat /\ refunds[o] <= refunds'[o]
  BY <1>1, MoneyGrows DEF TypeOK
<1>3. CASE call'[d] = call[d]
  <2>1. call[d].pc \in {"submit", "release", "commit"} => call[d].oid \in Ids
    BY <1>1 DEF TxOf, TxSteps, PaySteps
  <2> QED
    BY <1>1, <1>2, <1>3, <2>1 DEF MoneyOK
<1>4. CASE Finish(d)
  BY <1>4, <1>1, CallTypes DEF Finish, TypeOK
<1>5. ASSUME NEW step, Goto(d, step)
      PROVE  /\ call'[d].pc = step /\ call'[d].op = call[d].op /\ call'[d].oid = call[d].oid
  BY <1>1, <1>5 DEF Goto, TypeOK, CallStates
<1>6. ASSUME NEW step, NEW op, NEW r, NEW o, NEW v, Enter(d, step, op, r, o, v)
      PROVE  call'[d].pc = step /\ call'[d].op = op
  BY <1>1, <1>6 DEF Enter, TypeOK
<1>7. ASSUME call'[d] # call[d], ~Finish(d) PROVE Paid /\ Refunded
  <2>1. ASSUME NEW r \in Requests, CreateStart(d, r) PROVE Paid /\ Refunded
    BY <1>6, <1>7, <2>1 DEF CreateStart
  <2>2. ASSUME NEW op \in TxOps, NEW o \in Ids, TxStart(d, op, o) PROVE Paid /\ Refunded
    <3>1. call'[d].pc = FirstStep(op) /\ call'[d].op = op
      BY <1>6, <1>7, <2>2 DEF TxStart
    <3> QED
      BY <3>1, TableTypes
  <2>3. CASE CreateReserve(d) \/ CreateInsert(d) \/ CreateUndo(d)
    BY <1>5, <1>7, <2>3 DEF CreateReserve, CreateInsert, CreateUndo
  <2>4. CASE ClaimCoupon(d)
    BY <1>5, <1>7, <2>4 DEF ClaimCoupon
  <2>5. CASE Charge(d)
    <3>1. call[d].pc = "charge" /\ call[d].oid \in Ids /\ call[d].op = "pay"
      BY <1>1, <2>5 DEF Charge, At, TxOf, TxSteps, PaySteps
    <3>2. Goto(d, "submit") /\ payments' = [payments EXCEPT ![call[d].oid] = @ + 1]
      BY <1>7, <2>5 DEF Charge
    <3>3. payments'[call[d].oid] > 0
      BY <1>1, <3>1, <3>2 DEF TypeOK
    <3>4. call'[d].pc = "submit" /\ call'[d].op = call[d].op /\ call'[d].oid = call[d].oid
      BY <1>5, <3>2
    <3> QED
      BY <1>1, <1>2, <3>1, <3>3, <3>4
  <2>6. CASE SubmitIssue(d)
    <3>1. call[d].pc = "submit" /\ call[d].oid \in Ids /\ call[d].op = "pay"
      BY <1>1, <2>6 DEF SubmitIssue, At, TxOf, TxSteps, PaySteps
    <3>2. Goto(d, "commit")
      BY <1>7, <2>6 DEF SubmitIssue
    <3>3. payments[call[d].oid] > 0
      BY <1>1, <3>1 DEF MoneyOK
    <3> QED
      BY <1>2, <1>5, <3>1, <3>2, <3>3
  <2>7. CASE Refund(d)
    <3>1. call[d].pc = "refund" /\ call[d].oid \in Ids /\ call[d].op = "reject"
      BY <1>1, <2>7 DEF Refund, At, TxOf, TxSteps
    <3>2. Goto(d, "release") /\ refunds' = [refunds EXCEPT ![call[d].oid] = @ + 1]
      BY <1>7, <2>7 DEF Refund
    <3>3. refunds'[call[d].oid] > 0
      BY <1>1, <3>1, <3>2 DEF TypeOK
    <3>4. call'[d].pc = "release" /\ call'[d].op = call[d].op /\ call'[d].oid = call[d].oid
      BY <1>5, <3>2
    <3> QED
      BY <1>1, <1>2, <3>1, <3>3, <3>4
  <2>8. CASE Release(d)
    <3>1. call[d].pc = "release" /\ call[d].oid \in Ids /\ call[d].op # "pay"
      BY <1>1, <2>8 DEF Release, At, TxOf, TxSteps, Releases
    <3>2. Goto(d, "commit")
      BY <1>7, <2>8 DEF Release
    <3>3. call[d].op = "reject" => refunds[call[d].oid] > 0
      BY <1>1, <3>1 DEF MoneyOK
    <3> QED
      BY <1>2, <1>5, <3>1, <3>2, <3>3
  <2>9. ~Commit(d) /\ ~Conflict(d) /\ ~Crash(d)
    BY <1>7 DEF Commit, Conflict, Crash
  <2> QED
    BY <1>7, <2>1, <2>2, <2>3, <2>4, <2>5, <2>6, <2>7, <2>8, <2>9, ActsAlone DEF Step
<1> QED
  BY <1>3, <1>4, <1>7

----------------------------------------------------------------------------
(* The theorems *)

LEMMA NextInv == Inv /\ [Next]_vars => Inv'
BY NextType, NextRow, NextTx, NextSched, NextMoney DEF Inv

LEMMA Invariance == Spec => []Inv
BY InitInv, NextInv, PTL DEF Spec

\* Every variable keeps its type; in particular the stock never goes negative.
THEOREM TypeCorrect == Spec => []TypeOK
<1>1. Inv => TypeOK
  BY DEF Inv
<1> QED
  BY <1>1, Invariance, PTL

\* The outbox and the rows never disagree: the events staged for an order are
\* exactly those its row calls for (OrderService publishes in the transaction
\* that updates the row).
THEOREM OutboxCorrect == Spec => []OutboxMatchesStatus
<1>1. Init => OutboxMatchesStatus
  BY DEF Init, OutboxMatchesStatus, Announced, NoRow, Row
<1>2. Inv /\ OutboxMatchesStatus /\ [Next]_vars => OutboxMatchesStatus'
  <2> SUFFICES ASSUME Inv, OutboxMatchesStatus, [Next]_vars, NEW o \in Ids
               PROVE  outbox'[o] = Announced(orders'[o])
    BY DEF OutboxMatchesStatus
  <2>1. RowEffect(o) /\ outbox[o] = Announced(orders[o])
    BY NextRowEffect DEF OutboxMatchesStatus
  <2>2. orders[o].status \in {"NONE", "PAYING"} => orders[o].paid = FALSE
    BY DEF Inv, TypeOK, RowOK, Rows
  <2>3. CASE orders'[o] = orders[o] /\ outbox'[o] = outbox[o]
    BY <2>1, <2>3
  <2>4. ASSUME NEW r, ~Exists(o), outbox'[o] = outbox[o], orders'[o] = Row("PAYING", r)
        PROVE  outbox'[o] = Announced(orders'[o])
    BY <2>1, <2>2, <2>4 DEF Announced, Row, Exists
  <2>5. ASSUME NEW op \in TxOps,
               orders[o].status \in Allowed(op),
               orders'[o].status = Result(op),
               orders'[o].paid = (orders[o].paid \/ op = "pay"),
               outbox'[o] = Append(outbox[o], Event(op))
        PROVE  outbox'[o] = Announced(orders'[o])
    <3>1. orders[o].paid \in BOOLEAN
      BY DEF Inv, TypeOK, Rows
    <3>2. CASE op = "pay"
      <4>1. orders[o].paid = FALSE /\ outbox[o] = <<>> /\ orders'[o].paid = TRUE
        BY <2>1, <2>2, <2>5, <3>2 DEF Allowed, Announced
      <4> QED
        BY <2>5, <3>2, <4>1 DEF Announced, Result, Event
    <3>3. CASE op = "cancel"
      BY <2>1, <2>5, <3>1, <3>3 DEF Allowed, Result, Event, Announced, PendingApproval
    <3>4. CASE op = "approve"
      BY <2>1, <2>5, <3>1, <3>4 DEF Allowed, Result, Event, Announced, PendingApproval
    <3>5. CASE op = "reject"
      BY <2>1, <2>5, <3>1, <3>5 DEF Allowed, Result, Event, Announced, PendingApproval
    <3> QED
      BY <3>2, <3>3, <3>4, <3>5 DEF TxOps
  <2>6. CASE /\ orders[o].status = "SHIPPING"
             /\ orders'[o].status = "COMPLETED"
             /\ orders'[o].paid = orders[o].paid
             /\ outbox'[o] = outbox[o]
    BY <2>1, <2>6 DEF Announced
  <2> QED
    BY <2>1, <2>3, <2>4, <2>5, <2>6 DEF RowEffect
<1> QED
  BY <1>1, <1>2, Invariance, PTL DEF Spec

\* No order made by the current checkout gets past PAYING without a charge, and
\* none is REJECTED without a refund, whatever races and crashes happen.
THEOREM MoneyCorrect == Spec => []PaidBeforeShipped
<1>1. Init => PaidBeforeShipped
  BY DEF Init, PaidBeforeShipped, NoRow, Row
<1>2. Inv /\ PaidBeforeShipped /\ [Next]_vars => PaidBeforeShipped'
  <2> SUFFICES ASSUME Inv, PaidBeforeShipped, [Next]_vars, PaymentEnabled, NEW o \in Ids
               PROVE  /\ orders'[o].status \in {"PAID_PENDING_APPROVAL", "SHIPPING", "COMPLETED",
                                                "REJECTED"} /\ o \notin Legacy => payments'[o] > 0
                      /\ orders'[o].status = "REJECTED" => refunds'[o] > 0
    BY DEF PaidBeforeShipped
  <2> DEFINE Past(st) == st \in {"PAID_PENDING_APPROVAL", "SHIPPING", "COMPLETED", "REJECTED"}
  <2>1. RowEffect(o) /\ TypeOK'
    BY NextRowEffect, NextType
  <2>2. /\ Past(orders[o].status) /\ o \notin Legacy => payments[o] > 0
        /\ orders[o].status = "REJECTED" => refunds[o] > 0
    BY DEF PaidBeforeShipped
  <2>3. /\ payments[o] \in Nat /\ payments'[o] \in Nat /\ payments[o] <= payments'[o]
        /\ refunds[o] \in Nat /\ refunds'[o] \in Nat /\ refunds[o] <= refunds'[o]
    BY <2>1, MoneyGrows DEF Inv, TypeOK
  <2>4. CASE orders'[o] = orders[o]
    BY <2>2, <2>3, <2>4
  <2>5. CASE \E r : orders'[o] = Row("PAYING", r)
    BY <2>5 DEF Row
  <2>6. ASSUME NEW c \in Calls, At(c, "commit"), call[c].oid = o, call[c].op \in TxOps,
               orders[o].status \in Allowed(call[c].op),
               orders'[o].status = Result(call[c].op)
        PROVE  /\ Past(orders'[o].status) /\ o \notin Legacy => payments'[o] > 0
               /\ orders'[o].status = "REJECTED" => refunds'[o] > 0
    <3>1. /\ call[c].op = "pay" => payments[o] > 0
          /\ call[c].op = "reject" => refunds[o] > 0
      BY <2>6 DEF Inv, MoneyOK, At
    <3>2. orders[o].status \in PendingApproval /\ o \notin Legacy => payments[o] > 0
      BY <2>2 DEF PendingApproval, Inv, RowOK
    <3> QED
      BY <2>3, <2>6, <3>1, <3>2 DEF TxOps, Allowed, Result
  <2>7. CASE orders[o].status = "SHIPPING" /\ orders'[o].status = "COMPLETED"
    BY <2>2, <2>3, <2>7
  <2> QED
    BY <2>1, <2>4, <2>5, <2>6, <2>7 DEF RowEffect
<1> QED
  BY <1>1, <1>2, Invariance, PTL DEF Spec

LEMMA WriteKeepsKeys ==
    ASSUME TypeOK, NEW o \in Ids, NEW st, NEW paid, Write(o, st, paid)
    PROVE  \A p \in Ids : orders'[p].req = orders[p].req
BY DEF Write, TypeOK, Rows

\* One idempotency key, one order, whatever the interleaving of duplicate
\* createOrder calls.
THEOREM KeysCorrect == Spec => []OneOrderPerRequest
<1>1. Init => OneOrderPerRequest
  BY DEF Init, OneOrderPerRequest, NoRow, Row
<1>2. Inv /\ OneOrderPerRequest /\ [Next]_vars => OneOrderPerRequest'
  <2> SUFFICES ASSUME Inv, OneOrderPerRequest, [Next]_vars PROVE OneOrderPerRequest'
    OBVIOUS
  <2>1. ASSUME \A o \in Ids : orders'[o].req = orders[o].req PROVE OneOrderPerRequest'
    BY <2>1 DEF OneOrderPerRequest
  <2>2. ASSUME NEW c \in Calls, CreateInsert(c), orders' # orders PROVE OneOrderPerRequest'
    <3>1. PICK o \in Ids : orders' = [orders EXCEPT ![o] = Row("PAYING", call[c].req)]
      BY <2>2 DEF CreateInsert
    <3>2. \A p \in Ids : orders[p].req # call[c].req
      BY <2>2 DEF CreateInsert, KeyFree
    <3> QED
      BY <3>1, <3>2 DEF OneOrderPerRequest, Row, Inv, TypeOK
  <2>3. ASSUME NEW c \in Calls, Commit(c) PROVE OneOrderPerRequest'
    BY <2>1, <2>3, CommitAllowed, WriteKeepsKeys DEF Inv
  <2>4. ASSUME NEW s \in Schedulers, MarkSave(s), orders' # orders PROVE OneOrderPerRequest'
    BY <2>1, <2>4, MarkSaveAllowed, WriteKeepsKeys DEF Inv
  <2>5. CASE UNCHANGED orders
    BY <2>1, <2>5
  <2> QED
    BY <2>2, <2>3, <2>4, <2>5 DEF Next, Step, vars, rowVars, CreateStart, TxStart, CreateReserve,
       CreateUndo, ClaimCoupon, Charge, SubmitIssue, Refund, Release, Conflict, Crash,
       DeliveryTimeReached, Scan, MarkRead, SchedulerCrash
<1> QED
  BY <1>1, <1>2, Invariance, PTL DEF Spec

\* The handlers and the scheduler implement the abstract order of
\* OrderLifecycle: every step is one atomic operation of it, or no operation.
THEOREM Refinement == Spec => RefinesLifecycle
<1> DEFINE st == [o \in Ids |-> orders[o].status]
<1>1. Init => L!Init
  BY DEF Init, L!Init, NoRow, Row
<1>2. Inv /\ [Next]_vars => [L!Next]_(L!vars)
  <2> SUFFICES ASSUME Inv, [Next]_vars PROVE L!Next \/ (st' = st /\ outbox' = outbox)
    BY DEF L!vars
  <2>1. ASSUME NEW c \in Calls, CreateInsert(c), orders' # orders PROVE L!Next
    <3>1. PICK o \in Ids : ~Exists(o) /\ orders' = [orders EXCEPT ![o] = Row("PAYING", call[c].req)]
      BY <2>1 DEF CreateInsert
    <3>2. st' = [st EXCEPT ![o] = "PAYING"] /\ st[o] = "NONE"
      BY <3>1 DEF Row, Exists, Inv, TypeOK
    <3>3. L!Create(o)
      BY <2>1, <3>2 DEF L!Create, L!Move, CreateInsert
    <3> QED
      BY <3>3 DEF L!Next
  <2>2. ASSUME NEW c \in Calls, Commit(c) PROVE L!Next
    <3>1. PICK o \in Ids, op \in TxOps :
             /\ orders[o].status \in Allowed(op)
             /\ Write(o, Result(op), orders[o].paid \/ op = "pay")
             /\ outbox' = [outbox EXCEPT ![o] = Append(@, Event(op))]
      BY <2>2, CommitAllowed DEF Commit
    <3>2. st' = [st EXCEPT ![o] = Result(op)] /\ st[o] \in Allowed(op)
      BY <3>1 DEF Write, Inv, TypeOK
    <3>3. CASE op = "pay"
      <4>1. L!Pay(o)
        BY <3>1, <3>2, <3>3 DEF L!Pay, L!Move, L!Log, Result, Event, Allowed
      <4> QED
        BY <3>1, <4>1 DEF L!Next
    <3>4. CASE op = "cancel"
      <4>1. L!Cancel(o)
        BY <3>1, <3>2, <3>4 DEF L!Cancel, L!Move, L!Log, L!PendingApproval, PendingApproval,
           Result, Event, Allowed
      <4> QED
        BY <3>1, <4>1 DEF L!Next
    <3>5. CASE op = "approve"
      <4>1. L!Approve(o)
        BY <3>1, <3>2, <3>5 DEF L!Approve, L!Move, L!Log, L!PendingApproval, PendingApproval,
           Result, Event, Allowed
      <4> QED
        BY <3>1, <4>1 DEF L!Next
    <3>6. CASE op = "reject"
      <4>1. L!Reject(o)
        BY <3>1, <3>2, <3>6 DEF L!Reject, L!Move, L!Log, L!PendingApproval, PendingApproval,
           Result, Event, Allowed
      <4> QED
        BY <3>1, <4>1 DEF L!Next
    <3> QED
      BY <3>1, <3>3, <3>4, <3>5, <3>6 DEF TxOps
  <2>3. ASSUME NEW s \in Schedulers, MarkSave(s), orders' # orders PROVE L!Next
    <3>1. PICK o \in Ids : /\ orders[o].status = "SHIPPING"
                           /\ Write(o, "COMPLETED", orders[o].paid)
                           /\ outbox' = outbox
      BY <2>3, MarkSaveAllowed DEF MarkSave
    <3>2. st' = [st EXCEPT ![o] = "COMPLETED"] /\ st[o] = "SHIPPING"
      BY <3>1 DEF Write, Inv, TypeOK
    <3>3. L!Complete(o)
      BY <3>1, <3>2 DEF L!Complete, L!Move
    <3> QED
      BY <3>1, <3>3 DEF L!Next
  <2>4. CASE UNCHANGED rowVars
    BY <2>4 DEF rowVars
  <2> QED
    BY <2>1, <2>2, <2>3, <2>4 DEF Next, Step, vars, rowVars, CreateStart, TxStart, CreateReserve,
       CreateInsert, CreateUndo, ClaimCoupon, Charge, SubmitIssue, Refund, Release, Conflict,
       Crash, DeliveryTimeReached, Scan, MarkRead, MarkSave, SchedulerCrash
<1> QED
  BY <1>1, <1>2, Invariance, PTL DEF Spec, RefinesLifecycle, L!Spec

----------------------------------------------------------------------------
(* The stock *)

\* The orders that hold their units.
Holders == {o \in Ids : Holds(o)}

\* Only finitely many rows and calls hold units at any moment, although there
\* may be infinitely many keys and calls; with that the balance is inductive.
StockInv ==
    /\ IsFiniteSet(Holders) /\ IsFiniteSet(Reserving) /\ IsFiniteSet(Releasing)
    /\ StockAccounted

\* One member more or less.
LEMMA CountFacts ==
    ASSUME NEW S, IsFiniteSet(S), NEW x
    PROVE  /\ Cardinality(S) \in Nat
           /\ IsFiniteSet(S \cup {x}) /\ IsFiniteSet(S \ {x})
           /\ Cardinality(S \cup {x}) = IF x \in S THEN Cardinality(S) ELSE Cardinality(S) + 1
           /\ Cardinality(S \ {x}) \in Nat
           /\ Cardinality(S) = IF x \in S THEN Cardinality(S \ {x}) + 1 ELSE Cardinality(S \ {x})
<1>1. Cardinality(S) \in Nat
  BY FS_CardinalityType
<1>2. IsFiniteSet(S \cup {x}) /\ Cardinality(S \cup {x}) = IF x \in S THEN Cardinality(S) ELSE Cardinality(S) + 1
  BY FS_AddElement
<1>3. IsFiniteSet(S \ {x}) /\ Cardinality(S \ {x}) = IF x \in S THEN Cardinality(S) - 1 ELSE Cardinality(S)
  BY FS_RemoveElement
<1>4. Cardinality(S \ {x}) \in Nat
  BY <1>3, FS_CardinalityType
<1> QED
  BY <1>1, <1>2, <1>3, <1>4

\* The units of so many holders.
LEMMA UnitsFacts ==
    /\ Quantity * 0 = 0
    /\ \A n \in Nat : Quantity * n \in Nat /\ Quantity * (n + 1) = Quantity * n + Quantity
    /\ \A m, n \in Nat : Quantity * (m + n) = Quantity * m + Quantity * n
<1>1. Quantity \in Nat
  BY StockAssumption
<1>2. \A n \in Nat : Quantity * n \in Nat
  BY <1>1
<1>3. \A n \in Nat : Quantity * (n + 1) = Quantity * n + Quantity
  BY <1>1
<1>4. \A m, n \in Nat : Quantity * (m + n) = Quantity * m + Quantity * n
  BY <1>1
<1> QED
  BY <1>1, <1>2, <1>3, <1>4

\* The balance with its products taken apart.
LEMMA Balance ==
    ASSUME IsFiniteSet(Holders), IsFiniteSet(Reserving), IsFiniteSet(Releasing)
    PROVE  StockAccounted <=>
             stock + (Quantity * Cardinality(Holders) + Quantity * Cardinality(Reserving)) + orphaned
               = InitialStock + (Quantity * Cardinality(Legacy) + Quantity * Cardinality(Releasing))
                   + unbacked
<1>1. /\ Cardinality(Holders) \in Nat /\ Cardinality(Reserving) \in Nat
      /\ Cardinality(Releasing) \in Nat /\ Cardinality(Legacy) \in Nat
  BY LegacyAssumption, FS_CardinalityType
<1>2. /\ Quantity * (Cardinality(Holders) + Cardinality(Reserving))
           = Quantity * Cardinality(Holders) + Quantity * Cardinality(Reserving)
      /\ Quantity * (Cardinality(Legacy) + Cardinality(Releasing))
           = Quantity * Cardinality(Legacy) + Quantity * Cardinality(Releasing)
  BY <1>1, UnitsFacts
<1> QED
  BY <1>2 DEF StockAccounted, Holders

\* Where a call that moves stands afterwards.
LEMMA CallSets ==
    ASSUME call \in [Calls -> CallStates], NEW c \in Calls, NEW n,
           call' = [call EXCEPT ![c] = n]
    PROVE  /\ Reserving' = IF n.pc \in {"insert", "undo"} THEN Reserving \cup {c} ELSE Reserving \ {c}
           /\ Releasing' = IF n.pc = "commit" /\ Releases(n.op) THEN Releasing \cup {c}
                                                                  ELSE Releasing \ {c}
<1>1. \A d \in Calls : call'[d] = IF d = c THEN n ELSE call[d]
  OBVIOUS
<1>2. \A d : d \in Reserving' <=> d \in Calls /\ call'[d].pc \in {"insert", "undo"}
  BY DEF Reserving
<1>3. \A d : d \in Releasing' <=> d \in Calls /\ call'[d].pc = "commit" /\ Releases(call'[d].op)
  BY DEF Releasing, At, Releases
<1>4. \A d : d \in Reserving <=> d \in Calls /\ call[d].pc \in {"insert", "undo"}
  BY DEF Reserving
<1>5. \A d : d \in Releasing <=> d \in Calls /\ call[d].pc = "commit" /\ Releases(call[d].op)
  BY DEF Releasing, At, Releases
<1>6. CASE n.pc \in {"insert", "undo"}
  BY <1>1, <1>2, <1>3, <1>4, <1>5, <1>6
<1>7. CASE n.pc = "commit" /\ Releases(n.op)
  BY <1>1, <1>2, <1>3, <1>4, <1>5, <1>7
<1>8. CASE n.pc \notin {"insert", "undo"} /\ ~(n.pc = "commit" /\ Releases(n.op))
  BY <1>1, <1>2, <1>3, <1>4, <1>5, <1>8
<1> QED
  BY <1>6, <1>7, <1>8

\* The same by the ways a call moves.
LEMMA MoveSets ==
    ASSUME Inv, NEW c \in Calls
    PROVE  /\ Finish(c) => Reserving' = Reserving \ {c} /\ Releasing' = Releasing \ {c}
           /\ \A step : Goto(c, step) =>
                 /\ Reserving' = IF step \in {"insert", "undo"} THEN Reserving \cup {c}
                                                                ELSE Reserving \ {c}
                 /\ Releasing' = IF step = "commit" /\ Releases(call[c].op) THEN Releasing \cup {c}
                                                                         ELSE Releasing \ {c}
           /\ \A step, op, r, o, v : Enter(c, step, op, r, o, v) =>
                 /\ Reserving' = IF step \in {"insert", "undo"} THEN Reserving \cup {c}
                                                                ELSE Reserving \ {c}
                 /\ Releasing' = IF step = "commit" /\ Releases(op) THEN Releasing \cup {c}
                                                                 ELSE Releasing \ {c}
<1>0. call \in [Calls -> CallStates]
  BY DEF Inv, TypeOK
<1>1. ASSUME Finish(c) PROVE Reserving' = Reserving \ {c} /\ Releasing' = Releasing \ {c}
  BY <1>0, <1>1, CallSets, CallTypes DEF Finish
<1>2. ASSUME NEW step, Goto(c, step)
      PROVE  /\ Reserving' = IF step \in {"insert", "undo"} THEN Reserving \cup {c}
                                                            ELSE Reserving \ {c}
             /\ Releasing' = IF step = "commit" /\ Releases(call[c].op) THEN Releasing \cup {c}
                                                                     ELSE Releasing \ {c}
  <2> DEFINE n == [call[c] EXCEPT !.pc = step]
  <2>1. call' = [call EXCEPT ![c] = n]
    BY <1>0, <1>2 DEF Goto
  <2>2. n.pc = step /\ n.op = call[c].op
    BY <1>0 DEF CallStates
  <2> HIDE DEF n
  <2> QED
    BY <1>0, <2>1, <2>2, CallSets
<1>3. ASSUME NEW step, NEW op, NEW r, NEW o, NEW v, Enter(c, step, op, r, o, v)
      PROVE  /\ Reserving' = IF step \in {"insert", "undo"} THEN Reserving \cup {c}
                                                            ELSE Reserving \ {c}
             /\ Releasing' = IF step = "commit" /\ Releases(op) THEN Releasing \cup {c}
                                                             ELSE Releasing \ {c}
  <2> DEFINE n == [pc |-> step, op |-> op, req |-> r, oid |-> o, ver |-> v]
  <2>1. call' = [call EXCEPT ![c] = n]
    BY <1>3 DEF Enter
  <2>2. n.pc = step /\ n.op = op
    OBVIOUS
  <2> HIDE DEF n
  <2> QED
    BY <1>0, <2>1, <2>2, CallSets
<1> QED
  BY <1>1, <1>2, <1>3

Units(S) == Quantity * Cardinality(S)

LEMMA UnitsOf ==
    ASSUME NEW S, IsFiniteSet(S), NEW x
    PROVE  /\ Units(S) \in Nat
           /\ IsFiniteSet(S \cup {x}) /\ IsFiniteSet(S \ {x})
           /\ Units(S \cup {x}) = IF x \in S THEN Units(S) ELSE Units(S) + Quantity
           /\ Units(S \ {x}) \in Nat
           /\ Units(S) = IF x \in S THEN Units(S \ {x}) + Quantity ELSE Units(S \ {x})
<1>1. /\ Cardinality(S) \in Nat /\ Cardinality(S \ {x}) \in Nat
      /\ IsFiniteSet(S \cup {x}) /\ IsFiniteSet(S \ {x})
  BY CountFacts
<1>2. Units(S) \in Nat /\ Units(S \ {x}) \in Nat
  BY <1>1, UnitsFacts DEF Units
<1>3. Units(S \cup {x}) = IF x \in S THEN Units(S) ELSE Units(S) + Quantity
  <2>1. Cardinality(S \cup {x}) = IF x \in S THEN Cardinality(S) ELSE Cardinality(S) + 1
    BY CountFacts
  <2>2. Quantity * (Cardinality(S) + 1) = Quantity * Cardinality(S) + Quantity
    BY <1>1, UnitsFacts
  <2> QED
    BY <2>1, <2>2 DEF Units
<1>4. Units(S) = IF x \in S THEN Units(S \ {x}) + Quantity ELSE Units(S \ {x})
  <2>1. Cardinality(S) = IF x \in S THEN Cardinality(S \ {x}) + 1 ELSE Cardinality(S \ {x})
    BY CountFacts
  <2>2. Quantity * (Cardinality(S \ {x}) + 1) = Quantity * Cardinality(S \ {x}) + Quantity
    BY <1>1, UnitsFacts
  <2> QED
    BY <2>1, <2>2 DEF Units
<1> QED
  BY <1>1, <1>2, <1>3, <1>4

\* What a step takes on one side of the balance it gives on the other.
LEMMA Settled ==
    ASSUME Inv, StockInv, TypeOK',
           IsFiniteSet(Holders'), IsFiniteSet(Reserving'), IsFiniteSet(Releasing'),
           stock' + Units(Holders') + Units(Reserving') + orphaned' + Units(Releasing) + unbacked
             = stock + Units(Holders) + Units(Reserving) + orphaned + Units(Releasing') + unbacked'
    PROVE  StockInv'
<1>1. /\ Units(Holders) \in Nat /\ Units(Reserving) \in Nat /\ Units(Releasing) \in Nat
      /\ Units(Holders') \in Nat /\ Units(Reserving') \in Nat /\ Units(Releasing') \in Nat
      /\ Units(Legacy) \in Nat
  BY UnitsOf, LegacyAssumption DEF StockInv
<1>2. /\ stock \in Nat /\ orphaned \in Nat /\ unbacked \in Nat
      /\ stock' \in Nat /\ orphaned' \in Nat /\ unbacked' \in Nat /\ InitialStock \in Nat
  BY StockAssumption DEF Inv, TypeOK
<1>3. stock + (Units(Holders) + Units(Reserving)) + orphaned
        = InitialStock + (Units(Legacy) + Units(Releasing)) + unbacked
  BY Balance DEF StockInv, Units
<1>4. stock' + (Units(Holders') + Units(Reserving')) + orphaned'
        = InitialStock + (Units(Legacy) + Units(Releasing')) + unbacked'
  BY <1>1, <1>2, <1>3
<1>5. IsFiniteSet(Holders)' /\ IsFiniteSet(Reserving)' /\ IsFiniteSet(Releasing)'
  OBVIOUS
<1>6. (IsFiniteSet(Holders) /\ IsFiniteSet(Reserving) /\ IsFiniteSet(Releasing) =>
        (StockAccounted <=>
             stock + (Quantity * Cardinality(Holders) + Quantity * Cardinality(Reserving)) + orphaned
               = InitialStock + (Quantity * Cardinality(Legacy) + Quantity * Cardinality(Releasing))
                   + unbacked))'
  BY Balance, PTL
<1>7. StockAccounted'
  BY <1>4, <1>5, <1>6 DEF Units
<1> QED
  BY <1>5, <1>7 DEF StockInv

\* A call counts with its units exactly at these steps.
LEMMA UnitsOfCall ==
    ASSUME Inv, StockInv, NEW c \in Calls
    PROVE  /\ IsFiniteSet(Reserving \cup {c}) /\ IsFiniteSet(Reserving \ {c})
           /\ IsFiniteSet(Releasing \cup {c}) /\ IsFiniteSet(Releasing \ {c})
           /\ IF call[c].pc \in {"insert", "undo"}
                THEN /\ Units(Reserving) = Units(Reserving \ {c}) + Quantity
                     /\ Units(Reserving \cup {c}) = Units(Reserving)
                ELSE /\ Units(Reserving) = Units(Reserving \ {c})
                     /\ Units(Reserving \cup {c}) = Units(Reserving) + Quantity
           /\ IF call[c].pc = "commit" /\ Releases(call[c].op)
                THEN Units(Releasing) = Units(Releasing \ {c}) + Quantity
                ELSE /\ Units(Releasing) = Units(Releasing \ {c})
                     /\ Units(Releasing \cup {c}) = Units(Releasing) + Quantity
<1>1. IsFiniteSet(Reserving) /\ IsFiniteSet(Releasing)
  BY DEF StockInv
<1>2. c \in Reserving <=> call[c].pc \in {"insert", "undo"}
  BY DEF Reserving
<1>3. c \in Releasing <=> call[c].pc = "commit" /\ Releases(call[c].op)
  BY DEF Releasing, At
<1>4. /\ IsFiniteSet(Reserving \cup {c}) /\ IsFiniteSet(Reserving \ {c})
      /\ Units(Reserving \cup {c}) = IF c \in Reserving THEN Units(Reserving)
                                                         ELSE Units(Reserving) + Quantity
      /\ Units(Reserving) = IF c \in Reserving THEN Units(Reserving \ {c}) + Quantity
                                               ELSE Units(Reserving \ {c})
  BY <1>1, UnitsOf
<1>5. /\ IsFiniteSet(Releasing \cup {c}) /\ IsFiniteSet(Releasing \ {c})
      /\ Units(Releasing \cup {c}) = IF c \in Releasing THEN Units(Releasing)
                                                         ELSE Units(Releasing) + Quantity
      /\ Units(Releasing) = IF c \in Releasing THEN Units(Releasing \ {c}) + Quantity
                                               ELSE Units(Releasing \ {c})
  BY <1>1, UnitsOf
<1> QED
  BY <1>2, <1>3, <1>4, <1>5

\* Every quantity in the balance is a natural number.
LEMMA BalanceTypes ==
    ASSUME Inv, StockInv
    PROVE  /\ Units(Holders) \in Nat /\ Units(Reserving) \in Nat /\ Units(Releasing) \in Nat
           /\ \A c : Units(Reserving \ {c}) \in Nat /\ Units(Releasing \ {c}) \in Nat
           /\ stock \in Nat /\ orphaned \in Nat /\ unbacked \in Nat /\ Quantity \in Nat
           /\ IsFiniteSet(Holders)
<1>1. IsFiniteSet(Reserving) /\ IsFiniteSet(Releasing) /\ IsFiniteSet(Holders)
  BY DEF StockInv
<1>2. stock \in Nat /\ orphaned \in Nat /\ unbacked \in Nat /\ Quantity \in Nat
  BY StockAssumption DEF Inv, TypeOK
<1> QED
  BY <1>1, <1>2, UnitsOf

\* A step that leaves the rows and the balance alone, and counts the call
\* neither in nor out.
LEMMA Untouched ==
    ASSUME Inv, StockInv, TypeOK', UNCHANGED <<stock, orphaned, unbacked>>,
           Holders' = Holders, Reserving' = Reserving, Releasing' = Releasing
    PROVE  StockInv'
BY Settled DEF StockInv, Inv, TypeOK

\* createOrder takes units off sale, gives them to a row, or puts them back.
LEMMA CreateStock ==
    ASSUME Inv, StockInv, TypeOK', NEW c \in Calls,
           CreateReserve(c) \/ CreateInsert(c) \/ CreateUndo(c)
    PROVE  StockInv'
<1>1. CASE CreateReserve(c)
  <2>1. Holders' = Holders /\ call[c].pc = "reserve" /\ unbacked' = unbacked
    BY <1>1 DEF CreateReserve, Holders, Holds, rowVars, At
  <2>2. CASE InStock /\ stock' = stock - Quantity /\ Goto(c, "insert") /\ orphaned' = orphaned
    <3>1. Reserving' = Reserving \cup {c} /\ Releasing' = Releasing \ {c}
      BY <2>2, MoveSets
    <3>2. /\ Units(Reserving') = Units(Reserving) + Quantity /\ Units(Releasing') = Units(Releasing)
         /\ IsFiniteSet(Reserving') /\ IsFiniteSet(Releasing')
      BY <2>1, <3>1, UnitsOfCall
    <3> QED
      BY <2>1, <2>2, <3>2, BalanceTypes, Settled
  <2>3. CASE InStock /\ stock' = stock - Quantity /\ Finish(c) /\ orphaned' = orphaned + Quantity
    <3>1. Reserving' = Reserving \ {c} /\ Releasing' = Releasing \ {c}
      BY <2>3, MoveSets
    <3>2. /\ Units(Reserving') = Units(Reserving) /\ Units(Releasing') = Units(Releasing)
         /\ IsFiniteSet(Reserving') /\ IsFiniteSet(Releasing')
      BY <2>1, <3>1, UnitsOfCall
    <3> QED
      BY <2>1, <2>3, <3>1, <3>2, BalanceTypes, Settled
  <2>4. CASE Finish(c) /\ UNCHANGED <<stock, orphaned>>
    <3>1. Reserving' = Reserving \ {c} /\ Releasing' = Releasing \ {c}
      BY <2>4, MoveSets
    <3>2. /\ Units(Reserving') = Units(Reserving) /\ Units(Releasing') = Units(Releasing)
         /\ IsFiniteSet(Reserving') /\ IsFiniteSet(Releasing')
      BY <2>1, <3>1, UnitsOfCall
    <3> QED
      BY <2>1, <2>4, <3>2, BalanceTypes, Settled
  <2> QED
    BY <1>1, <2>2, <2>3, <2>4 DEF CreateReserve
<1>2. CASE CreateInsert(c)
  <2>1. call[c].pc = "insert" /\ stock' = stock /\ orphaned' = orphaned
    BY <1>2 DEF CreateInsert, At, extVars
  <2>2. ASSUME NEW o \in Ids, ~Exists(o), orders' = [orders EXCEPT ![o] = Row("PAYING", call[c].req)],
               \/ Finish(c) /\ UNCHANGED unbacked
               \/ Goto(c, "undo") /\ unbacked' = unbacked + Quantity
        PROVE  StockInv'
    <3>1. Holders' = Holders \cup {o} /\ o \notin Holders
      BY <2>2 DEF Holders, Holds, Exists, Row, Inv, TypeOK
    <3>2. /\ IsFiniteSet(Holders \cup {o})
          /\ Units(Holders \cup {o}) = Units(Holders) + Quantity
      BY <3>1, UnitsOf DEF StockInv
    <3>3. CASE Finish(c) /\ UNCHANGED unbacked
      <4>1. Reserving' = Reserving \ {c} /\ Releasing' = Releasing \ {c}
        BY <3>3, MoveSets
      <4>2. /\ Units(Reserving) = Units(Reserving') + Quantity /\ Units(Releasing') = Units(Releasing)
            /\ Units(Reserving') \in Nat /\ IsFiniteSet(Reserving') /\ IsFiniteSet(Releasing')
        BY <2>1, <4>1, UnitsOfCall, BalanceTypes
      <4> QED
        BY <2>1, <3>1, <3>2, <3>3, <4>2, BalanceTypes, Settled
    <3>4. CASE Goto(c, "undo") /\ unbacked' = unbacked + Quantity
      <4>1. Reserving' = Reserving \cup {c} /\ Releasing' = Releasing \ {c}
        BY <3>4, MoveSets
      <4>2. /\ Units(Reserving') = Units(Reserving) /\ Units(Releasing') = Units(Releasing)
           /\ IsFiniteSet(Reserving') /\ IsFiniteSet(Releasing')
        BY <2>1, <4>1, UnitsOfCall
      <4> QED
        BY <2>1, <3>1, <3>2, <3>4, <4>2, BalanceTypes, Settled
    <3> QED
      BY <2>2, <3>3, <3>4
  <2>3. CASE Goto(c, "undo") /\ UNCHANGED <<orders, unbacked>>
    <3>1. Reserving' = Reserving \cup {c} /\ Releasing' = Releasing \ {c} /\ Holders' = Holders
      BY <2>3, MoveSets DEF Holders, Holds
    <3>2. /\ Units(Reserving') = Units(Reserving) /\ Units(Releasing') = Units(Releasing)
         /\ IsFiniteSet(Reserving') /\ IsFiniteSet(Releasing')
      BY <2>1, <3>1, UnitsOfCall
    <3> QED
      BY <2>1, <2>3, <3>1, <3>2, BalanceTypes, Settled
  <2> QED
    BY <1>2, <2>2, <2>3 DEF CreateInsert
<1>3. CASE CreateUndo(c)
  <2>1. /\ Holders' = Holders /\ call[c].pc = "undo" /\ unbacked' = unbacked
        /\ \/ stock' = stock + Quantity /\ orphaned' = orphaned
           \/ stock' = stock /\ orphaned' = orphaned + Quantity
    BY <1>3 DEF CreateUndo, Holders, Holds, rowVars, At
  <2>2. Reserving' = Reserving \ {c} /\ Releasing' = Releasing \ {c}
    BY <1>3, MoveSets DEF CreateUndo
  <2>3. /\ Units(Reserving) = Units(Reserving') + Quantity /\ Units(Releasing') = Units(Releasing)
        /\ Units(Reserving') \in Nat /\ IsFiniteSet(Reserving') /\ IsFiniteSet(Releasing')
    BY <2>1, <2>2, UnitsOfCall, BalanceTypes
  <2> QED
    BY <2>1, <2>3, BalanceTypes, Settled
<1> QED
  BY <1>1, <1>2, <1>3

\* A handler that starts, or moves between steps that hold no units, or ends
\* at one.
LEMMA QuietStock ==
    ASSUME Inv, StockInv, TypeOK', NEW c \in Calls,
           UNCHANGED <<orders, stock, orphaned, unbacked>>,
           call[c].pc \notin {"insert", "undo", "commit"},
           Reserving' = Reserving \ {c}, Releasing' = Releasing \ {c}
    PROVE  StockInv'
<1>1. Reserving' = Reserving /\ Releasing' = Releasing
  BY DEF Reserving, Releasing, At
<1>2. Holders' = Holders
  BY DEF Holders, Holds
<1> QED
  BY <1>1, <1>2, Untouched

\* cancelOrder and reject put the units back on sale before they commit.
LEMMA ReleaseStock ==
    ASSUME Inv, StockInv, TypeOK', NEW c \in Calls, Release(c)
    PROVE  StockInv'
<1>1. /\ call[c].pc = "release" /\ Releases(call[c].op)
      /\ Holders' = Holders /\ orphaned' = orphaned
  BY DEF Release, At, Inv, TxOK, TxOf, TxSteps, Holders, Holds, rowVars
<1>2. CASE stock' = stock + Quantity /\ Goto(c, "commit") /\ unbacked' = unbacked
  <2>1. Reserving' = Reserving \ {c} /\ Releasing' = Releasing \cup {c}
    BY <1>1, <1>2, MoveSets
  <2>2. /\ Units(Reserving') = Units(Reserving) /\ Units(Releasing') = Units(Releasing) + Quantity
        /\ IsFiniteSet(Reserving') /\ IsFiniteSet(Releasing')
    BY <1>1, <2>1, UnitsOfCall
  <2> QED
    BY <1>1, <1>2, <2>2, BalanceTypes, Settled
<1>3. CASE /\ Finish(c)
           /\ \/ stock' = stock + Quantity /\ unbacked' = unbacked + Quantity
              \/ UNCHANGED <<stock, unbacked>>
  <2>1. Reserving' = Reserving \ {c} /\ Releasing' = Releasing \ {c}
    BY <1>3, MoveSets
  <2>2. /\ Units(Reserving') = Units(Reserving) /\ Units(Releasing') = Units(Releasing)
        /\ IsFiniteSet(Reserving') /\ IsFiniteSet(Releasing')
    BY <1>1, <2>1, UnitsOfCall
  <2> QED
    BY <1>1, <1>3, <2>2, BalanceTypes, Settled
<1> QED
  BY <1>2, <1>3 DEF Release

\* A commit of cancelOrder or reject ends the hold of its order, and no other
\* commit changes who holds units.
LEMMA CommitStock ==
    ASSUME Inv, StockInv, TypeOK', NEW c \in Calls, Commit(c)
    PROVE  StockInv'
<1>1. /\ call[c].pc = "commit" /\ UNCHANGED <<stock, orphaned, unbacked>>
      /\ Reserving' = Reserving \ {c} /\ Releasing' = Releasing \ {c}
  BY MoveSets DEF Commit, At, extVars, histVars
<1>2. PICK o \in Ids, op \in TxOps :
        /\ op = call[c].op
        /\ orders[o].status \in Allowed(op)
        /\ Write(o, Result(op), orders[o].paid \/ op = "pay")
  BY CommitAllowed
<1>3. /\ orders'[o].status = Result(op)
      /\ \A p \in Ids : p # o => orders'[p] = orders[p]
  BY <1>2 DEF Write, Inv, TypeOK
<1>4. o \in Holders
  BY <1>2 DEF Holders, Holds, Allowed, TxOps, PendingApproval
<1>5. Holders' = IF Releases(op) THEN Holders \ {o} ELSE Holders
  <2>1. Holds(o)' <=> ~Releases(op)
    BY <1>3 DEF Holds, Result, Releases, TxOps
  <2>2. \A p \in Ids : p # o => (Holds(p)' <=> Holds(p))
    BY <1>3 DEF Holds
  <2>3. \A p : p \in Holders' <=> p \in Ids /\ Holds(p)'
    BY DEF Holders
  <2>4. \A p : p \in Holders <=> p \in Ids /\ Holds(p)
    BY DEF Holders
  <2>5. CASE Releases(op)
    BY <2>1, <2>2, <2>3, <2>4, <2>5
  <2>6. CASE ~Releases(op)
    BY <1>4, <2>1, <2>2, <2>3, <2>4, <2>6
  <2> QED
    BY <2>5, <2>6
<1>6. /\ IsFiniteSet(Holders \ {o}) /\ Units(Holders \ {o}) \in Nat
      /\ Units(Holders) = Units(Holders \ {o}) + Quantity
  BY <1>4, UnitsOf DEF StockInv
<1>7. /\ IsFiniteSet(Holders')
      /\ IF Releases(op) THEN Units(Holders') \in Nat /\ Units(Holders) = Units(Holders') + Quantity
                         ELSE Units(Holders') = Units(Holders)
  BY <1>5, <1>6, BalanceTypes
<1>8. /\ Units(Reserving') = Units(Reserving)
      /\ Units(Releasing') \in Nat
      /\ IF Releases(op) THEN Units(Releasing) = Units(Releasing') + Quantity
                         ELSE Units(Releasing') = Units(Releasing)
      /\ IsFiniteSet(Reserving') /\ IsFiniteSet(Releasing')
  BY <1>1, <1>2, UnitsOfCall, BalanceTypes
<1> QED
  BY <1>1, <1>7, <1>8, BalanceTypes, Settled

\* A rollback after the release leaves units on sale that the order still has,
\* and a crash of createOrder leaves units nobody has.
LEMMA RollbackStock ==
    ASSUME Inv, StockInv, TypeOK', NEW c \in Calls, Conflict(c) \/ Crash(c)
    PROVE  StockInv'
<1>1. /\ Holders' = Holders /\ stock' = stock
      /\ Reserving' = Reserving \ {c} /\ Releasing' = Releasing \ {c}
  BY MoveSets DEF Conflict, Crash, rowVars, extVars, Holders, Holds
<1>2. /\ orphaned' = IF call[c].pc \in {"insert", "undo"} THEN orphaned + Quantity ELSE orphaned
      /\ unbacked' = IF call[c].pc = "commit" /\ Releases(call[c].op) THEN unbacked + Quantity
                                                                     ELSE unbacked
  BY DEF Conflict, Crash, At
<1>3. /\ IsFiniteSet(Reserving') /\ IsFiniteSet(Releasing')
      /\ Units(Reserving') \in Nat /\ Units(Releasing') \in Nat
      /\ Units(Reserving) + orphaned = Units(Reserving') + orphaned'
      /\ Units(Releasing) + unbacked = Units(Releasing') + unbacked'
  <2>0. /\ Units(Reserving') \in Nat /\ Units(Releasing') \in Nat
        /\ orphaned \in Nat /\ unbacked \in Nat /\ Quantity \in Nat
    BY <1>1, BalanceTypes
  <2>1. Units(Reserving) + orphaned = Units(Reserving') + orphaned'
    <3>1. Units(Reserving) = IF call[c].pc \in {"insert", "undo"} THEN Units(Reserving') + Quantity
                                                                 ELSE Units(Reserving')
      BY <1>1, UnitsOfCall
    <3> QED
      BY <1>2, <2>0, <3>1
  <2>2. Units(Releasing) + unbacked = Units(Releasing') + unbacked'
    <3>1. Units(Releasing) = IF call[c].pc = "commit" /\ Releases(call[c].op)
                             THEN Units(Releasing') + Quantity ELSE Units(Releasing')
      BY <1>1, UnitsOfCall
    <3> QED
      BY <1>2, <2>0, <3>1
  <2> QED
    BY <1>1, <2>1, <2>2, UnitsOfCall, BalanceTypes
<1>4. orphaned' \in Nat /\ unbacked' \in Nat
  BY DEF TypeOK
<1> QED
  BY <1>1, <1>3, <1>4, BalanceTypes, Settled

\* The scheduler completes an order that keeps its units.
LEMMA SchedulerStock ==
    ASSUME Inv, StockInv, TypeOK', NEW s \in Schedulers, MarkSave(s)
    PROVE  StockInv'
<1>1. UNCHANGED <<stock, orphaned, unbacked>> /\ Reserving' = Reserving /\ Releasing' = Releasing
  BY DEF MarkSave, extVars, histVars, Reserving, Releasing, At
<1>2. \A p \in Ids : Holds(p)' <=> Holds(p)
  <2>1. CASE orders' = orders
    BY <2>1 DEF Holds
  <2>2. CASE orders' # orders
    <3>1. PICK o \in Ids : orders[o].status = "SHIPPING" /\ Write(o, "COMPLETED", orders[o].paid)
      BY <2>2, MarkSaveAllowed
    <3> QED
      BY <3>1 DEF Write, Holds, Inv, TypeOK
  <2> QED
    BY <2>1, <2>2
<1>3. Holders' = Holders
  BY <1>2 DEF Holders
<1> QED
  BY <1>1, <1>3, Untouched

LEMMA NextStock == Inv /\ StockInv /\ [Next]_vars => StockInv'
<1> SUFFICES ASSUME Inv, StockInv, [Next]_vars PROVE StockInv'
  OBVIOUS
<1>0. TypeOK'
  BY NextType
<1>1. ASSUME NEW c \in Calls, NEW r \in Requests, CreateStart(c, r) PROVE StockInv'
  <2>1. /\ call[c].pc = "idle" /\ UNCHANGED <<orders, stock, orphaned, unbacked>>
        /\ Reserving' = Reserving \ {c} /\ Releasing' = Releasing \ {c}
    BY <1>1, MoveSets DEF CreateStart, At, rowVars, extVars, histVars
  <2> QED
    BY <1>0, <2>1, QuietStock
<1>2. ASSUME NEW c \in Calls, NEW op \in TxOps, NEW o \in Ids, TxStart(c, op, o) PROVE StockInv'
  <2>1. /\ FirstStep(op) \notin {"insert", "undo"}
        /\ ~(FirstStep(op) = "commit" /\ Releases(op))
    BY DEF FirstStep, TxOps, Releases
  <2>2. /\ call[c].pc = "idle" /\ UNCHANGED <<orders, stock, orphaned, unbacked>>
        /\ Reserving' = Reserving \ {c} /\ Releasing' = Releasing \ {c}
    BY <1>2, <2>1, MoveSets DEF TxStart, At, rowVars, extVars, histVars
  <2> QED
    BY <1>0, <2>2, QuietStock
<1>3. ASSUME NEW c \in Calls, ClaimCoupon(c) \/ Charge(c) \/ SubmitIssue(c) \/ Refund(c)
      PROVE  StockInv'
  <2>1. /\ call[c].pc \in {"claim", "charge", "submit", "refund"}
        /\ UNCHANGED <<orders, stock, orphaned, unbacked>>
    BY <1>3 DEF ClaimCoupon, Charge, SubmitIssue, Refund, At, rowVars, histVars
  <2>2. Finish(c) \/ Goto(c, "charge") \/ Goto(c, "submit") \/ Goto(c, "release")
          \/ (Goto(c, "commit") /\ call[c].pc = "submit")
    BY <1>3 DEF ClaimCoupon, Charge, SubmitIssue, Refund, At
  <2>3. call[c].pc = "submit" => ~Releases(call[c].op)
    BY DEF Inv, TxOK, TxOf, TxSteps, PaySteps, Releases
  <2>4. Reserving' = Reserving \ {c} /\ Releasing' = Releasing \ {c}
    BY <2>2, <2>3, MoveSets
  <2> QED
    BY <1>0, <2>1, <2>4, QuietStock
<1>4. ASSUME UNCHANGED <<orders, call, stock, orphaned, unbacked>> PROVE StockInv'
  <2>1. Holders' = Holders /\ Reserving' = Reserving /\ Releasing' = Releasing
    BY <1>4 DEF Holders, Holds, Reserving, Releasing, At
  <2> QED
    BY <1>0, <1>4, <2>1, Untouched
<1> QED
  BY <1>0, <1>1, <1>2, <1>3, <1>4, CreateStock, ReleaseStock, CommitStock, RollbackStock, SchedulerStock
  DEF Next, Step, vars, rowVars, extVars, histVars, DeliveryTimeReached, Scan, MarkRead,
      SchedulerCrash

\* No unit of stock is lost or made up: at every step of any number of
\* concurrent createOrder, cancelOrder and reject calls, through conflicts,
\* lost answers and crashes, the units on sale, held, in transit and orphaned
\* add up.
THEOREM StockCorrect == Spec => []StockAccounted
<1>1. Init => StockInv
  <2> SUFFICES ASSUME Init PROVE StockInv
    OBVIOUS
  <2>1. Holders = Legacy /\ Reserving = {} /\ Releasing = {}
    BY LegacyAssumption DEF Init, Holders, Holds, Reserving, Releasing, At, Idle, NoRow, Row
  <2>2. /\ IsFiniteSet(Holders) /\ IsFiniteSet(Reserving) /\ IsFiniteSet(Releasing)
        /\ Cardinality(Reserving) = 0 /\ Cardinality(Releasing) = 0 /\ Cardinality(Legacy) \in Nat
    BY <2>1, LegacyAssumption, FS_EmptySet, FS_CardinalityType
  <2>3. Quantity * 0 = 0 /\ Quantity * Cardinality(Legacy) \in Nat
    BY <2>2, UnitsFacts
  <2>4. StockAccounted
    BY <2>1, <2>2, <2>3, Balance, StockAssumption DEF Init
  <2> QED
    BY <2>2, <2>4 DEF StockInv
<1>2. StockInv => StockAccounted
  BY DEF StockInv
<1> QED
  BY <1>1, <1>2, NextStock, Invariance, PTL DEF Spec

----------------------------------------------------------------------------
(* The coupon flow *)

\* payOrder calls between their claim and their charge, and between their
\* charge and their coupon-issue job.
Charging(o) == {c \in Calls : At(c, "charge") /\ call[c].oid = o}
Submitting(o) == {c \in Calls : At(c, "submit") /\ call[c].oid = o}

\* Each counter is ahead of the next by at least the calls in between: one
\* claim is not spent twice by two calls that pay the same order.
CouponOf(o) ==
    /\ IsFiniteSet(Charging(o)) /\ IsFiniteSet(Submitting(o))
    /\ payments[o] + Cardinality(Charging(o)) <= claims[o]
    /\ issues[o] + Cardinality(Submitting(o)) <= payments[o]

CouponInv == CouponEnabled /\ PaymentEnabled => \A o \in Ids : CouponOf(o)

\* One call moves and the others stay.
LEMMA Moves ==
    ASSUME Inv, NEW c \in Calls
    PROVE  /\ Finish(c) => /\ call'[c].pc = "done"
                           /\ \A d \in Calls : d # c => call'[d] = call[d]
           /\ \A step : Goto(c, step) =>
                 /\ call'[c].pc = step /\ call'[c].op = call[c].op /\ call'[c].oid = call[c].oid
                 /\ \A d \in Calls : d # c => call'[d] = call[d]
           /\ \A step, op, r, o, v : Enter(c, step, op, r, o, v) =>
                 /\ call'[c].pc = step /\ call'[c].op = op
                 /\ \A d \in Calls : d # c => call'[d] = call[d]
<1>0. call \in [Calls -> CallStates]
  BY DEF Inv, TypeOK
<1>1. ASSUME Finish(c)
      PROVE  call'[c].pc = "done" /\ \A d \in Calls : d # c => call'[d] = call[d]
  BY <1>0, <1>1, CallTypes DEF Finish
<1>2. ASSUME NEW step, Goto(c, step)
      PROVE  /\ call'[c].pc = step /\ call'[c].op = call[c].op /\ call'[c].oid = call[c].oid
             /\ \A d \in Calls : d # c => call'[d] = call[d]
  BY <1>0, <1>2 DEF Goto, CallStates
<1>3. ASSUME NEW step, NEW op, NEW r, NEW o, NEW v, Enter(c, step, op, r, o, v)
      PROVE  /\ call'[c].pc = step /\ call'[c].op = op
             /\ \A d \in Calls : d # c => call'[d] = call[d]
  BY <1>0, <1>3 DEF Enter
<1> QED
  BY <1>1, <1>2, <1>3

LEMMA CouponTypes ==
    ASSUME TypeOK, NEW o \in Ids
    PROVE  claims[o] \in Nat /\ payments[o] \in Nat /\ issues[o] \in Nat
BY DEF TypeOK

\* A step that takes no call to its charge or its job.
LEMMA QuietCoupon ==
    ASSUME Inv, CouponInv, [Next]_vars, UNCHANGED <<payments, issues>>,
           \A o \in Ids : claims[o] <= claims'[o],
           \A d \in Calls : call'[d] = call[d] \/ call'[d].pc \notin {"charge", "submit"}
    PROVE  CouponInv'
<1> SUFFICES ASSUME CouponEnabled, PaymentEnabled
             PROVE  \A o \in Ids : CouponOf(o)'
  BY DEF CouponInv
<1>0. TypeOK /\ TypeOK'
  BY NextType DEF Inv
<1>1. ASSUME NEW o \in Ids PROVE CouponOf(o)'
  <2>1. CouponOf(o)
    BY DEF CouponInv
  <2>2. Charging(o)' \subseteq Charging(o) /\ Submitting(o)' \subseteq Submitting(o)
    BY DEF Charging, Submitting, At
  <2>3. /\ IsFiniteSet(Charging(o)') /\ Cardinality(Charging(o)') <= Cardinality(Charging(o))
        /\ Cardinality(Charging(o)) \in Nat /\ Cardinality(Charging(o)') \in Nat
    BY <2>1, <2>2, FS_Subset, FS_CardinalityType DEF CouponOf
  <2>4. /\ IsFiniteSet(Submitting(o)') /\ Cardinality(Submitting(o)') <= Cardinality(Submitting(o))
        /\ Cardinality(Submitting(o)) \in Nat /\ Cardinality(Submitting(o)') \in Nat
    BY <2>1, <2>2, FS_Subset, FS_CardinalityType DEF CouponOf
  <2>5. /\ claims[o] \in Nat /\ payments[o] \in Nat /\ issues[o] \in Nat /\ claims'[o] \in Nat
    BY <1>0 DEF TypeOK
  <2> QED
    BY <2>1, <2>3, <2>4, <2>5 DEF CouponOf
<1> QED
  BY <1>1

\* A claim is made before its call goes on to the charge.
LEMMA ClaimFlow ==
    ASSUME Inv, CouponInv, [Next]_vars, NEW c \in Calls, ClaimCoupon(c)
    PROVE  CouponInv'
<1>0. TypeOK /\ TypeOK' /\ call[c].pc = "claim" /\ UNCHANGED <<payments, issues>>
  BY NextType DEF Inv, ClaimCoupon, At
<1>1. PICK p \in Ids : p = call[c].oid
  BY <1>0 DEF Inv, TxOK, TxOf, TxSteps, PaySteps
<1>2. CASE Finish(c)
  <2>1. \A o \in Ids : claims[o] <= claims'[o]
    <3>1. claims' = claims \/ claims' = [claims EXCEPT ![p] = @ + 1]
      BY <1>1 DEF ClaimCoupon
    <3>2. claims \in [Ids -> Nat]
      BY <1>0 DEF TypeOK
    <3>3. ASSUME claims' = [claims EXCEPT ![p] = @ + 1], NEW o \in Ids PROVE claims[o] <= claims'[o]
      BY <3>2, <3>3
    <3>4. \A o \in Ids : claims[o] <= claims[o]
      BY <3>2
    <3> QED
      BY <3>1, <3>3, <3>4
  <2>2. call'[c].pc = "done" /\ \A d \in Calls : d # c => call'[d] = call[d]
    BY <1>2, Moves
  <2>3. \A d \in Calls : call'[d] = call[d] \/ call'[d].pc = "done"
    BY <2>2
  <2> QED
    BY <1>0, <2>1, <2>3, QuietCoupon
<1>3. ASSUME Goto(c, "charge"), CouponEnabled, PaymentEnabled PROVE CouponInv'
  <2>1. claims' = [claims EXCEPT ![p] = @ + 1]
    <3>1. ~Finish(c)
      BY <1>3, Moves
    <3> QED
      BY <1>1, <1>3, <3>1 DEF ClaimCoupon
  <2>2. /\ call'[c].pc = "charge" /\ call'[c].oid = p
        /\ \A d \in Calls : d # c => call'[d] = call[d]
    BY <1>1, <1>3, Moves
  <2>3. ASSUME NEW o \in Ids PROVE CouponOf(o)'
    <3>1. CouponOf(o)
      BY <1>3 DEF CouponInv
    <3>2. Submitting(o)' = Submitting(o)
      BY <1>0, <2>2 DEF Submitting, At
    <3>3. Charging(o)' = IF o = p THEN Charging(o) \cup {c} ELSE Charging(o)
      BY <1>0, <2>2 DEF Charging, At
    <3>4. /\ IsFiniteSet(Charging(o)') /\ Cardinality(Charging(o)) \in Nat
          /\ Cardinality(Charging(o)') \in Nat
          /\ Cardinality(Charging(o)') <= IF o = p THEN Cardinality(Charging(o)) + 1
                                                 ELSE Cardinality(Charging(o))
      <4>1. IsFiniteSet(Charging(o))
        BY <3>1 DEF CouponOf
      <4>2. /\ Cardinality(Charging(o)) \in Nat /\ IsFiniteSet(Charging(o) \cup {c})
            /\ Cardinality(Charging(o) \cup {c}) = IF c \in Charging(o) THEN Cardinality(Charging(o))
                                                   ELSE Cardinality(Charging(o)) + 1
        BY <4>1, CountFacts
      <4> QED
        BY <3>3, <4>1, <4>2
    <3>5. /\ claims[o] \in Nat /\ payments[o] \in Nat
          /\ claims'[o] = IF o = p THEN claims[o] + 1 ELSE claims[o]
      BY <1>0, <2>1 DEF TypeOK
    <3> QED
      BY <1>0, <3>1, <3>2, <3>4, <3>5 DEF CouponOf
  <2> QED
    BY <2>3 DEF CouponInv
<1> QED
  BY <1>2, <1>3 DEF ClaimCoupon, CouponInv

\* A charge uses up the place its own claim made.
LEMMA ChargeFlow ==
    ASSUME Inv, CouponInv, [Next]_vars, NEW c \in Calls, Charge(c)
    PROVE  CouponInv'
<1>0. TypeOK /\ TypeOK' /\ call[c].pc = "charge" /\ UNCHANGED <<claims, issues>>
  BY NextType DEF Inv, Charge, At
<1>1. PICK p \in Ids : p = call[c].oid
  BY <1>0 DEF Inv, TxOK, TxOf, TxSteps, PaySteps
<1>2. CASE Finish(c) /\ UNCHANGED payments
  <2>1. \A o \in Ids : claims[o] <= claims'[o]
    BY <1>0 DEF TypeOK
  <2>2. call'[c].pc = "done" /\ \A d \in Calls : d # c => call'[d] = call[d]
    BY <1>2, Moves
  <2>3. \A d \in Calls : call'[d] = call[d] \/ call'[d].pc = "done"
    BY <2>2
  <2> QED
    BY <1>0, <1>2, <2>1, <2>3, QuietCoupon
<1>3. ASSUME Goto(c, "submit"), payments' = [payments EXCEPT ![p] = @ + 1],
             CouponEnabled, PaymentEnabled
      PROVE  CouponInv'
  <2>2. /\ call'[c].pc = "submit" /\ call'[c].oid = p
        /\ \A d \in Calls : d # c => call'[d] = call[d]
    BY <1>1, <1>3, Moves
  <2>3. ASSUME NEW o \in Ids PROVE CouponOf(o)'
    <3>1. CouponOf(o)
      BY <1>3 DEF CouponInv
    <3>2. /\ claims[o] \in Nat /\ payments[o] \in Nat /\ issues[o] \in Nat
          /\ payments'[o] = IF o = p THEN payments[o] + 1 ELSE payments[o]
      BY <1>0, <1>3 DEF TypeOK
    <3>3. CASE o = p
      <4>1. Charging(o)' = Charging(o) \ {c} /\ c \in Charging(o)
        BY <1>0, <1>1, <2>2, <3>3 DEF Charging, At
      <4>2. Submitting(o)' = Submitting(o) \cup {c} /\ c \notin Submitting(o)
        BY <1>0, <2>2, <3>3 DEF Submitting, At
      <4>3. /\ IsFiniteSet(Charging(o)') /\ Cardinality(Charging(o)') \in Nat
            /\ Cardinality(Charging(o)) = Cardinality(Charging(o)') + 1
        BY <3>1, <4>1, CountFacts DEF CouponOf
      <4>4. /\ IsFiniteSet(Submitting(o)') /\ Cardinality(Submitting(o)) \in Nat
            /\ Cardinality(Submitting(o)') = Cardinality(Submitting(o)) + 1
        BY <3>1, <4>2, CountFacts DEF CouponOf
      <4> QED
        BY <1>0, <3>1, <3>2, <3>3, <4>3, <4>4 DEF CouponOf
    <3>4. CASE o # p
      <4>1. Charging(o)' = Charging(o) /\ Submitting(o)' = Submitting(o)
        BY <1>0, <1>1, <2>2, <3>4 DEF Charging, Submitting, At
      <4> QED
        BY <1>0, <3>1, <3>2, <3>4, <4>1 DEF CouponOf
    <3> QED
      BY <3>3, <3>4
  <2> QED
    BY <2>3 DEF CouponInv
<1> QED
  BY <1>1, <1>2, <1>3 DEF Charge, CouponInv

\* A job uses up the place its own charge made.
LEMMA SubmitFlow ==
    ASSUME Inv, CouponInv, [Next]_vars, NEW c \in Calls, SubmitIssue(c)
    PROVE  CouponInv'
<1>0. TypeOK /\ TypeOK' /\ call[c].pc = "submit" /\ UNCHANGED <<claims, payments>>
  BY NextType DEF Inv, SubmitIssue, At
<1>1. PICK p \in Ids : p = call[c].oid
  BY <1>0 DEF Inv, TxOK, TxOf, TxSteps, PaySteps
<1>2. CASE Finish(c) /\ UNCHANGED issues
  <2>1. \A o \in Ids : claims[o] <= claims'[o]
    BY <1>0 DEF TypeOK
  <2>2. call'[c].pc = "done" /\ \A d \in Calls : d # c => call'[d] = call[d]
    BY <1>2, Moves
  <2>3. \A d \in Calls : call'[d] = call[d] \/ call'[d].pc = "done"
    BY <2>2
  <2> QED
    BY <1>0, <1>2, <2>1, <2>3, QuietCoupon
<1>3. ASSUME Goto(c, "commit"), issues' = [issues EXCEPT ![p] = @ + 1],
             CouponEnabled, PaymentEnabled
      PROVE  CouponInv'
  <2>2. /\ call'[c].pc = "commit" /\ call'[c].oid = p
        /\ \A d \in Calls : d # c => call'[d] = call[d]
    BY <1>1, <1>3, Moves
  <2>3. \A o \in Ids : /\ claims[o] \in Nat /\ payments[o] \in Nat /\ issues[o] \in Nat
                       /\ issues'[o] = IF o = p THEN issues[o] + 1 ELSE issues[o]
    BY <1>0, <1>3 DEF TypeOK
  <2>4. ASSUME NEW o \in Ids PROVE CouponOf(o)'
    <3>1. CouponOf(o)
      BY <1>3 DEF CouponInv
    <3>2. Charging(o)' = Charging(o)
      BY <1>0, <2>2 DEF Charging, At
    <3>3. CASE o = p
      <4>1. Submitting(o)' = Submitting(o) \ {c} /\ c \in Submitting(o)
        BY <1>0, <1>1, <2>2, <3>3 DEF Submitting, At
      <4>2. /\ IsFiniteSet(Submitting(o)') /\ Cardinality(Submitting(o)') \in Nat
            /\ Cardinality(Submitting(o)) = Cardinality(Submitting(o)') + 1
        BY <3>1, <4>1, CountFacts DEF CouponOf
      <4> QED
        BY <1>0, <2>3, <3>1, <3>2, <3>3, <4>2 DEF CouponOf
    <3>4. CASE o # p
      <4>1. Submitting(o)' = Submitting(o)
        BY <1>0, <1>1, <2>2, <3>4 DEF Submitting, At
      <4> QED
        BY <1>0, <2>3, <3>1, <3>2, <3>4, <4>1 DEF CouponOf
    <3> QED
      BY <3>3, <3>4
  <2> QED
    BY <2>4 DEF CouponInv
<1> QED
  BY <1>1, <1>2, <1>3 DEF SubmitIssue, CouponInv

LEMMA NextCoupon == Inv /\ CouponInv /\ [Next]_vars => CouponInv'
<1> SUFFICES ASSUME Inv, CouponInv, [Next]_vars PROVE CouponInv'
  OBVIOUS
<1> DEFINE Quiet(d) == call'[d] = call[d] \/ call'[d].pc \notin {"charge", "submit"}
<1>1. ASSUME UNCHANGED <<claims, payments, issues>>, \A d \in Calls : Quiet(d) PROVE CouponInv'
  <2>1. \A o \in Ids : claims[o] <= claims'[o]
    BY <1>1 DEF Inv, TypeOK
  <2> QED
    BY <1>1, <2>1, QuietCoupon
<1>2. ASSUME NEW c \in Calls, Finish(c) PROVE \A d \in Calls : Quiet(d)
  BY <1>2, Moves
<1>3. ASSUME NEW c \in Calls, NEW step \in {"insert", "undo", "release", "commit"}, Goto(c, step)
      PROVE  \A d \in Calls : Quiet(d)
  BY <1>3, Moves
<1>4. ASSUME NEW c \in Calls, NEW r \in Requests, CreateStart(c, r) PROVE CouponInv'
  <2>1. Finish(c) \/ Enter(c, "reserve", "create", r, NoOrder, 0)
    BY <1>4 DEF CreateStart
  <2>2. \A d \in Calls : Quiet(d)
    BY <1>2, <2>1, Moves
  <2> QED
    BY <1>1, <1>4, <2>2 DEF CreateStart, extVars
<1>5. ASSUME NEW c \in Calls, NEW op \in TxOps, NEW o \in Ids, TxStart(c, op, o) PROVE CouponInv'
  <2>1. Finish(c) \/ Enter(c, FirstStep(op), op, NoRequest, o, orders[o].version)
    BY <1>5 DEF TxStart
  <2>2. FirstStep(op) \notin {"charge", "submit"}
    BY DEF FirstStep, TxOps
  <2>3. \A d \in Calls : Quiet(d)
    BY <1>2, <2>1, <2>2, Moves
  <2> QED
    BY <1>1, <1>5, <2>3 DEF TxStart, extVars
<1>6. ASSUME NEW c \in Calls,
             CreateReserve(c) \/ CreateInsert(c) \/ CreateUndo(c) \/ Refund(c) \/ Commit(c)
                \/ Conflict(c) \/ Crash(c)
      PROVE  CouponInv'
  <2>1. Finish(c) \/ \E step \in {"insert", "undo", "release"} : Goto(c, step)
    BY <1>6 DEF CreateReserve, CreateInsert, CreateUndo, Refund, Commit, Conflict, Crash
  <2>2. \A d \in Calls : Quiet(d)
    BY <1>2, <1>3, <2>1
  <2>3. UNCHANGED <<claims, payments, issues>>
    BY <1>6 DEF CreateReserve, CreateInsert, CreateUndo, Refund, Commit, Conflict, Crash, extVars
  <2> QED
    BY <1>1, <2>2, <2>3
<1>7. ASSUME NEW c \in Calls, Release(c) PROVE CouponInv'
  <2>1. Finish(c) \/ Goto(c, "commit")
    BY <1>7 DEF Release
  <2>3. \A d \in Calls : Quiet(d)
    BY <1>2, <1>3, <2>1
  <2> QED
    BY <1>1, <1>7, <2>3 DEF Release
<1>8. CASE UNCHANGED <<call, claims, payments, issues>>
  BY <1>1, <1>8
<1> QED
  BY <1>4, <1>5, <1>6, <1>7, <1>8, ClaimFlow, ChargeFlow, SubmitFlow
  DEF Next, Step, vars, extVars, DeliveryTimeReached, Scan, MarkRead, MarkSave, SchedulerCrash

\* Every charge has a claim of its own before it and every coupon-issue job a
\* charge of its own, however many payOrder calls for the same order interleave,
\* fail, conflict or crash.
THEOREM CouponFlowCorrect == Spec => []CouponFlowOrdered
<1>1. Init => CouponInv
  <2> SUFFICES ASSUME Init PROVE \A o \in Ids : CouponOf(o)
    BY DEF CouponInv
  <2>1. ASSUME NEW o \in Ids PROVE CouponOf(o)
    <3>1. Charging(o) = {} /\ Submitting(o) = {}
      BY DEF Init, Charging, Submitting, At, Idle
    <3>2. IsFiniteSet({}) /\ Cardinality({}) = 0
      BY FS_EmptySet
    <3> QED
      BY <3>1, <3>2 DEF Init, CouponOf, NoRow, Row
  <2> QED
    BY <2>1
<1>2. Inv /\ CouponInv => CouponFlowOrdered
  <2> SUFFICES ASSUME Inv, CouponInv, CouponEnabled, PaymentEnabled, NEW o \in Ids
               PROVE  issues[o] <= payments[o] /\ payments[o] <= claims[o]
    BY DEF CouponFlowOrdered
  <2>1. CouponOf(o)
    BY DEF CouponInv
  <2>2. Cardinality(Charging(o)) \in Nat /\ Cardinality(Submitting(o)) \in Nat
    BY <2>1, FS_CardinalityType DEF CouponOf
  <2> QED
    BY <2>1, <2>2, CouponTypes DEF CouponOf, Inv
<1> QED
  BY <1>1, <1>2, NextCoupon, Invariance, PTL DEF Spec

=============================================================================
