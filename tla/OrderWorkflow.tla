--------------------------- MODULE OrderWorkflow ---------------------------
(***************************************************************************)
(* order-service: the life of an order, as the API handlers and the        *)
(* auto-complete scheduler really execute it.                              *)
(*                                                                         *)
(* A call of the API is a process that runs once: idle, a few steps, done. *)
(* createOrder runs without a surrounding transaction. payOrder,           *)
(* cancelOrder, approve and reject are one database transaction each: the  *)
(* row is read at the start, remote systems are called in between, and the *)
(* UPDATE ... WHERE version = ? is flushed together with the outbox INSERT *)
(* at the commit. Calls run on any replica, so nothing but the database    *)
(* orders them (the per-JVM payment lock has its own module,               *)
(* InFlightLock).                                                          *)
(*                                                                         *)
(* All orders are for one product and for the same quantity: product rows  *)
(* are independent, and a quantity only scales the stock.                  *)
(***************************************************************************)
EXTENDS Naturals, Sequences, FiniteSets

CONSTANTS
    Calls,         \* API invocations; each runs at most once
    Ids,           \* primary keys an order row may get
    Requests,      \* (user_id, request_no) pairs: the idempotency keys
    Legacy,        \* rows of the older schema present at the start, status 0
    NoOrder,       \* no order id
    NoRequest,     \* no idempotency key (request_no is NULL in old rows)
    InitialStock,  \* units on sale at the start
    Quantity,      \* units per order
    Schedulers,    \* replicas running the auto-complete scheduler
    BatchSize,     \* app.workflow.order-auto-complete-batch-size
    CouponEnabled, \* app.coupon-platform.enabled
    PaymentEnabled,\* app.payment-platform.enabled
    Faults         \* which of FaultKinds happen

\* "crash": a process dies or loses its database connection in mid-call;
\* "lost": a remote call takes effect and its answer is lost;
\* "overload": the guard, the executor or the remote service refuses a call.
FaultKinds == {"crash", "lost", "overload"}

ASSUME LegacyAssumption == Legacy \subseteq Ids /\ IsFiniteSet(Legacy)
ASSUME NoneAssumption == NoOrder \notin Ids /\ NoRequest \notin Requests
ASSUME StockAssumption == InitialStock \in Nat /\ Quantity \in Nat \ {0}
ASSUME BatchAssumption == BatchSize \in Nat \ {0}
ASSUME SwitchAssumption == CouponEnabled \in BOOLEAN /\ PaymentEnabled \in BOOLEAN
ASSUME FaultAssumption == Faults \subseteq FaultKinds

VARIABLES
    orders,    \* t_order: status, version, idempotency key, payment_time set or not
    outbox,    \* t_order_outbox: routing keys staged for each order, oldest first
    stock,     \* t_product.stock of the product, kept by product-service
    payments,  \* charges the payment platform made for each order
    refunds,   \* refunds it made
    claims,    \* coupon claims product-service accepted for each order
    issues,    \* coupon-issue jobs handed to the executor for each order
    call,      \* the state of every API call
    sched,     \* the state of every scheduler
    due,       \* SHIPPING orders whose expected_delivery_time has passed
    orphaned,  \* history: units taken off sale that no order holds or will return
    unbacked   \* history: units put back on sale that some order still holds

rowVars == <<orders, outbox>>
extVars == <<stock, payments, refunds, claims, issues>>
histVars == <<orphaned, unbacked>>
vars == <<rowVars, extVars, call, sched, due, histVars>>

----------------------------------------------------------------------------
(* Statuses *)

Statuses == {"NONE", "PENDING_APPROVAL", "PAYING", "PAID_PENDING_APPROVAL",
             "SHIPPING", "COMPLETED", "CANCELLED", "REJECTED"}

EventKinds == {"order.created", "order.approved", "order.cancelled", "order.rejected"}

\* Definitions named Bug... are seeded defects. No action uses them: each
\* replaces the definition after it to show that a property can fail.
BugPendingIncludesPaying == {"PENDING_APPROVAL", "PAID_PENDING_APPROVAL", "PAYING"}

\* isPendingApprovalStatus
PendingApproval == {"PENDING_APPROVAL", "PAID_PENDING_APPROVAL"}

TxOps == {"pay", "cancel", "approve", "reject"}

\* The statuses each handler accepts; in any other it answers 400 (or, when a
\* paid order is paid again, 200 with the order as it is).
Allowed(op) == CASE op = "pay"     -> {"PAYING"}
                 [] op = "cancel"  -> PendingApproval \cup {"PAYING"}
                 [] op = "approve" -> PendingApproval
                 [] op = "reject"  -> PendingApproval

\* What the transaction commits.
Result(op) == CASE op = "pay"     -> "PAID_PENDING_APPROVAL"
                [] op = "cancel"  -> "CANCELLED"
                [] op = "approve" -> "SHIPPING"
                [] op = "reject"  -> "REJECTED"

Event(op) == CASE op = "pay"     -> "order.created"
               [] op = "cancel"  -> "order.cancelled"
               [] op = "approve" -> "order.approved"
               [] op = "reject"  -> "order.rejected"

BugCancelKeepsStock(op) == CASE op = "pay"     -> "claim"
                             [] op = "cancel"  -> "commit"
                             [] op = "approve" -> "commit"
                             [] op = "reject"  -> "refund"

BugNoClaim(op) == CASE op = "pay"     -> "charge"
                    [] op = "cancel"  -> "release"
                    [] op = "approve" -> "commit"
                    [] op = "reject"  -> "refund"

\* Where a handler goes on after it has read the row. A row still PAYING has no
\* final amount: it is written by the transaction that ends PAYING. So payOrder
\* does not take the early return of ensurePayableAmountPrepared.
FirstStep(op) == CASE op = "pay"     -> "claim"
                   [] op = "cancel"  -> "release"
                   [] op = "approve" -> "commit"
                   [] op = "reject"  -> "refund"

Releases(op) == op \in {"cancel", "reject"}

Row(st, r) == [status |-> st, version |-> 0, req |-> r, paid |-> FALSE]
NoRow == Row("NONE", NoRequest)
Rows == [status : Statuses, version : Nat, req : Requests \cup {NoRequest}, paid : BOOLEAN]

Exists(o) == orders[o].status # "NONE"

BugKeyNotUnique(r) == TRUE

\* No row has this (user_id, request_no).
KeyFree(r) == \A o \in Ids : orders[o].req # r

BugNoVersionColumn(o, v) == TRUE

\* The WHERE clause the @Version column adds to every UPDATE of the row.
VersionIs(o, v) == orders[o].version = v

\* The UPDATE itself: Hibernate writes every column and bumps the version.
Write(o, st, paid) ==
    orders' = [orders EXCEPT ![o] = [status |-> st, version |-> @.version + 1,
                                     req |-> @.req, paid |-> paid]]

BugStockUnchecked == TRUE

\* The WHERE clause of the reservation.
InStock == stock >= Quantity

----------------------------------------------------------------------------
(* Calls *)

CreateSteps == {"reserve", "insert", "undo"}
PaySteps == {"claim", "charge", "submit"}
Steps == CreateSteps \cup PaySteps \cup {"release", "refund", "commit"}

Idle == [pc |-> "idle", op |-> "none", req |-> NoRequest, oid |-> NoOrder, ver |-> 0]
Done == [pc |-> "done", op |-> "none", req |-> NoRequest, oid |-> NoOrder, ver |-> 0]

CallStates == [pc  : Steps \cup {"idle", "done"},
               op  : TxOps \cup {"create", "none"},
               req : Requests \cup {NoRequest},
               oid : Ids \cup {NoOrder},
               ver : Nat]

At(c, step) == call[c].pc = step
Running(c) == call[c].pc \in Steps
Enter(c, step, op, r, o, v) ==
    call' = [call EXCEPT ![c] = [pc |-> step, op |-> op, req |-> r, oid |-> o, ver |-> v]]
Goto(c, step) == call' = [call EXCEPT ![c].pc = step]
Finish(c) == call' = [call EXCEPT ![c] = Done]

Sleeping == [todo |-> {}, oid |-> NoOrder, ver |-> 0]
SchedStates == [todo : SUBSET Ids, oid : Ids \cup {NoOrder}, ver : Nat]

\* Rows, calls and schedulers keep their types; the stock is never negative.
TypeOK ==
    /\ orders \in [Ids -> Rows]
    /\ outbox \in [Ids -> Seq(EventKinds)]
    /\ stock \in Nat
    /\ payments \in [Ids -> Nat]
    /\ refunds \in [Ids -> Nat]
    /\ claims \in [Ids -> Nat]
    /\ issues \in [Ids -> Nat]
    /\ call \in [Calls -> CallStates]
    /\ sched \in [Schedulers -> SchedStates]
    /\ due \in SUBSET Ids
    /\ orphaned \in Nat
    /\ unbacked \in Nat

Init ==
    /\ orders = [o \in Ids |-> IF o \in Legacy THEN Row("PENDING_APPROVAL", NoRequest) ELSE NoRow]
    /\ outbox = [o \in Ids |-> <<>>]
    /\ stock = InitialStock
    /\ payments = [o \in Ids |-> 0]
    /\ refunds = [o \in Ids |-> 0]
    /\ claims = [o \in Ids |-> 0]
    /\ issues = [o \in Ids |-> 0]
    /\ call = [c \in Calls |-> Idle]
    /\ sched = [s \in Schedulers |-> Sleeping]
    /\ due = {}
    /\ orphaned = 0
    /\ unbacked = 0

----------------------------------------------------------------------------
(* createOrder: look up the key, check a product snapshot, reserve, insert *)

\* The lookup by key answers a repeated request at once. The product snapshot
\* comes from a cache and may be stale, so its check may pass or refuse
\* whatever the stock is.
CreateStart(c, r) ==
    /\ At(c, "idle")
    /\ \/ Finish(c)
       \/ /\ KeyFree(r)
          /\ Enter(c, "reserve", "create", r, NoOrder, 0)
    /\ UNCHANGED <<rowVars, extVars, sched, due, histVars>>

\* product-service reserves with UPDATE ... WHERE stock >= quantity. The
\* reservation is made outside the try block: when its answer is lost nobody
\* gives the units back.
CreateReserve(c) ==
    /\ At(c, "reserve")
    /\ \/ /\ InStock
          /\ stock' = stock - Quantity
          /\ \/ Goto(c, "insert") /\ UNCHANGED orphaned
             \/ "lost" \in Faults /\ Finish(c) /\ orphaned' = orphaned + Quantity
       \/ /\ ~InStock \/ "overload" \in Faults
          /\ Finish(c)
          /\ UNCHANGED <<stock, orphaned>>
    /\ UNCHANGED <<rowVars, payments, refunds, claims, issues, sched, due, unbacked>>

\* orderRepository.save in a transaction of its own. The unique key on
\* (user_id, request_no) turns a concurrent duplicate into a
\* DataIntegrityViolationException; a lost acknowledgement looks like a
\* failure although the row is there. Both lead to tryReleaseProduct.
CreateInsert(c) ==
    /\ At(c, "insert")
    /\ \/ /\ KeyFree(call[c].req)
          /\ \E o \in Ids :
                /\ ~Exists(o)
                /\ orders' = [orders EXCEPT ![o] = Row("PAYING", call[c].req)]
          /\ \/ Finish(c) /\ UNCHANGED unbacked
             \/ "lost" \in Faults /\ Goto(c, "undo") /\ unbacked' = unbacked + Quantity
       \/ /\ ~KeyFree(call[c].req) \/ "overload" \in Faults
          /\ Goto(c, "undo")
          /\ UNCHANGED <<orders, unbacked>>
    /\ UNCHANGED <<outbox, extVars, sched, due, orphaned>>

\* tryReleaseProduct swallows the failure of the release.
CreateUndo(c) ==
    /\ At(c, "undo")
    /\ \/ stock' = stock + Quantity /\ UNCHANGED orphaned
       \/ "overload" \in Faults /\ orphaned' = orphaned + Quantity /\ UNCHANGED stock
    /\ Finish(c)
    /\ UNCHANGED <<rowVars, payments, refunds, claims, issues, sched, due, unbacked>>

----------------------------------------------------------------------------
(* payOrder, cancelOrder, approve, reject: one transaction each *)

\* The first statement of each handler. It refuses (404, 403, 400), or it goes
\* on with the version it has read.
TxStart(c, op, o) ==
    /\ At(c, "idle")
    /\ \/ Finish(c)
       \/ /\ orders[o].status \in Allowed(op)
          /\ Enter(c, FirstStep(op), op, NoRequest, o, orders[o].version)
    /\ UNCHANGED <<rowVars, extVars, sched, due, histVars>>

\* claimBestCoupon: a failure ends the handler and rolls the transaction back;
\* a coupon already claimed stays claimed.
ClaimCoupon(c) ==
    /\ At(c, "claim")
    /\ LET o == call[c].oid IN
       \/ ~CouponEnabled /\ Goto(c, "charge") /\ UNCHANGED claims
       \/ CouponEnabled /\ Goto(c, "charge") /\ claims' = [claims EXCEPT ![o] = @ + 1]
       \/ CouponEnabled /\ "lost" \in Faults /\ Finish(c) /\ claims' = [claims EXCEPT ![o] = @ + 1]
       \/ CouponEnabled /\ "overload" \in Faults /\ Finish(c) /\ UNCHANGED claims
    /\ UNCHANGED <<rowVars, stock, payments, refunds, issues, sched, due, histVars>>

\* requestPayment: the platform charges, or it times out without charging.
Charge(c) ==
    /\ At(c, "charge")
    /\ LET o == call[c].oid IN
       \/ ~PaymentEnabled /\ Goto(c, "submit") /\ UNCHANGED payments
       \/ PaymentEnabled /\ Goto(c, "submit") /\ payments' = [payments EXCEPT ![o] = @ + 1]
       \/ PaymentEnabled /\ Finish(c) /\ UNCHANGED payments
    /\ UNCHANGED <<rowVars, stock, refunds, claims, issues, sched, due, histVars>>

\* issueCouponAfterOrder: the job goes to the executor before the commit. A
\* full executor throws TaskRejectedException out of payOrder.
SubmitIssue(c) ==
    /\ At(c, "submit")
    /\ LET o == call[c].oid IN
       \/ ~CouponEnabled /\ Goto(c, "commit") /\ UNCHANGED issues
       \/ CouponEnabled /\ Goto(c, "commit") /\ issues' = [issues EXCEPT ![o] = @ + 1]
       \/ CouponEnabled /\ "overload" \in Faults /\ Finish(c) /\ UNCHANGED issues
    /\ UNCHANGED <<rowVars, stock, payments, refunds, claims, sched, due, histVars>>

\* refundOrder. REFUNDING is set on the entity and never flushed.
Refund(c) ==
    /\ At(c, "refund")
    /\ LET o == call[c].oid IN
       \/ ~PaymentEnabled /\ Goto(c, "release") /\ UNCHANGED refunds
       \/ PaymentEnabled /\ Goto(c, "release") /\ refunds' = [refunds EXCEPT ![o] = @ + 1]
       \/ PaymentEnabled /\ "overload" \in Faults /\ Finish(c) /\ UNCHANGED refunds
    /\ UNCHANGED <<rowVars, stock, payments, claims, issues, sched, due, histVars>>

\* releaseProductGuarded of cancelOrder and reject, before the commit.
Release(c) ==
    /\ At(c, "release")
    /\ \/ /\ stock' = stock + Quantity
          /\ \/ Goto(c, "commit") /\ UNCHANGED unbacked
             \/ "lost" \in Faults /\ Finish(c) /\ unbacked' = unbacked + Quantity
       \/ "overload" \in Faults /\ Finish(c) /\ UNCHANGED <<stock, unbacked>>
    /\ UNCHANGED <<rowVars, payments, refunds, claims, issues, sched, due, orphaned>>

\* The flush finds the version it has read: row and event are committed together.
Commit(c) ==
    /\ At(c, "commit")
    /\ LET o == call[c].oid
           op == call[c].op IN
       /\ VersionIs(o, call[c].ver)
       /\ Write(o, Result(op), orders[o].paid \/ op = "pay")
       /\ outbox' = [outbox EXCEPT ![o] = Append(@, Event(op))]
    /\ Finish(c)
    /\ UNCHANGED <<extVars, sched, due, histVars>>

\* It does not: ObjectOptimisticLockingFailureException, 409, rollback. What
\* the remote systems did stays done.
Conflict(c) ==
    /\ At(c, "commit")
    /\ ~VersionIs(call[c].oid, call[c].ver)
    /\ unbacked' = IF Releases(call[c].op) THEN unbacked + Quantity ELSE unbacked
    /\ Finish(c)
    /\ UNCHANGED <<rowVars, extVars, sched, due, orphaned>>

\* The process dies, or its connection does, and the transaction rolls back.
Crash(c) ==
    /\ "crash" \in Faults
    /\ Running(c)
    /\ orphaned' = IF call[c].pc \in {"insert", "undo"} THEN orphaned + Quantity ELSE orphaned
    /\ unbacked' = IF At(c, "commit") /\ Releases(call[c].op) THEN unbacked + Quantity ELSE unbacked
    /\ Finish(c)
    /\ UNCHANGED <<rowVars, extVars, sched, due>>

----------------------------------------------------------------------------
(* OrderAutoCompleteService *)

\* Time passes: a shipped order reaches its expected_delivery_time.
DeliveryTimeReached(o) ==
    /\ orders[o].status = "SHIPPING"
    /\ o \notin due
    /\ due' = due \cup {o}
    /\ UNCHANGED <<rowVars, extVars, call, sched, histVars>>

BugLegacySkipped == {o \in due : orders[o].status = "SHIPPING" /\ orders[o].paid}

\* findByStatusAndExpectedDeliveryTimeLessThanEqual
Candidates == {o \in due : orders[o].status = "SHIPPING"}

\* runAutoComplete and its query: one page of the due orders, which page when
\* there are more is left open. A trigger that finds the running flag set is
\* skipped, hence the guard.
Scan(s) ==
    /\ sched[s] = Sleeping
    /\ \E page \in SUBSET Candidates :
          /\ page # {}
          /\ Cardinality(page) <= BatchSize
          /\ Cardinality(page) = BatchSize \/ page = Candidates
          /\ sched' = [sched EXCEPT ![s].todo = page]
    /\ UNCHANGED <<rowVars, extVars, call, due, histVars>>

\* markCompletedIfDue, first half: findById and the checks of status, delivery
\* time and complete_time, which is set together with COMPLETED. A candidate
\* that another replica completed in the meantime is passed over.
MarkRead(s) ==
    /\ sched[s].oid = NoOrder
    /\ \E o \in sched[s].todo :
          sched' = [sched EXCEPT
              ![s] = IF orders[o].status = "SHIPPING" /\ o \in due
                     THEN [todo |-> @.todo \ {o}, oid |-> o, ver |-> orders[o].version]
                     ELSE [todo |-> @.todo \ {o}, oid |-> NoOrder, ver |-> 0]]
    /\ UNCHANGED <<rowVars, extVars, call, due, histVars>>

\* Second half: save merges the detached entity; a version conflict, or any
\* other failure, is logged and the loop goes on. No event is written.
MarkSave(s) ==
    /\ sched[s].oid # NoOrder
    /\ LET o == sched[s].oid IN
       \/ /\ VersionIs(o, sched[s].ver)
          /\ Write(o, "COMPLETED", orders[o].paid)
       \/ /\ ~VersionIs(o, sched[s].ver) \/ "overload" \in Faults
          /\ UNCHANGED orders
    /\ sched' = [sched EXCEPT ![s].oid = NoOrder, ![s].ver = 0]
    /\ UNCHANGED <<outbox, extVars, call, due, histVars>>

\* The replica dies in the middle of a scan; its running flag dies with it.
SchedulerCrash(s) ==
    /\ "crash" \in Faults
    /\ sched[s] # Sleeping
    /\ sched' = [sched EXCEPT ![s] = Sleeping]
    /\ UNCHANGED <<rowVars, extVars, call, due, histVars>>

----------------------------------------------------------------------------

\* What a call in progress does next when nothing crashes.
Step(c) ==
    \/ CreateReserve(c) \/ CreateInsert(c) \/ CreateUndo(c)
    \/ ClaimCoupon(c) \/ Charge(c) \/ SubmitIssue(c)
    \/ Refund(c) \/ Release(c) \/ Commit(c) \/ Conflict(c)

Next ==
    \/ \E c \in Calls :
          \/ \E r \in Requests : CreateStart(c, r)
          \/ \E op \in TxOps, o \in Ids : TxStart(c, op, o)
          \/ Step(c)
          \/ Crash(c)
    \/ \E o \in Ids : DeliveryTimeReached(o)
    \/ \E s \in Schedulers : Scan(s) \/ MarkRead(s) \/ MarkSave(s) \/ SchedulerCrash(s)

Spec == Init /\ [][Next]_vars

\* The scheduler is a fixed-delay task of every replica, and its loop runs to
\* its end; nobody is obliged to call the API.
SchedulerFairness == \A s \in Schedulers :
    WF_vars(Scan(s)) /\ WF_vars(MarkRead(s)) /\ WF_vars(MarkSave(s))

\* A request that was accepted is executed to its end.
CallFairness == \A c \in Calls : WF_vars(Step(c))

FairSpec == Spec /\ SchedulerFairness /\ CallFairness

----------------------------------------------------------------------------
(* Properties *)

\* The events an order in this row has had written for it, oldest first.
Announced(row) ==
    LET base == IF row.paid THEN <<"order.created">> ELSE <<>> IN
    CASE row.status \in {"SHIPPING", "COMPLETED"} -> Append(base, "order.approved")
      [] row.status = "CANCELLED"                 -> Append(base, "order.cancelled")
      [] row.status = "REJECTED"                  -> Append(base, "order.rejected")
      [] OTHER                                    -> base

\* Row and outbox agree at every moment: the events staged for an order are
\* exactly those its status and payment_time call for, in order, whatever
\* conflicts, rollbacks and crashes the handlers went through (the row and the
\* event of payOrder, cancelOrder, approve and reject share a transaction).
OutboxMatchesStatus == \A o \in Ids : outbox[o] = Announced(orders[o])

\* Money moves before the status says so. An order the new checkout created is
\* in a status past PAYING only if it was charged, and a REJECTED order has
\* been refunded (payOrder charges and reject refunds before they commit).
PaidBeforeShipped == PaymentEnabled => \A o \in Ids :
    /\ orders[o].status \in {"PAID_PENDING_APPROVAL", "SHIPPING", "COMPLETED", "REJECTED"}
          /\ o \notin Legacy => payments[o] > 0
    /\ orders[o].status = "REJECTED" => refunds[o] > 0

\* Every charge follows a coupon claim of its own and every coupon-issue job a
\* charge of its own, although payOrder calls for one order overlap, fail and
\* are repeated. The counts may be behind each other: a claim without a charge,
\* and a charge whose job was refused and whose order was rolled back
\* (issueCouponAfterOrder), are outcomes of the code.
CouponFlowOrdered == CouponEnabled /\ PaymentEnabled => \A o \in Ids :
    issues[o] <= payments[o] /\ payments[o] <= claims[o]

\* What docs/order-service-checkout-flow-and-api.txt says of the coupon issue that
\* follows a payment: "failure does not roll back the paid order". A charged order
\* is paid, unless its payOrder is still on the way. It is stated for calls that
\* follow each other and do not crash: a lost race and a crash have effects of
\* their own.
ChargedIsPaid == \A o \in Ids : payments[o] > 0 =>
    orders[o].paid \/ \E c \in Calls : call[c].oid = o /\ call[c].pc \in {"submit", "commit"}

\* A repeated or concurrent createOrder with the same key never makes a second
\* order: lookup, reserve and insert are separate steps and only the unique
\* key closes the gap between them.
OneOrderPerRequest == \A o1, o2 \in Ids :
    orders[o1].req = orders[o2].req /\ orders[o1].req # NoRequest => o1 = o2

Holds(o) == orders[o].status \notin {"NONE", "CANCELLED", "REJECTED"}

\* Calls that have reserved and not yet inserted or released.
Reserving == {c \in Calls : call[c].pc \in {"insert", "undo"}}

\* Transactions that have released and not yet committed.
Releasing == {c \in Calls : At(c, "commit") /\ Releases(call[c].op)}

\* Every unit is accounted for at every step: it is on sale, held by an order,
\* in the hands of a createOrder, or orphaned, less the units that are on sale
\* although a running or a failed cancelOrder or reject never gave up its
\* order. In particular a createOrder that loses the race for its key returns
\* exactly what it took.
StockAccounted ==
    stock + Quantity * (Cardinality({o \in Ids : Holds(o)}) + Cardinality(Reserving)) + orphaned
      = InitialStock + Quantity * (Cardinality(Legacy) + Cardinality(Releasing)) + unbacked

L == INSTANCE OrderLifecycle WITH
        status <- [o \in Ids |-> orders[o].status],
        events <- outbox

\* The handlers implement the abstract order: each commit is one operation of
\* OrderLifecycle on a row that was in a status the operation accepts, and
\* nothing else touches status or events. The version column carries this.
RefinesLifecycle == L!Spec

\* A shipped order whose delivery time has passed is completed eventually,
\* however many replicas scan at the same time.
DueOrderCompletes == \A o \in Ids : o \in due ~> orders[o].status = "COMPLETED"

=============================================================================
