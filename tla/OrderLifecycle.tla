--------------------------- MODULE OrderLifecycle ---------------------------
(***************************************************************************)
(* The abstract specification of an order: what order-service promises its *)
(* callers and the consumers of its domain events, with no trace of how.   *)
(* An order has a status and a log of the events written for it; every     *)
(* operation moves the status and logs its event in one atomic step.       *)
(* OrderWorkflow (transactions, version column, remote calls, crashes)     *)
(* implements this module: see OrderWorkflow!RefinesLifecycle.             *)
(*                                                                         *)
(* Source: enums/OrderStatus.java, service/OrderService.java and           *)
(* service/OrderAutoCompleteService.java of order-service.                 *)
(***************************************************************************)
EXTENDS Naturals, Sequences

CONSTANTS
    Ids,     \* primary keys an order row may get
    Legacy   \* rows left by the older schema, status 0 (PENDING_APPROVAL)

VARIABLES
    status,  \* status[o]: the status column, "NONE" while there is no row
    events   \* events[o]: the routing keys logged for o, oldest first

vars == <<status, events>>

\* Codes 1 (APPROVED) and 8 (REFUNDING) exist in the enum and are never stored.
Statuses == {"NONE", "PENDING_APPROVAL", "PAYING", "PAID_PENDING_APPROVAL",
             "SHIPPING", "COMPLETED", "CANCELLED", "REJECTED"}

EventKinds == {"order.created", "order.approved", "order.cancelled", "order.rejected"}

\* isPendingApprovalStatus
PendingApproval == {"PENDING_APPROVAL", "PAID_PENDING_APPROVAL"}

\* Every order has a status and its events are those there are.
TypeOK ==
    /\ status \in [Ids -> Statuses]
    /\ events \in [Ids -> Seq(EventKinds)]

Init ==
    /\ status = [o \in Ids |-> IF o \in Legacy THEN "PENDING_APPROVAL" ELSE "NONE"]
    /\ events = [o \in Ids |-> <<>>]

Move(o, from, to) ==
    /\ status[o] \in from
    /\ status' = [status EXCEPT ![o] = to]

Log(o, kind) == events' = [events EXCEPT ![o] = Append(@, kind)]

Create(o) == Move(o, {"NONE"}, "PAYING") /\ UNCHANGED events

Pay(o) == Move(o, {"PAYING"}, "PAID_PENDING_APPROVAL") /\ Log(o, "order.created")

Cancel(o) == Move(o, PendingApproval \cup {"PAYING"}, "CANCELLED") /\ Log(o, "order.cancelled")

Approve(o) == Move(o, PendingApproval, "SHIPPING") /\ Log(o, "order.approved")

Reject(o) == Move(o, PendingApproval, "REJECTED") /\ Log(o, "order.rejected")

\* Completion is silent: the scheduler writes no event.
Complete(o) == Move(o, {"SHIPPING"}, "COMPLETED") /\ UNCHANGED events

Next == \E o \in Ids :
    Create(o) \/ Pay(o) \/ Cancel(o) \/ Approve(o) \/ Reject(o) \/ Complete(o)

Spec == Init /\ [][Next]_vars

=============================================================================
