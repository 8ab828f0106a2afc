---------------------------- MODULE OutboxRelay ----------------------------
(***************************************************************************)
(* From t_order_outbox to the audit store: the scheduled relay of          *)
(* order-service (every replica runs one), the RabbitMQ queue, and the     *)
(* consumers of notification-service.                                      *)
(*                                                                         *)
(* The relay is one transaction: it reads PENDING rows, sends them, marks  *)
(* the entities in memory and writes all of them back at its commit. The   *)
(* rows have no version column. RabbitTemplate uses no publisher confirms, *)
(* and only the consumer declares and binds the queue.                     *)
(***************************************************************************)
EXTENDS Naturals, FiniteSets, FiniteSetsExt

CONSTANTS
    Messages,   \* outbox ids, hence a set of naturals; one message_id each
    Relays,     \* replicas of order-service
    Consumers,  \* replicas of notification-service
    NoMessage,  \* nothing is being processed
    BatchSize,  \* app.order-events.outbox-batch-size
    MaxCopies,  \* bound: copies of one message in the queue beyond it are not told apart
    Faults,     \* which of FaultKinds happen
    MaxFaults   \* bound: how many faults happen in a behaviour

\* "crash": a relay dies or its transaction rolls back;
\* "send": convertAndSend throws; the message may or may not have got through;
\* "lost": the broker loses a message it never confirmed;
\* "amqp": a consumer loses its connection with a message unacknowledged;
\* "exit": a consumer process ends (an exception no handler is for, a rollout);
\* "mongo": a command to the audit store fails, before or after its effect.
FaultKinds == {"crash", "send", "lost", "amqp", "exit", "mongo"}

ASSUME MessageAssumption == Messages \subseteq Nat /\ NoMessage \notin Messages
ASSUME ConsumerAssumption == IsFiniteSet(Consumers)
ASSUME RelayAssumption == BatchSize \in Nat \ {0} /\ MaxCopies \in Nat \ {0}
ASSUME FaultAssumption == Faults \subseteq FaultKinds /\ MaxFaults \in Nat

VARIABLES
    row,      \* row[m]: status of the outbox row, "absent" before its commit
    relay,    \* relay[r]: the transaction of replica r
    bound,    \* the queue exists and is bound to the exchange
    copies,   \* copies[m]: copies of m waiting in the queue
    holds,    \* holds[k]: the message consumer k is processing
    step,     \* step[k]: where consumer k is
    handle,   \* handle[k]: _audit_collection of process k has been assigned
    unique,   \* the unique index on message_id exists
    audit,    \* audit[m]: documents with its message_id in the collection
    dropped,  \* history: messages the broker or a consumer let go unaudited
    blind,    \* history: a process went on with a handle whose create_index failed
    faults    \* faults so far

relayVars == <<row, relay>>
brokerVars == <<bound, copies>>
consumerVars == <<holds, step, handle>>
storeVars == <<unique, audit, blind>>
vars == <<relayVars, brokerVars, consumerVars, storeVars, dropped, faults>>

\* todo: still to send; sent: marked PUBLISHED; failed: left PENDING.
NoBatch == [open |-> FALSE, todo |-> {}, sent |-> {}, failed |-> {}]
Batches == [open : BOOLEAN, todo : SUBSET Messages, sent : SUBSET Messages, failed : SUBSET Messages]

\* Rows, batches, queue, consumers and store keep their types.
TypeOK ==
    /\ row \in [Messages -> {"absent", "PENDING", "PUBLISHED"}]
    /\ relay \in [Relays -> Batches]
    /\ bound \in BOOLEAN
    /\ copies \in [Messages -> 0 .. MaxCopies]
    /\ holds \in [Consumers -> Messages \cup {NoMessage}]
    /\ step \in [Consumers -> {"down", "ready", "open", "match", "insert", "ack"}]
    /\ handle \in [Consumers -> BOOLEAN]
    /\ unique \in BOOLEAN
    /\ audit \in [Messages -> 0 .. Cardinality(Consumers)]
    /\ blind \in BOOLEAN
    /\ dropped \in SUBSET Messages
    /\ faults \in 0 .. MaxFaults

Init ==
    /\ row = [m \in Messages |-> "absent"]
    /\ relay = [r \in Relays |-> NoBatch]
    /\ bound = FALSE
    /\ copies = [m \in Messages |-> 0]
    /\ holds = [k \in Consumers |-> NoMessage]
    /\ step = [k \in Consumers |-> "down"]
    /\ handle = [k \in Consumers |-> FALSE]
    /\ unique = FALSE
    /\ audit = [m \in Messages |-> 0]
    /\ blind = FALSE
    /\ dropped = {}
    /\ faults = 0

Fault(kind) ==
    /\ kind \in Faults
    /\ faults < MaxFaults
    /\ faults' = faults + 1

\* Definitions named Bug... are seeded defects. No action uses them: each
\* replaces the definition after it to show that a property can fail.

----------------------------------------------------------------------------
(* order-service *)

\* OrderOutboxService.enqueue, made visible by the commit of the order's
\* transaction. Ids are handed out before the commit, so rows may appear out
\* of id order.
Enqueue(m) ==
    /\ row[m] = "absent"
    /\ row' = [row EXCEPT ![m] = "PENDING"]
    /\ UNCHANGED <<relay, brokerVars, consumerVars, storeVars, dropped, faults>>

Pending == {m \in Messages : row[m] = "PENDING"}

\* findTop50ByStatusOrderByIdAsc, cut to the batch size.
Page == {m \in Pending : Cardinality({n \in Pending : n < m}) < BatchSize}

Poll(r) ==
    /\ ~relay[r].open
    /\ Page # {}
    /\ relay' = [relay EXCEPT ![r] = [open |-> TRUE, todo |-> Page, sent |-> {}, failed |-> {}]]
    /\ UNCHANGED <<row, brokerVars, consumerVars, storeVars, dropped, faults>>

\* A message arrives at the exchange. Without a queue it is unroutable and the
\* broker discards it silently.
Route(m) ==
    IF bound
    THEN /\ copies' = [copies EXCEPT ![m] = IF @ < MaxCopies THEN @ + 1 ELSE @]
         /\ UNCHANGED dropped
    ELSE dropped' = dropped \cup {m} /\ UNCHANGED copies

Lose(m) == dropped' = dropped \cup {m} /\ UNCHANGED copies

BugFailureMarkedSent(r, m) == relay' = [relay EXCEPT ![r].todo = @ \ {m}, ![r].sent = @ \cup {m}]

\* The catch block of publish: the row stays PENDING, its attempt count grows.
MarkFailed(r, m) == relay' = [relay EXCEPT ![r].todo = @ \ {m}, ![r].failed = @ \cup {m}]

MarkSent(r, m) == relay' = [relay EXCEPT ![r].todo = @ \ {m}, ![r].sent = @ \cup {m}]

\* publish, for the rows of the page in id order.
Send(r) ==
    /\ relay[r].todo # {}
    /\ LET m == Min(relay[r].todo) IN
       \/ MarkSent(r, m) /\ Route(m) /\ UNCHANGED faults
       \/ MarkSent(r, m) /\ Fault("lost") /\ Lose(m)
       \/ MarkFailed(r, m) /\ Fault("send") /\ Route(m)
       \/ MarkFailed(r, m) /\ Fault("send") /\ UNCHANGED <<copies, dropped>>
    /\ UNCHANGED <<row, bound, consumerVars, storeVars>>

BugFailedStatus == "FAILED"

\* A row that could not be sent is written back with the status it was read with.
FailedStatus == "PENDING"

\* The commit flushes every entity it has touched, with all its columns: a
\* row this relay failed to send is written back as PENDING even if another
\* relay has published it meanwhile.
Commit(r) ==
    /\ relay[r].open
    /\ relay[r].todo = {}
    /\ row' = [m \in Messages |-> CASE m \in relay[r].sent   -> "PUBLISHED"
                                    [] m \in relay[r].failed -> FailedStatus
                                    [] OTHER                 -> row[m]]
    /\ relay' = [relay EXCEPT ![r] = NoBatch]
    /\ UNCHANGED <<brokerVars, consumerVars, storeVars, dropped, faults>>

\* The relay dies, or its transaction is rolled back: what was sent stays sent.
Rollback(r) ==
    /\ relay[r].open
    /\ Fault("crash")
    /\ relay' = [relay EXCEPT ![r] = NoBatch]
    /\ UNCHANGED <<row, brokerVars, consumerVars, storeVars, dropped>>

----------------------------------------------------------------------------
(* notification-service *)

\* consume_forever connects: declares and binds the durable queue, subscribes.
Connect(k) ==
    /\ step[k] = "down"
    /\ bound' = TRUE
    /\ step' = [step EXCEPT ![k] = "ready"]
    /\ UNCHANGED <<relayVars, copies, holds, handle, storeVars, dropped, faults>>

\* on_message starts, and get_audit_collection finds the handle or not. The
\* order in which the queue hands messages out is left open: redeliveries and
\* several relays disturb it anyway. Up to ten messages are prefetched; those
\* not yet in on_message count as queued.
Deliver(k, m) ==
    /\ step[k] = "ready"
    /\ copies[m] > 0
    /\ copies' = [copies EXCEPT ![m] = @ - 1]
    /\ holds' = [holds EXCEPT ![k] = m]
    /\ step' = [step EXCEPT ![k] = IF handle[k] THEN "match" ELSE "open"]
    /\ UNCHANGED <<relayVars, bound, handle, storeVars, dropped, faults>>

\* The except clause of on_message: logged, and acknowledged like any other.
GiveUp(k) ==
    /\ dropped' = dropped \cup {holds[k]}
    /\ step' = [step EXCEPT ![k] = "ack"]

Duplicated == \E m \in Messages : audit[m] > 1

BugNoIndex(k) ==
    /\ step' = [step EXCEPT ![k] = "match"]
    /\ UNCHANGED <<unique, blind, dropped, faults>>

\* create_index(unique=True): nothing new when the index exists, an error when
\* the collection holds a message_id twice, and any other failure.
CreateIndex(k) ==
    \/ /\ ~Duplicated
       /\ unique' = TRUE
       /\ step' = [step EXCEPT ![k] = "match"]
       /\ UNCHANGED <<blind, dropped, faults>>
    \/ /\ Duplicated
       /\ GiveUp(k)
       /\ blind' = TRUE
       /\ UNCHANGED <<unique, faults>>
    \/ /\ Fault("mongo")
       /\ GiveUp(k)
       /\ unique' \in {unique, ~Duplicated}
       /\ blind' = TRUE

\* get_audit_collection: the module-level handle is assigned before the index
\* is made, so a process whose create_index failed never tries again.
OpenCollection(k) ==
    /\ step[k] = "open"
    /\ handle' = [handle EXCEPT ![k] = TRUE]
    /\ CreateIndex(k)
    /\ UNCHANGED <<relayVars, brokerVars, holds, audit>>

\* $setOnInsert: a document that matches is left as it is.
Upsert(m) == IF audit[m] > 0 THEN "ack" ELSE "insert"

\* persist_audit_record, the query of the upsert on message_id.
Match(k) ==
    /\ step[k] = "match"
    /\ \/ step' = [step EXCEPT ![k] = Upsert(holds[k])] /\ UNCHANGED <<dropped, faults>>
       \/ Fault("mongo") /\ GiveUp(k)
    /\ UNCHANGED <<relayVars, brokerVars, holds, handle, storeVars>>

\* The insert of the upsert. Only the unique index makes query and insert one
\* step: with it the second of two inserts fails, with a document stored. (A
\* command that fails before its effect has failed in Match.)
Insert(k) ==
    /\ step[k] = "insert"
    /\ audit' = [audit EXCEPT ![holds[k]] = IF unique /\ @ > 0 THEN @ ELSE @ + 1]
    /\ \/ step' = [step EXCEPT ![k] = "ack"] /\ UNCHANGED <<dropped, faults>>
       \/ Fault("mongo") /\ GiveUp(k)
    /\ UNCHANGED <<relayVars, brokerVars, holds, handle, unique, blind>>

\* channel.basic_ack
Ack(k) ==
    /\ step[k] = "ack"
    /\ holds' = [holds EXCEPT ![k] = NoMessage]
    /\ step' = [step EXCEPT ![k] = "ready"]
    /\ UNCHANGED <<relayVars, brokerVars, handle, storeVars, dropped, faults>>

\* The broker takes an unacknowledged message back.
Requeued(k) == IF holds[k] = NoMessage THEN copies
               ELSE [copies EXCEPT ![holds[k]] = IF @ < MaxCopies THEN @ + 1 ELSE @]

\* AMQPConnectionError: consume_forever starts over, in the same process. When
\* the process itself ends, its successor starts without a handle.
Disconnect(k) ==
    /\ step[k] # "down"
    /\ \/ Fault("amqp") /\ UNCHANGED handle
       \/ Fault("exit") /\ handle' = [handle EXCEPT ![k] = FALSE]
    /\ copies' = Requeued(k)
    /\ holds' = [holds EXCEPT ![k] = NoMessage]
    /\ step' = [step EXCEPT ![k] = "down"]
    /\ UNCHANGED <<relayVars, bound, storeVars, dropped>>

----------------------------------------------------------------------------

Consume(k) == Connect(k) \/ OpenCollection(k) \/ Match(k) \/ Insert(k) \/ Ack(k)

Next ==
    \/ \E m \in Messages : Enqueue(m)
    \/ \E r \in Relays : Poll(r) \/ Send(r) \/ Commit(r) \/ Rollback(r)
    \/ \E k \in Consumers :
          \/ Consume(k) \/ Disconnect(k)
          \/ \E m \in Messages : Deliver(k, m)

Spec == Init /\ [][Next]_vars

\* The relay is a fixed-delay task and its loop ends; consume_forever
\* reconnects, and pika hands it what is queued.
FairSpec ==
    /\ Spec
    /\ \A r \in Relays : WF_vars(Poll(r)) /\ WF_vars(Send(r)) /\ WF_vars(Commit(r))
    /\ \A k \in Consumers :
          /\ WF_vars(Consume(k))
          /\ \A m \in Messages : SF_vars(Deliver(k, m))

----------------------------------------------------------------------------
(* Properties *)

Processing(m) == \E k \in Consumers : holds[k] = m /\ step[k] \in {"open", "match", "insert"}

\* A row marked PUBLISHED is never a lie: its message is in the queue, in the
\* hands of a consumer that has yet to write it, or in the audit store, unless
\* the broker or the consumer let it go. Crashes between send and commit, two
\* relays on the same rows and redeliveries do not change that.
PublishedIsAccounted == \A m \in Messages : row[m] = "PUBLISHED" =>
    copies[m] > 0 \/ Processing(m) \/ audit[m] > 0 \/ m \in dropped

\* Every staged event gets through in the end: a PENDING row is published and
\* stays published, and its message reaches the audit store or is let go by
\* the broker or the consumer.
StagedIsDelivered == \A m \in Messages :
    row[m] = "PENDING" ~> [](row[m] = "PUBLISHED") /\ (audit[m] > 0 \/ m \in dropped)

\* A message is stored once however often it is sent, redelivered, or handled by
\* two consumers at the same time. What it takes for a second document is a
\* process that kept its handle after create_index had failed; and an index,
\* once there, has none beside it.
AuditedOnce == \A m \in Messages : audit[m] > 1 => blind /\ ~unique

=============================================================================
