-------------------- MODULE RelayAndSmokeTestsProofs --------------------
(***************************************************************************)
(* Theorems about OutboxRelay, for any messages, any number of relays and  *)
(* any finite number of consumers, any batch size and any faults; and      *)
(* about SmokeTests, for any of the scripts at once, any stock, any login  *)
(* limit and any number of attempts.                                       *)
(***************************************************************************)
EXTENDS OutboxRelay, SmokeTests, FiniteSetTheorems, TLAPS

----------------------------------------------------------------------------
(* The relay *)

\* A consumer has a message from the start of on_message to its acknowledgement,
\* and the handle before it uses the collection.
HoldInv(k) ==
    /\ step[k] \in {"open", "match", "insert", "ack"} => holds[k] \in Messages
    /\ step[k] \in {"match", "insert"} => handle[k]

\* Where a message is that was sent.
Accounted(m) == copies[m] > 0 \/ Processing(m) \/ audit[m] > 0 \/ m \in dropped

\* A relay marks a row in memory when the message is out, not at its commit.
SentInv(m) == row[m] = "PUBLISHED" \/ (\E r \in Relays : m \in relay[r].sent) => Accounted(m)

\* The consumers whose query found no document. Only they add one, and none
\* joins them once there is a document.
Inserting(m) == {k \in Consumers : step[k] = "insert" /\ holds[k] = m}
DocsInv(m) == audit[m] + Cardinality(Inserting(m)) <= Cardinality(Consumers)

\* The unique index keeps documents apart; without it a process has a handle
\* only if its create_index failed.
IndexInv ==
    /\ unique => \A m \in Messages : audit[m] <= 1
    /\ ~blind => \A k \in Consumers : handle[k] => unique
    /\ ~blind => \A m \in Messages : audit[m] <= 1

Inv ==
    /\ TypeOK /\ IndexInv
    /\ \A k \in Consumers : HoldInv(k)
    /\ \A m \in Messages : SentInv(m) /\ DocsInv(m)

----------------------------------------------------------------------------

USE DEF relayVars, brokerVars, consumerVars, storeVars

LEMMA MinFacts == ASSUME NEW S \in SUBSET Messages, S # {} PROVE Min(S) \in S
<1>1. S \subseteq Nat
  BY MessageAssumption
<1>2. \E x \in S : \A y \in S : ~(<<y, x>> \in OpToRel(<, Nat))
  BY <1>1, NatLessThanWellFounded, WFMin
<1>3. \E x \in S : \A y \in S : x =< y
  <2>1. \A x, y \in Nat : <<y, x>> \in OpToRel(<, Nat) <=> y < x
    BY DEF OpToRel
  <2>2. PICK x \in S : \A y \in S : ~(<<y, x>> \in OpToRel(<, Nat))
    BY <1>2
  <2>3. \A y \in S : ~(y < x) /\ y \in Nat /\ x \in Nat
    BY <1>1, <2>1, <2>2
  <2>4. \A y \in S : x =< y
    BY <2>3
  <2> QED
    BY <2>4
<1> QED
  BY <1>3 DEF Min

LEMMA InitInv == Init => Inv
<1> SUFFICES ASSUME Init PROVE Inv
  OBVIOUS
<1>0. Cardinality(Consumers) \in Nat
  BY ConsumerAssumption, FS_CardinalityType
<1>1. TypeOK
  <2>1. relay \in [Relays -> Batches]
    BY DEF Init, NoBatch, Batches
  <2>2. /\ copies \in [Messages -> 0 .. MaxCopies] /\ audit \in [Messages -> 0 .. Cardinality(Consumers)]
        /\ faults \in 0 .. MaxFaults
    BY <1>0, RelayAssumption, FaultAssumption DEF Init
  <2> QED
    BY <2>1, <2>2 DEF Init, TypeOK
<1>2. IndexInv /\ \A k \in Consumers : HoldInv(k)
  BY DEF Init, IndexInv, HoldInv
<1>3. \A m \in Messages : SentInv(m)
  BY DEF Init, SentInv, NoBatch
<1>4. ASSUME NEW m \in Messages PROVE DocsInv(m)
  <2>1. Inserting(m) = {} /\ audit[m] = 0
    BY DEF Init, Inserting
  <2> QED
    BY <1>0, <2>1, FS_EmptySet DEF DocsInv
<1> QED
  BY <1>1, <1>2, <1>3, <1>4 DEF Inv

\* What steps of the relays leave of the rest, and steps of the consumers of
\* what is known of sent messages.
LEMMA NotConsumers ==
    ASSUME Inv, UNCHANGED <<consumerVars, storeVars>>
    PROVE  IndexInv' /\ (\A k \in Consumers : HoldInv(k)') /\ (\A m \in Messages : DocsInv(m)')
<1>1. ASSUME NEW m \in Messages PROVE DocsInv(m)'
  <2>1. Inserting(m)' = Inserting(m)
    BY DEF Inserting
  <2> QED
    BY <2>1 DEF Inv, DocsInv
<1> QED
  BY <1>1 DEF Inv, IndexInv, HoldInv

LEMMA NotRelays ==
    ASSUME Inv, UNCHANGED relayVars, \A m \in Messages : Accounted(m) => Accounted(m)'
    PROVE  \A m \in Messages : SentInv(m)'
BY DEF Inv, SentInv

\* The broker only gains messages from a relay.
LEMMA BrokerGains ==
    ASSUME Inv, UNCHANGED <<consumerVars, storeVars>>, dropped \subseteq dropped',
           \A m \in Messages : copies[m] > 0 => copies'[m] > 0
    PROVE  \A m \in Messages : Accounted(m) => Accounted(m)'
BY DEF Accounted, Processing

LEMMA RouteFacts ==
    ASSUME Inv, NEW m \in Messages, Route(m)
    PROVE  /\ copies' \in [Messages -> 0 .. MaxCopies] /\ dropped' \in SUBSET Messages
           /\ dropped \subseteq dropped' /\ \A x \in Messages : copies[x] > 0 => copies'[x] > 0
           /\ copies'[m] > 0 \/ m \in dropped'
<1>1. copies \in [Messages -> 0 .. MaxCopies] /\ dropped \in SUBSET Messages /\ MaxCopies \in Nat \ {0}
  BY RelayAssumption DEF Inv, TypeOK
<1>2. CASE bound
  <2>1. \A x \in Messages : copies'[x] = IF x = m THEN (IF copies[m] < MaxCopies THEN copies[m] + 1 ELSE copies[m])
                                         ELSE copies[x]
    BY <1>1, <1>2 DEF Route
  <2>2. copies' \in [Messages -> 0 .. MaxCopies]
    BY <1>1, <1>2 DEF Route
  <2> QED
    BY <1>1, <1>2, <2>1, <2>2 DEF Route
<1>3. CASE ~bound
  BY <1>1, <1>3 DEF Route
<1> QED
  BY <1>2, <1>3

LEMMA EnqueueInv == ASSUME Inv, NEW m \in Messages, Enqueue(m) PROVE Inv'
<1>1. TypeOK'
  BY DEF Inv, TypeOK, Enqueue
<1>2. \A x \in Messages : Accounted(x)' <=> Accounted(x)
  BY DEF Enqueue, Accounted, Processing
<1>3. \A x \in Messages : SentInv(x)'
  BY <1>2 DEF Inv, TypeOK, Enqueue, SentInv
<1> QED
  BY <1>1, <1>3, NotConsumers DEF Inv, Enqueue

LEMMA PollInv == ASSUME Inv, NEW r \in Relays, Poll(r) PROVE Inv'
<1>1. Page \in SUBSET Messages
  BY DEF Page, Pending
<1>2. TypeOK'
  BY <1>1 DEF Inv, TypeOK, Poll, Batches
<1>3. \A x \in Messages : Accounted(x)' <=> Accounted(x)
  BY DEF Poll, Accounted, Processing
<1>4. \A x \in Messages : SentInv(x)'
  BY <1>3 DEF Inv, TypeOK, Poll, SentInv, Batches
<1> QED
  BY <1>2, <1>4, NotConsumers DEF Inv, Poll

\* The row is marked in memory only with the message on its way or let go.
LEMMA SendInv == ASSUME Inv, NEW r \in Relays, Send(r) PROVE Inv'
<1>0. relay[r].todo \in SUBSET Messages /\ relay[r].todo # {}
  BY DEF Send, Inv, TypeOK, Batches
<1>1. PICK m \in Messages :
        /\ \/ MarkSent(r, m) /\ Route(m) /\ UNCHANGED faults
           \/ MarkSent(r, m) /\ Fault("lost") /\ Lose(m)
           \/ MarkFailed(r, m) /\ Fault("send") /\ Route(m)
           \/ MarkFailed(r, m) /\ Fault("send") /\ UNCHANGED <<copies, dropped>>
        /\ UNCHANGED <<row, bound, consumerVars, storeVars>>
  BY <1>0, MinFacts DEF Send
<1> DEFINE OutOf(x) == copies'[x] > 0 \/ x \in dropped'
<1>2. /\ copies' \in [Messages -> 0 .. MaxCopies] /\ dropped' \in SUBSET Messages
      /\ dropped \subseteq dropped' /\ \A x \in Messages : copies[x] > 0 => copies'[x] > 0
      /\ MarkFailed(r, m) \/ (MarkSent(r, m) /\ OutOf(m))
  <2>1. CASE Route(m)
    BY <1>1, <2>1, RouteFacts
  <2>2. CASE MarkSent(r, m) /\ Lose(m)
    BY <1>1, <2>2 DEF Lose, Inv, TypeOK
  <2>3. CASE MarkFailed(r, m) /\ UNCHANGED <<copies, dropped>>
    BY <2>3 DEF Inv, TypeOK
  <2> QED
    BY <1>1, <2>1, <2>2, <2>3
<1>3. faults' \in 0 .. MaxFaults
  BY <1>1, FaultAssumption DEF Fault, Inv, TypeOK
<1> HIDE DEF OutOf
<1>4. /\ relay' \in [Relays -> Batches]
      /\ \A s \in Relays, x \in Messages : x \in relay'[s].sent =>
            x \in relay[s].sent \/ (x = m /\ MarkSent(r, m))
  <2>1. relay \in [Relays -> Batches]
    BY DEF Inv, TypeOK
  <2>2. CASE MarkFailed(r, m)
    <3> DEFINE b == [relay[r] EXCEPT !.todo = @ \ {m}, !.failed = @ \cup {m}]
    <3>1. b \in Batches /\ b.sent = relay[r].sent
      BY <1>1, <2>1 DEF Batches
    <3>2. relay' = [relay EXCEPT ![r] = b]
      BY <2>1, <2>2 DEF MarkFailed, Batches
    <3> HIDE DEF b
    <3> QED
      BY <2>1, <3>1, <3>2
  <2>3. CASE MarkSent(r, m)
    <3> DEFINE b == [relay[r] EXCEPT !.todo = @ \ {m}, !.sent = @ \cup {m}]
    <3>1. b \in Batches /\ b.sent = relay[r].sent \cup {m}
      BY <1>1, <2>1 DEF Batches
    <3>2. relay' = [relay EXCEPT ![r] = b]
      BY <2>1, <2>3 DEF MarkSent, Batches
    <3> HIDE DEF b
    <3> QED
      BY <2>1, <2>3, <3>1, <3>2
  <2> QED
    BY <1>2, <2>2, <2>3
<1>5. TypeOK'
  BY <1>1, <1>2, <1>3, <1>4 DEF Inv, TypeOK
<1>6. \A x \in Messages : Accounted(x) => Accounted(x)'
  BY <1>1, <1>2, BrokerGains
<1>7. MarkSent(r, m) /\ ~MarkFailed(r, m) => Accounted(m)'
  BY <1>2 DEF Accounted, OutOf
<1>8. ASSUME NEW x \in Messages PROVE SentInv(x)'
  <2>1. CASE MarkFailed(r, m)
    <3>1. \A s \in Relays : relay'[s].sent = relay[s].sent
      BY <1>1, <2>1 DEF MarkFailed, Inv, TypeOK, Batches
    <3> QED
      BY <1>1, <1>6, <3>1 DEF Inv, SentInv
  <2>2. CASE MarkSent(r, m) /\ ~MarkFailed(r, m)
    BY <1>1, <1>4, <1>6, <1>7, <2>2 DEF Inv, SentInv
  <2> QED
    BY <1>2, <2>1, <2>2
<1> QED
  BY <1>1, <1>5, <1>8, NotConsumers DEF Inv

LEMMA CommitInv == ASSUME Inv, NEW r \in Relays, Commit(r) PROVE Inv'
<1>1. UNCHANGED <<brokerVars, consumerVars, storeVars, dropped, faults>>
  BY DEF Commit
<1>2. \A x \in Messages : row'[x] = CASE x \in relay[r].sent   -> "PUBLISHED"
                                      [] x \in relay[r].failed -> "PENDING"
                                      [] OTHER                 -> row[x]
  BY DEF Commit, FailedStatus
<1>3. /\ row' \in [Messages -> {"absent", "PENDING", "PUBLISHED"}]
      /\ \A x \in Messages : row'[x] = "PUBLISHED" => x \in relay[r].sent \/ row[x] = "PUBLISHED"
  <2>1. row \in [Messages -> {"absent", "PENDING", "PUBLISHED"}]
    BY DEF Inv, TypeOK
  <2>2. \A x \in Messages : /\ row'[x] \in {"absent", "PENDING", "PUBLISHED"}
                            /\ row'[x] = "PUBLISHED" => x \in relay[r].sent \/ row[x] = "PUBLISHED"
    BY <1>2, <2>1
  <2>3. \E f : row' = [x \in Messages |-> f[x]]
    BY DEF Commit
  <2> QED
    BY <2>2, <2>3
<1>4. relay' \in [Relays -> Batches] /\ \A s \in Relays : relay'[s].sent \subseteq relay[s].sent
  BY DEF Commit, Inv, TypeOK, NoBatch, Batches
<1>5. TypeOK'
  BY <1>1, <1>3, <1>4 DEF Inv, TypeOK
<1>6. \A x \in Messages : Accounted(x)' <=> Accounted(x)
  BY <1>1 DEF Accounted, Processing
<1>7. \A x \in Messages : SentInv(x)'
  BY <1>3, <1>4, <1>6 DEF Inv, SentInv
<1> QED
  BY <1>1, <1>5, <1>7, NotConsumers DEF Inv

LEMMA RollbackInv == ASSUME Inv, NEW r \in Relays, Rollback(r) PROVE Inv'
<1>1. UNCHANGED <<row, brokerVars, consumerVars, storeVars, dropped>>
  BY DEF Rollback
<1>2. relay' \in [Relays -> Batches] /\ \A s \in Relays : relay'[s].sent \subseteq relay[s].sent
  BY DEF Rollback, Inv, TypeOK, NoBatch, Batches
<1>3. TypeOK'
  BY <1>1, <1>2, FaultAssumption DEF Rollback, Fault, Inv, TypeOK
<1>4. \A x \in Messages : Accounted(x)' <=> Accounted(x)
  BY <1>1 DEF Accounted, Processing
<1>5. \A x \in Messages : SentInv(x)'
  BY <1>1, <1>2, <1>4 DEF Inv, SentInv
<1> QED
  BY <1>1, <1>3, <1>5, NotConsumers DEF Inv

----------------------------------------------------------------------------
(* Consumers *)

LEMMA DocsFacts ==
    ASSUME Inv, NEW m \in Messages
    PROVE  /\ IsFiniteSet(Inserting(m)) /\ Cardinality(Inserting(m)) \in Nat /\ Cardinality(Consumers) \in Nat
           /\ audit[m] \in Nat /\ audit[m] + Cardinality(Inserting(m)) <= Cardinality(Consumers)
<1>1. Inserting(m) \in SUBSET Consumers
  BY DEF Inserting
<1>2. IsFiniteSet(Inserting(m)) /\ Cardinality(Inserting(m)) \in Nat /\ Cardinality(Consumers) \in Nat
  BY <1>1, ConsumerAssumption, FS_Subset, FS_CardinalityType
<1> QED
  BY <1>2 DEF Inv, TypeOK, DocsInv

\* No consumer joins those that insert, and no document is added.
LEMMA DocsKept ==
    ASSUME Inv, UNCHANGED audit,
           \A k \in Consumers : step'[k] = "insert" => step[k] = "insert" /\ holds'[k] = holds[k]
    PROVE  \A m \in Messages : DocsInv(m)'
<1> SUFFICES ASSUME NEW m \in Messages PROVE DocsInv(m)'
  OBVIOUS
<1>1. Inserting(m)' \in SUBSET Inserting(m)
  BY DEF Inserting
<1>2. Cardinality(Inserting(m)') <= Cardinality(Inserting(m)) /\ Cardinality(Inserting(m)') \in Nat
  BY <1>1, DocsFacts, FS_Subset, FS_CardinalityType
<1> QED
  BY <1>2, DocsFacts DEF DocsInv

LEMMA ConnectInv == ASSUME Inv, NEW k \in Consumers, Connect(k) PROVE Inv'
<1>1. TypeOK'
  BY DEF Inv, TypeOK, Connect
<1>2. \A j \in Consumers : step'[j] = IF j = k THEN "ready" ELSE step[j]
  BY DEF Inv, TypeOK, Connect
<1>3. IndexInv' /\ \A j \in Consumers : HoldInv(j)'
  BY <1>2 DEF Inv, Connect, IndexInv, HoldInv
<1>4. \A m \in Messages : Accounted(m) => Accounted(m)'
  BY <1>2 DEF Connect, Accounted, Processing
<1>5. \A m \in Messages : DocsInv(m)'
  BY <1>2, DocsKept DEF Connect
<1> QED
  BY <1>1, <1>3, <1>4, <1>5, NotRelays DEF Inv, Connect

LEMMA DeliverInv == ASSUME Inv, NEW k \in Consumers, NEW m \in Messages, Deliver(k, m) PROVE Inv'
<1> DEFINE w == IF handle[k] THEN "match" ELSE "open"
<1>0. copies[m] \in 1 .. MaxCopies /\ copies[m] - 1 \in 0 .. MaxCopies
  BY RelayAssumption DEF Deliver, Inv, TypeOK
<1>1. /\ \A j \in Consumers : step'[j] = IF j = k THEN w ELSE step[j]
      /\ \A j \in Consumers : holds'[j] = IF j = k THEN m ELSE holds[j]
      /\ \A x \in Messages : copies'[x] = IF x = m THEN copies[m] - 1 ELSE copies[x]
      /\ UNCHANGED <<relayVars, bound, handle, storeVars, dropped, faults>>
  BY DEF Inv, TypeOK, Deliver
<1>2. TypeOK'
  BY <1>0 DEF Inv, TypeOK, Deliver
<1>3. IndexInv' /\ \A j \in Consumers : HoldInv(j)'
  BY <1>1 DEF Inv, IndexInv, HoldInv
<1>4. \A x \in Messages : Accounted(x) => Accounted(x)'
  <2>1. Processing(m)'
    BY <1>1 DEF Processing
  <2>2. \A x \in Messages : Processing(x) => Processing(x)'
    BY <1>1 DEF Processing, Deliver
  <2> QED
    BY <1>1, <2>1, <2>2 DEF Accounted
<1>5. \A x \in Messages : DocsInv(x)'
  BY <1>1, DocsKept
<1> QED
  BY <1>1, <1>2, <1>3, <1>4, <1>5, NotRelays DEF Inv

\* GiveUp leaves the message to the history of what was let go; whatever else a
\* consumer does with it keeps it in processing.
LEMMA StepFacts ==
    ASSUME Inv, NEW k \in Consumers, step[k] \in {"open", "match", "insert"},
           NEW w \in {"match", "insert", "ack"}, step' = [step EXCEPT ![k] = w],
           UNCHANGED <<holds, copies>>, dropped \subseteq dropped',
           \A m \in Messages : audit[m] > 0 => audit'[m] > 0,
           w = "ack" => holds[k] \in dropped' \/ audit'[holds[k]] > 0
    PROVE  /\ \A j \in Consumers : step'[j] = IF j = k THEN w ELSE step[j]
           /\ step' \in [Consumers -> {"down", "ready", "open", "match", "insert", "ack"}]
           /\ \A m \in Messages : Accounted(m) => Accounted(m)'
<1>1. \A j \in Consumers : step'[j] = IF j = k THEN w ELSE step[j]
  BY DEF Inv, TypeOK
<1>2. step' \in [Consumers -> {"down", "ready", "open", "match", "insert", "ack"}]
  BY DEF Inv, TypeOK
<1>3. ASSUME NEW m \in Messages, Processing(m) PROVE Accounted(m)'
  <2>1. PICK j \in Consumers : holds[j] = m /\ step[j] \in {"open", "match", "insert"}
    BY <1>3 DEF Processing
  <2>2. CASE j = k /\ w = "ack"
    BY <2>1, <2>2 DEF Accounted
  <2>3. CASE ~(j = k /\ w = "ack")
    <3>1. holds'[j] = m /\ step'[j] \in {"open", "match", "insert"}
      BY <1>1, <2>1, <2>3
    <3> QED
      BY <3>1 DEF Accounted, Processing
  <2> QED
    BY <2>2, <2>3
<1>4. \A m \in Messages : Accounted(m) => Accounted(m)'
  BY <1>3 DEF Accounted
<1> QED
  BY <1>1, <1>2, <1>4

\* The handle comes with the index, or with the history that says it does not.
LEMMA OpenCollectionInv == ASSUME Inv, NEW k \in Consumers, OpenCollection(k) PROVE Inv'
<1>0. step[k] = "open" /\ holds[k] \in Messages /\ UNCHANGED <<relayVars, brokerVars, holds, audit>>
  BY DEF OpenCollection, Inv, HoldInv
<1>1. PICK w \in {"match", "ack"} : step' = [step EXCEPT ![k] = w]
  BY DEF OpenCollection, CreateIndex, GiveUp
<1>2. /\ dropped \subseteq dropped' /\ dropped' \in SUBSET Messages
      /\ step' = [step EXCEPT ![k] = "match"] \/ holds[k] \in dropped'
  BY <1>0 DEF OpenCollection, CreateIndex, GiveUp, Inv, TypeOK
<1>3. w = "ack" => holds[k] \in dropped'
  <2>1. step'[k] = w
    BY <1>1 DEF Inv, TypeOK
  <2>2. step' = [step EXCEPT ![k] = "match"] => step'[k] = "match"
    BY DEF Inv, TypeOK
  <2> QED
    BY <1>2, <2>1, <2>2
<1>4. /\ \A j \in Consumers : step'[j] = IF j = k THEN w ELSE step[j]
      /\ step' \in [Consumers -> {"down", "ready", "open", "match", "insert", "ack"}]
      /\ \A m \in Messages : Accounted(m) => Accounted(m)'
  BY <1>0, <1>1, <1>2, <1>3, StepFacts
<1>5. /\ faults' \in 0 .. MaxFaults /\ unique' \in BOOLEAN /\ blind' \in BOOLEAN
  <2>1. faults' = faults \/ (faults < MaxFaults /\ faults' = faults + 1)
    BY DEF OpenCollection, CreateIndex, Fault
  <2>2. faults' \in 0 .. MaxFaults
    BY <2>1, FaultAssumption DEF Inv, TypeOK
  <2>3. Duplicated \in BOOLEAN
    BY DEF Duplicated
  <2>4. unique' = TRUE \/ unique' = unique \/ unique' = ~Duplicated
    BY DEF OpenCollection, CreateIndex
  <2>5. unique' \in BOOLEAN
    BY <2>3, <2>4 DEF Inv, TypeOK
  <2>6. blind' = TRUE \/ blind' = blind
    BY DEF OpenCollection, CreateIndex
  <2> QED
    BY <2>2, <2>5, <2>6 DEF Inv, TypeOK
<1>6. /\ handle' \in [Consumers -> BOOLEAN]
      /\ \A j \in Consumers : handle'[j] = (j = k \/ handle[j])
  BY DEF OpenCollection, Inv, TypeOK
<1>7. TypeOK'
  BY <1>0, <1>2, <1>4, <1>5, <1>6 DEF Inv, TypeOK
<1>8. \A j \in Consumers : HoldInv(j)'
  BY <1>0, <1>4, <1>6 DEF Inv, HoldInv
<1>9. ~Duplicated => \A m \in Messages : audit[m] <= 1
  <2>1. \A m \in Messages : audit[m] \in Nat
    BY DocsFacts
  <2> QED
    BY <2>1 DEF Duplicated
<1>10. IndexInv'
  <2>1. unique => ~Duplicated
    <3>1. \A m \in Messages : audit[m] \in Nat
      BY DocsFacts
    <3> QED
      BY <3>1 DEF Inv, IndexInv, Duplicated
  <2>2. CASE ~Duplicated /\ unique' = TRUE /\ UNCHANGED blind
    BY <1>0, <1>9, <2>2 DEF IndexInv
  <2>3. CASE Duplicated /\ blind' = TRUE /\ UNCHANGED unique
    BY <2>1, <2>3 DEF IndexInv
  <2>4. CASE unique' \in {unique, ~Duplicated} /\ blind' = TRUE
    <3>1. unique' => ~Duplicated
      BY <2>1, <2>4 DEF Inv, TypeOK
    <3> QED
      BY <1>0, <1>9, <2>4, <3>1 DEF IndexInv
  <2> QED
    BY <2>2, <2>3, <2>4 DEF OpenCollection, CreateIndex
<1>11. \A m \in Messages : DocsInv(m)'
  BY <1>0, <1>4, DocsKept
<1> QED
  BY <1>0, <1>4, <1>7, <1>8, <1>10, <1>11, NotRelays DEF Inv

\* Consumers go to the insert only while there is no document.
LEMMA MatchInv == ASSUME Inv, NEW k \in Consumers, Match(k) PROVE Inv'
<1>0. step[k] = "match" /\ holds[k] \in Messages /\ handle[k]
      /\ UNCHANGED <<relayVars, brokerVars, holds, handle, storeVars>>
  BY DEF Match, Inv, HoldInv
<1>1. PICK w \in {"insert", "ack"} :
        /\ step' = [step EXCEPT ![k] = w] /\ dropped \subseteq dropped' /\ dropped' \in SUBSET Messages
        /\ w = "ack" => holds[k] \in dropped' \/ audit[holds[k]] > 0
        /\ w = "insert" => ~(audit[holds[k]] > 0)
  <2>1. CASE step' = [step EXCEPT ![k] = Upsert(holds[k])] /\ UNCHANGED <<dropped, faults>>
    BY <2>1 DEF Upsert, Inv, TypeOK
  <2>2. CASE GiveUp(k)
    BY <1>0, <2>2 DEF GiveUp, Inv, TypeOK
  <2> QED
    BY <2>1, <2>2 DEF Match
<1>2. /\ \A j \in Consumers : step'[j] = IF j = k THEN w ELSE step[j]
      /\ step' \in [Consumers -> {"down", "ready", "open", "match", "insert", "ack"}]
      /\ \A m \in Messages : Accounted(m) => Accounted(m)'
  <2>1. UNCHANGED <<holds, copies, audit>>
    BY <1>0
  <2> QED
    BY <1>0, <1>1, <2>1, StepFacts
<1>3. TypeOK'
  BY <1>0, <1>1, <1>2, FaultAssumption DEF Match, Fault, Inv, TypeOK
<1>4. IndexInv' /\ \A j \in Consumers : HoldInv(j)'
  BY <1>0, <1>2 DEF Inv, IndexInv, HoldInv
<1>5. ASSUME NEW m \in Messages PROVE DocsInv(m)'
  <2>1. CASE w = "insert" /\ m = holds[k]
    <3>1. audit'[m] = 0
      BY <1>0, <1>1, <2>1, DocsFacts
    <3>2. Inserting(m)' \in SUBSET Consumers
      BY DEF Inserting
    <3>3. Cardinality(Inserting(m)') <= Cardinality(Consumers) /\ Cardinality(Inserting(m)') \in Nat
      BY <3>2, ConsumerAssumption, FS_Subset, FS_CardinalityType
    <3> QED
      BY <3>1, <3>3 DEF DocsInv
  <2>2. CASE ~(w = "insert" /\ m = holds[k])
    <3>1. Inserting(m)' = Inserting(m)
      BY <1>0, <1>2, <2>2 DEF Inserting
    <3> QED
      BY <1>0, <3>1 DEF Inv, DocsInv
  <2> QED
    BY <2>1, <2>2
<1> QED
  BY <1>0, <1>2, <1>3, <1>4, <1>5, NotRelays DEF Inv

\* The insert itself: with the index a second one fails, and without blindness
\* there is an index.
LEMMA InsertInv == ASSUME Inv, NEW k \in Consumers, Insert(k) PROVE Inv'
<1>0. PICK h \in Messages : h = holds[k]
  BY DEF Insert, Inv, HoldInv
<1>1. /\ step[k] = "insert" /\ handle[k]
      /\ UNCHANGED <<relayVars, brokerVars, holds, handle, unique, blind>>
  BY DEF Insert, Inv, HoldInv
<1>2. /\ \A m \in Messages : m # h => audit'[m] = audit[m]
      /\ audit'[h] = IF unique /\ audit[h] > 0 THEN audit[h] ELSE audit[h] + 1
      /\ audit' = [audit EXCEPT ![h] = audit'[h]]
  BY <1>0 DEF Insert, Inv, TypeOK
<1>3. \A m \in Messages : audit[m] \in Nat
  BY DocsFacts
<1>4. audit'[h] > 0 /\ (\A m \in Messages : audit[m] > 0 => audit'[m] > 0)
  BY <1>2, <1>3
<1>5. step' = [step EXCEPT ![k] = "ack"] /\ dropped \subseteq dropped' /\ dropped' \in SUBSET Messages
  BY <1>0 DEF Insert, GiveUp, Inv, TypeOK
<1>6. /\ \A j \in Consumers : step'[j] = IF j = k THEN "ack" ELSE step[j]
      /\ step' \in [Consumers -> {"down", "ready", "open", "match", "insert", "ack"}]
      /\ \A m \in Messages : Accounted(m) => Accounted(m)'
  BY <1>0, <1>1, <1>4, <1>5, StepFacts
<1>7. ASSUME NEW m \in Messages PROVE DocsInv(m)' /\ audit'[m] \in 0 .. Cardinality(Consumers)
  <2>0. /\ IsFiniteSet(Inserting(m)) /\ Cardinality(Inserting(m)) \in Nat /\ Cardinality(Consumers) \in Nat
        /\ audit[m] \in Nat /\ audit[m] + Cardinality(Inserting(m)) <= Cardinality(Consumers)
    BY DocsFacts
  <2>1. CASE m # h
    <3>1. Inserting(m)' = Inserting(m)
      BY <1>0, <1>1, <1>6, <2>1 DEF Inserting
    <3> QED
      BY <1>2, <2>0, <2>1, <3>1 DEF DocsInv
  <2>2. CASE m = h
    <3>1. Inserting(m)' = Inserting(m) \ {k} /\ k \in Inserting(m)
      BY <1>0, <1>1, <1>6, <2>2 DEF Inserting
    <3>2. Cardinality(Inserting(m) \ {k}) = Cardinality(Inserting(m)) - 1
      BY <2>0, <3>1, FS_RemoveElement
    <3>3. IsFiniteSet(Inserting(m) \ {k}) /\ Cardinality(Inserting(m) \ {k}) \in Nat
      BY <2>0, FS_RemoveElement, FS_CardinalityType
    <3>4. audit'[m] \in Nat /\ audit'[m] <= audit[m] + 1
      BY <1>2, <2>0, <2>2
    <3> QED
      BY <2>0, <3>1, <3>2, <3>3, <3>4 DEF DocsInv
  <2> QED
    BY <2>1, <2>2
<1>8. TypeOK'
  <2>1. audit' \in [Messages -> 0 .. Cardinality(Consumers)]
    BY <1>2, <1>7 DEF Inv, TypeOK
  <2>2. faults' \in 0 .. MaxFaults
    BY FaultAssumption DEF Insert, Fault, Inv, TypeOK
  <2> QED
    BY <1>1, <1>5, <1>6, <2>1, <2>2 DEF Inv, TypeOK
<1>9. IndexInv'
  <2>1. unique => audit'[h] <= 1
    BY <1>2, <1>3 DEF Inv, IndexInv
  <2>2. ~blind => unique
    BY <1>1 DEF Inv, IndexInv
  <2> QED
    BY <1>1, <1>2, <2>1, <2>2 DEF Inv, IndexInv
<1>10. \A j \in Consumers : HoldInv(j)'
  BY <1>0, <1>1, <1>6 DEF Inv, HoldInv
<1> QED
  BY <1>1, <1>6, <1>7, <1>8, <1>9, <1>10, NotRelays DEF Inv

LEMMA AckInv == ASSUME Inv, NEW k \in Consumers, Ack(k) PROVE Inv'
<1>1. /\ \A j \in Consumers : step'[j] = IF j = k THEN "ready" ELSE step[j]
      /\ \A j \in Consumers : j # k => holds'[j] = holds[j]
      /\ step[k] = "ack" /\ UNCHANGED <<relayVars, brokerVars, handle, storeVars, dropped, faults>>
  BY DEF Ack, Inv, TypeOK
<1>2. TypeOK'
  BY DEF Ack, Inv, TypeOK
<1>3. IndexInv' /\ \A j \in Consumers : HoldInv(j)'
  BY <1>1 DEF Inv, IndexInv, HoldInv
<1>4. \A m \in Messages : Processing(m) => Processing(m)'
  BY <1>1 DEF Processing
<1>5. \A m \in Messages : Accounted(m) => Accounted(m)'
  BY <1>1, <1>4 DEF Accounted
<1>6. \A m \in Messages : DocsInv(m)'
  BY <1>1, DocsKept
<1> QED
  BY <1>1, <1>2, <1>3, <1>5, <1>6, NotRelays DEF Inv

\* What a consumer had not acknowledged is in the queue again.
LEMMA DisconnectInv == ASSUME Inv, NEW k \in Consumers, Disconnect(k) PROVE Inv'
<1>1. /\ \A j \in Consumers : step'[j] = IF j = k THEN "down" ELSE step[j]
      /\ \A j \in Consumers : j # k => holds'[j] = holds[j]
      /\ \A j \in Consumers : handle'[j] => handle[j]
      /\ \A j \in Consumers : j # k => handle'[j] = handle[j]
      /\ handle' \in [Consumers -> BOOLEAN]
      /\ UNCHANGED <<relayVars, bound, storeVars, dropped>>
  BY DEF Disconnect, Inv, TypeOK
<1>2. /\ copies' \in [Messages -> 0 .. MaxCopies] /\ \A m \in Messages : copies[m] > 0 => copies'[m] > 0
      /\ holds[k] \in Messages => copies'[holds[k]] > 0
  <2>0. copies \in [Messages -> 0 .. MaxCopies] /\ MaxCopies \in Nat \ {0}
        /\ holds[k] \in Messages \cup {NoMessage} /\ copies' = Requeued(k)
    BY RelayAssumption DEF Disconnect, Inv, TypeOK
  <2>1. CASE holds[k] = NoMessage
    BY <2>0, <2>1, MessageAssumption DEF Requeued
  <2>2. CASE holds[k] \in Messages
    <3>1. PICK h \in Messages : h = holds[k]
      BY <2>2
    <3>2. copies' = [copies EXCEPT ![h] = IF @ < MaxCopies THEN @ + 1 ELSE @]
      BY <2>0, <2>2, <3>1, MessageAssumption DEF Requeued
    <3>3. \A m \in Messages : copies'[m] = IF m = h THEN (IF copies[h] < MaxCopies THEN copies[h] + 1 ELSE copies[h])
                                           ELSE copies[m]
      BY <2>0, <3>2
    <3>4. copies' \in [Messages -> 0 .. MaxCopies]
      BY <2>0, <3>2
    <3> QED
      BY <2>0, <3>1, <3>3, <3>4
  <2> QED
    BY <2>0, <2>1, <2>2
<1>3. TypeOK'
  <2>1. faults' \in 0 .. MaxFaults
    BY FaultAssumption DEF Disconnect, Fault, Inv, TypeOK
  <2>2. holds' \in [Consumers -> Messages \cup {NoMessage}]
        /\ step' \in [Consumers -> {"down", "ready", "open", "match", "insert", "ack"}]
    BY DEF Disconnect, Inv, TypeOK
  <2> QED
    BY <1>1, <1>2, <2>1, <2>2 DEF Inv, TypeOK
<1>4. IndexInv' /\ \A j \in Consumers : HoldInv(j)'
  BY <1>1 DEF Inv, IndexInv, HoldInv
<1>5. ASSUME NEW m \in Messages, Processing(m) PROVE Accounted(m)'
  <2>1. PICK j \in Consumers : holds[j] = m /\ step[j] \in {"open", "match", "insert"}
    BY <1>5 DEF Processing
  <2>2. CASE j = k
    BY <1>2, <2>1, <2>2 DEF Accounted
  <2>3. CASE j # k
    BY <1>1, <2>1, <2>3 DEF Accounted, Processing
  <2> QED
    BY <2>2, <2>3
<1>6. \A m \in Messages : Accounted(m) => Accounted(m)'
  BY <1>1, <1>2, <1>5 DEF Accounted
<1>7. \A m \in Messages : DocsInv(m)'
  BY <1>1, DocsKept
<1> QED
  BY <1>1, <1>3, <1>4, <1>6, <1>7, NotRelays DEF Inv

LEMMA NextInv == Inv /\ [Next]_vars => Inv'
<1> SUFFICES ASSUME Inv, [Next]_vars PROVE Inv'
  OBVIOUS
<1>1. CASE UNCHANGED vars
  <2>1. TypeOK'
    BY <1>1 DEF vars, Inv, TypeOK
  <2>2. \A m \in Messages : Accounted(m)' <=> Accounted(m)
    BY <1>1 DEF vars, Accounted, Processing
  <2> QED
    BY <1>1, <2>1, <2>2, NotConsumers, NotRelays DEF vars, Inv
<1> QED
  BY <1>1, EnqueueInv, PollInv, SendInv, CommitInv, RollbackInv, ConnectInv, DeliverInv, OpenCollectionInv,
     MatchInv, InsertInv, AckInv, DisconnectInv DEF Next, Consume

----------------------------------------------------------------------------

LEMMA SpecInv == Spec => []Inv
BY InitInv, NextInv, PTL DEF Spec

\* Rows, batches, queue and consumers stay well formed; in particular no message
\* ever has more documents than there are consumers, index or not.
THEOREM SpecTypeOK == Spec => []TypeOK
<1>1. Inv => TypeOK
  BY DEF Inv
<1> QED
  BY <1>1, SpecInv, PTL

\* A row marked PUBLISHED stands for a message that is queued, being processed,
\* stored, or known to have been let go.
THEOREM SpecPublishedIsAccounted == Spec => []PublishedIsAccounted
<1>1. Inv => PublishedIsAccounted
  BY DEF Inv, SentInv, Accounted, PublishedIsAccounted
<1> QED
  BY <1>1, SpecInv, PTL

\* A message has two documents only where a process kept its handle after
\* create_index had failed and no index was made since.
THEOREM SpecAuditedOnce == Spec => []AuditedOnce
<1>1. ASSUME Inv PROVE AuditedOnce
  <2>1. \A m \in Messages : audit[m] \in Nat
    BY <1>1, DocsFacts
  <2> QED
    BY <1>1, <2>1 DEF Inv, IndexInv, AuditedOnce
<1> QED
  BY <1>1, SpecInv, PTL

----------------------------------------------------------------------------
(* The smoke tests *)

Running(s) == script[s].outcome = "running"

\* A script is at one of its calls, and has attempts left.
Positions == \A s \in Scripts :
    script[s].at \in 1 .. Len(Program[s]) /\ script[s].tries < Attempts

\* Ids are given out without gaps.
Dense == Orders = 1 .. Cardinality(Orders)

\* A script remembers exactly the orders it has placed, in the order of their ids.
OwnOrders == \A s \in Scripts :
    /\ \A i \in 1 .. Len(script[s].orders) :
          /\ script[s].orders[i] \in Orders /\ placed[script[s].orders[i]] = s
          /\ \A j \in 1 .. Len(script[s].orders) : i < j => script[s].orders[i] < script[s].orders[j]
    /\ \A o \in Orders : placed[o] = s => \E i \in 1 .. Len(script[s].orders) : script[s].orders[i] = o

\* No two scripts have a token in common, and only phase2 gives one back.
Tokens ==
    /\ revoked \subseteq 1 .. issued
    /\ \A s \in Scripts : script[s].user \in 0 .. issued /\ script[s].admin \in 0 .. issued
    /\ \A s, t \in Scripts : s # t /\ script[s].user # 0 =>
          script[s].user # script[t].user /\ script[s].user # script[t].admin
    /\ \A s \in Scripts : s # "phase2" => script[s].user \notin revoked /\ script[s].admin \notin revoked

\* phase2: its session before and after the logout.
Session(s) ==
    /\ script[s].at \in 2 .. 4 => script[s].user # 0
    /\ script[s].at \in {2, 3, 6} => script[s].user \notin revoked
    /\ script[s].at = 4 => script[s].user \in revoked

\* phase1: how many orders it has placed, and what has become of them.
PlacedBy(n) == IF n <= 3 THEN 0 ELSE IF n <= 5 THEN 1 ELSE IF n <= 8 THEN 2 ELSE 3

First(n) == IF n = 4 THEN "PAYING" ELSE "CANCELLED"
Second(n) == IF n = 6 THEN "PAYING" ELSE IF n = 7 THEN "PAID_PENDING_APPROVAL" ELSE "SHIPPING"
Third(n) == IF n = 9 THEN "PAYING" ELSE IF n = 10 THEN "PAID_PENDING_APPROVAL" ELSE "REJECTED"

\* An attempt to pay that timed out may have paid the order.
Paid(n, now) == n \in {6, 9} /\ now = "PAID_PENDING_APPROVAL"

Story(s) ==
    LET n == script[s].at
        mine == script[s].orders IN
    /\ Len(mine) = PlacedBy(n)
    /\ n >= 4 => status[mine[1]] = First(n)
    /\ n >= 6 => status[mine[2]] = Second(n) \/ (n = 6 /\ Paid(n, status[mine[2]]))
    /\ n >= 9 => status[mine[3]] = Third(n) \/ Paid(n, status[mine[3]])

Scene(s) == Running(s) =>
    /\ s = "phase2" => Session(s)
    /\ s = "phase1" => Story(s)

Scenes == \A s \in Scripts : Scene(s)

\* FailureExplained of one script.
Explained(s) ==
    /\ script[s].outcome # "401"
    /\ script[s].outcome = "expect" =>
          \/ Call(s).op = "create" /\ s \in {"mongodb", "rabbitmq"}
          \/ Call(s).op = "latest" /\ Disturbed(s)

TestsInv == TestsTypeOK /\ Positions /\ Dense /\ OwnOrders /\ Tokens /\ Scenes /\ FailureExplained

----------------------------------------------------------------------------
(* The scripts *)

LEMMA Lengths ==
  /\ Len(Program["phase1"]) = 12 /\ Len(Program["phase2"]) = 6
  /\ Len(Program["mongodb"]) = 2 /\ Len(Program["rabbitmq"]) = 1
<1>1. /\ Program["phase1"] = Phase1 /\ Program["phase2"] = Phase2
      /\ Program["mongodb"] = Mongodb /\ Program["rabbitmq"] = Rabbitmq
  BY DEF Program
<1>2. Len(Phase1) = 12
  BY DEF Phase1
<1>3. Len(Phase2) = 6
  BY DEF Phase2
<1>4. Len(Mongodb) = 2 /\ Len(Rabbitmq) = 1
  BY DEF Mongodb, Rabbitmq
<1> QED
  BY <1>1, <1>2, <1>3, <1>4

\* Where phase1 makes which call.
LEMMA Phase1Calls ==
  ASSUME NEW n \in 1 .. 12
  PROVE  /\ Program["phase1"][n].op = "login" <=> n \in {1, 2}
         /\ Program["phase1"][n].op = "create" <=> n \in {3, 5, 8}
         /\ Program["phase1"][n].op = "cancel" <=> n = 4
         /\ Program["phase1"][n].op = "pay" <=> n \in {6, 9}
         /\ Program["phase1"][n].op = "approve" <=> n = 7
         /\ Program["phase1"][n].op = "reject" <=> n = 10
         /\ Program["phase1"][n].op = "latest" <=> n = 11
         /\ Program["phase1"][n].op = "queue" <=> n = 12
         /\ Program["phase1"][n].op \notin {"me", "logout"}
<1>1. Program["phase1"] = Phase1
  BY DEF Program
<1>2. /\ Phase1[1].op = "login" /\ Phase1[2].op = "login" /\ Phase1[3].op = "create"
      /\ Phase1[4].op = "cancel" /\ Phase1[5].op = "create" /\ Phase1[6].op = "pay"
      /\ Phase1[7].op = "approve" /\ Phase1[8].op = "create" /\ Phase1[9].op = "pay"
      /\ Phase1[10].op = "reject" /\ Phase1[11].op = "latest" /\ Phase1[12].op = "queue"
  BY DEF Phase1, Do
<1>3. n \in {1, 2, 3, 4, 5, 6, 7, 8, 9, 10, 11, 12}
  OBVIOUS
<1> QED
  BY <1>1, <1>2, <1>3

\* What phase1 asks about and expects.
LEMMA Phase1Wants ==
  /\ Program["phase1"][1].about = "john_smith" /\ Program["phase1"][1].want = <<"USER">>
  /\ Program["phase1"][2].about = "admin" /\ Program["phase1"][2].want = <<"ADMIN">>
  /\ \A n \in {3, 5, 8} : Program["phase1"][n].want = <<"PAYING">>
  /\ Program["phase1"][4].about = 1 /\ Program["phase1"][4].want = <<"CANCELLED">>
  /\ Program["phase1"][6].about = 2 /\ Program["phase1"][6].want = <<"PAID_PENDING_APPROVAL">>
  /\ Program["phase1"][7].about = 2 /\ Program["phase1"][7].want = <<"SHIPPING">>
  /\ Program["phase1"][9].about = 3 /\ Program["phase1"][9].want = <<"PAID_PENDING_APPROVAL">>
  /\ Program["phase1"][10].about = 3 /\ Program["phase1"][10].want = <<"REJECTED">>
  /\ Program["phase1"][11].want = <<"REJECTED", "SHIPPING", "CANCELLED">>
  /\ Program["phase1"][12].want = {}
<1>1. Program["phase1"] = Phase1
  BY DEF Program
<1> QED
  BY <1>1 DEF Phase1, Do

LEMMA Phase2Calls ==
  /\ Program["phase2"][1].op = "login" /\ Program["phase2"][2].op = "me" /\ Program["phase2"][3].op = "logout"
  /\ Program["phase2"][4].op = "me" /\ Program["phase2"][5].op = "login" /\ Program["phase2"][6].op = "me"
<1>1. Program["phase2"] = Phase2
  BY DEF Program
<1> QED
  BY <1>1 DEF Phase2, Do

LEMMA Phase2Wants ==
  /\ Program["phase2"][1].about = "john_smith" /\ Program["phase2"][1].want = <<"USER">>
  /\ Program["phase2"][2].want = <<"200">> /\ Program["phase2"][3].want = <<"signed_out">>
  /\ Program["phase2"][4].want = <<"401">>
  /\ Program["phase2"][5].about = "john_smith" /\ Program["phase2"][5].want = <<"USER">>
  /\ Program["phase2"][6].want = <<"200">>
<1>1. Program["phase2"] = Phase2
  BY DEF Program
<1> QED
  BY <1>1 DEF Phase2, Do

LEMMA OlderCalls ==
  /\ Program["mongodb"][1] = Do("login", "john_smith", <<"USER">>)
  /\ Program["mongodb"][2] = Do("create", 1, <<"PENDING_APPROVAL">>)
  /\ Program["rabbitmq"][1] = Do("create", 1, <<"PENDING_APPROVAL">>)
<1>1. Program["mongodb"] = Mongodb /\ Program["rabbitmq"] = Rabbitmq
  BY DEF Program
<1> QED
  BY <1>1 DEF Mongodb, Rabbitmq

\* Which script makes which call, and where.
LEMMA WhoCalls ==
  ASSUME Positions, NEW s \in Scripts
  PROVE  LET n == script[s].at IN
         /\ s \in ScriptNames
         /\ s = "phase1" => n \in 1 .. 12
         /\ s = "phase2" => n \in 1 .. 6
         /\ s = "mongodb" => n \in 1 .. 2
         /\ s = "rabbitmq" => n = 1
         /\ Call(s).op = "login" => \/ s = "phase1" /\ n \in {1, 2}
                                    \/ s = "phase2" /\ n \in {1, 5}
                                    \/ s = "mongodb" /\ n = 1
         /\ Call(s).op = "me" => s = "phase2" /\ n \in {2, 4, 6}
         /\ Call(s).op = "logout" => s = "phase2" /\ n = 3
         /\ Call(s).op = "create" => \/ s = "phase1" /\ n \in {3, 5, 8}
                                     \/ s = "mongodb" /\ n = 2
                                     \/ s = "rabbitmq" /\ n = 1
         /\ Call(s).op = "cancel" => s = "phase1" /\ n = 4
         /\ Call(s).op = "pay" => s = "phase1" /\ n \in {6, 9}
         /\ Call(s).op = "approve" => s = "phase1" /\ n = 7
         /\ Call(s).op = "reject" => s = "phase1" /\ n = 10
         /\ Call(s).op = "latest" => s = "phase1" /\ n = 11
         /\ Call(s).op = "queue" => s = "phase1" /\ n = 12
<1> DEFINE n == script[s].at
<1>1. n \in 1 .. Len(Program[s]) /\ s \in ScriptNames
  BY ScriptAssumption DEF Positions
<1>2. Call(s) = Program[s][n]
  BY DEF Call
<1> HIDE DEF n
<1>3. CASE s = "phase1"
  <2>1. n \in 1 .. 12
    BY <1>1, <1>3, Lengths
  <2>2. Call(s) = Program["phase1"][n]
    BY <1>2, <1>3
  <2>3. /\ Call(s).op = "login" => n \in {1, 2}
        /\ Call(s).op = "create" => n \in {3, 5, 8}
        /\ Call(s).op = "cancel" => n = 4
        /\ Call(s).op = "pay" => n \in {6, 9}
        /\ Call(s).op = "approve" => n = 7
        /\ Call(s).op = "reject" => n = 10
        /\ Call(s).op = "latest" => n = 11
        /\ Call(s).op = "queue" => n = 12
        /\ Call(s).op # "me" /\ Call(s).op # "logout"
    BY <2>1, <2>2, Phase1Calls
  <2>4. s # "phase2" /\ s # "mongodb" /\ s # "rabbitmq"
    BY <1>3
  <2> QED
    BY <1>1, <1>3, <2>1, <2>3, <2>4 DEF n
<1>4. CASE s = "phase2"
  <2>1. n \in {1, 2, 3, 4, 5, 6}
    BY <1>1, <1>4, Lengths
  <2>2. Call(s) = Program["phase2"][n]
    BY <1>2, <1>4
  <2>3. /\ Call(s).op \in {"login", "me", "logout"}
        /\ Call(s).op = "login" => n \in {1, 5}
        /\ Call(s).op = "me" => n \in {2, 4, 6}
        /\ Call(s).op = "logout" => n = 3
    BY <2>1, <2>2, Phase2Calls
  <2> QED
    BY <1>1, <1>4, <2>1, <2>3 DEF n
<1>5. CASE s = "mongodb"
  <2>1. n \in {1, 2}
    BY <1>1, <1>5, Lengths
  <2> QED
    BY <1>1, <1>2, <1>5, <2>1, OlderCalls DEF n, Do
<1>6. CASE s = "rabbitmq"
  <2>1. n = 1
    BY <1>1, <1>6, Lengths
  <2> QED
    BY <1>1, <1>2, <1>6, <2>1, OlderCalls DEF n, Do
<1> QED
  BY <1>1, <1>3, <1>4, <1>5, <1>6 DEF ScriptNames

----------------------------------------------------------------------------
(* One script takes a step *)

\* The records of the other scripts stay as they are.
Only(s) ==
    /\ script' \in [Scripts -> ScriptRecs]
    /\ \A t \in Scripts : t # s => script'[t] = script[t]

\* expect() and what follows it.
LEMMA Judged ==
  ASSUME TestsTypeOK, NEW s \in Scripts, NEW now \in ScriptRecs, NEW answer, Judge(s, now, answer)
  PROVE  /\ Only(s)
         /\ answer # Call(s).want => script'[s] = [now EXCEPT !.outcome = "expect"]
         /\ answer = Call(s).want /\ now.at = Len(Program[s]) => script'[s] = [now EXCEPT !.outcome = "passed"]
         /\ answer = Call(s).want /\ now.at # Len(Program[s]) => script'[s] = [now EXCEPT !.at = now.at + 1]
<1> DEFINE next == IF answer # Call(s).want THEN [now EXCEPT !.outcome = "expect"]
                   ELSE IF now.at = Len(Program[s]) THEN [now EXCEPT !.outcome = "passed"]
                   ELSE [now EXCEPT !.at = now.at + 1]
<1>1. script' = [script EXCEPT ![s] = next]
  BY DEF Judge
<1>2. /\ [now EXCEPT !.outcome = "expect"] \in ScriptRecs
      /\ [now EXCEPT !.outcome = "passed"] \in ScriptRecs
      /\ [now EXCEPT !.at = now.at + 1] \in ScriptRecs
  BY DEF ScriptRecs, Outcomes
<1>3. next \in ScriptRecs
  BY <1>2
<1>4. script \in [Scripts -> ScriptRecs]
  BY DEF TestsTypeOK
<1>5. Only(s) /\ script'[s] = next
  <2> HIDE DEF next
  <2> QED
    BY <1>1, <1>3, <1>4 DEF Only
<1> QED
  BY <1>5

LEMMA Stopped ==
  ASSUME TestsTypeOK, NEW s \in Scripts, NEW how \in Outcomes, Stop(s, how)
  PROVE  Only(s) /\ script'[s] = [script[s] EXCEPT !.outcome = how]
BY DEF TestsTypeOK, Stop, Only, ScriptRecs

\* What a step of s leaves true of another script.
LEMMA Others ==
  ASSUME TestsInv, NEW s \in Scripts, Only(s), Orders \subseteq Orders',
         \A o \in Orders : placed'[o] = placed[o] /\ (placed[o] # s => status'[o] = status[o]),
         s # "phase2" => revoked' = revoked,
         NEW t \in Scripts, t # s
  PROVE  Scene(t)' /\ Explained(t)'
<1>0. script'[t] = script[t]
  BY DEF Only
<1>1. Disturbed(t) => Disturbed(t)'
  BY <1>0 DEF Disturbed
<1>2. Call(t)' = Call(t)
  BY <1>0 DEF Call
<1>3. Explained(t)'
  BY <1>0, <1>1, <1>2 DEF TestsInv, FailureExplained, Explained
<1>4. ASSUME Running(t), t = "phase2" PROVE Session(t)'
  BY <1>0, <1>4 DEF TestsInv, Scenes, Scene, Session
<1>5. ASSUME Running(t), t = "phase1" PROVE Story(t)'
  <2>1. Story(t)
    BY <1>5 DEF TestsInv, Scenes, Scene
  <2>2. ASSUME NEW i \in 1 .. Len(script[t].orders)
        PROVE  status'[script[t].orders[i]] = status[script[t].orders[i]]
    BY <2>2 DEF TestsInv, OwnOrders
  <2>3. script[t].at \in 1 .. 12
    BY <1>5, WhoCalls DEF TestsInv
  <2>4. /\ script[t].at >= 4 => 1 \in 1 .. Len(script[t].orders)
        /\ script[t].at >= 6 => 2 \in 1 .. Len(script[t].orders)
        /\ script[t].at >= 9 => 3 \in 1 .. Len(script[t].orders)
    BY <2>1, <2>3 DEF Story, PlacedBy
  <2> QED
    BY <1>0, <2>1, <2>2, <2>3, <2>4 DEF Story
<1> QED
  BY <1>0, <1>3, <1>4, <1>5 DEF Scene, Running

\* A step that places no order keeps what is known of the ids.
LEMMA SameOrders ==
  ASSUME TestsInv, Orders' = Orders, UNCHANGED placed,
         \A t \in Scripts : script'[t].orders = script[t].orders
  PROVE  Dense' /\ OwnOrders'
<1>1. Dense'
  BY DEF TestsInv, Dense
<1>2. ASSUME NEW t \in Scripts
      PROVE  /\ \A i \in 1 .. Len(script'[t].orders) :
                /\ script'[t].orders[i] \in Orders' /\ placed'[script'[t].orders[i]] = t
                /\ \A j \in 1 .. Len(script'[t].orders) : i < j => script'[t].orders[i] < script'[t].orders[j]
             /\ \A o \in Orders' : placed'[o] = t => \E i \in 1 .. Len(script'[t].orders) : script'[t].orders[i] = o
  BY <1>2 DEF TestsInv, OwnOrders
<1> QED
  BY <1>1, <1>2 DEF OwnOrders

\* A step without a login or a logout.
LEMMA SameTokens ==
  ASSUME TestsInv, UNCHANGED <<issued, revoked>>,
         \A t \in Scripts : script'[t].user = script[t].user /\ script'[t].admin = script[t].admin
  PROVE  Tokens'
BY DEF TestsInv, Tokens

\* The invariant after a step of s, from its parts.
LEMMA Assemble ==
  ASSUME TestsInv, NEW s \in Scripts, Only(s), Orders \subseteq Orders',
         \A o \in Orders : placed'[o] = placed[o] /\ (placed[o] # s => status'[o] = status[o]),
         s # "phase2" => revoked' = revoked,
         script'[s].at \in 1 .. Len(Program[s]), script'[s].tries < Attempts,
         TestsTypeOK', Dense', OwnOrders', Tokens', Scene(s)', Explained(s)'
  PROVE  TestsInv'
<1>1. Positions'
  BY DEF TestsInv, Positions, Only
<1>2. ASSUME NEW t \in Scripts PROVE Scene(t)' /\ Explained(t)'
  BY <1>2, Others
<1>3. Scenes'
  BY <1>2 DEF Scenes
<1>4. FailureExplained'
  BY <1>2 DEF FailureExplained, Explained
<1> QED
  BY <1>1, <1>3, <1>4 DEF TestsInv

\* The types after a step that leaves the orders alone.
LEMMA SameOrderTypes ==
  ASSUME TestsTypeOK, NEW s \in Scripts, Only(s), UNCHANGED orderVars,
         issued' \in Nat, revoked' \subseteq Nat, logins' \in Nat
  PROVE  TestsTypeOK' /\ Orders' = Orders /\ UNCHANGED <<status, placed>>
BY DEF TestsTypeOK, Only, orderVars, Order!TypeOK, Orders

\* A script that is refused, or gives up, stops and explains nothing.
LEMMA StopInv ==
  ASSUME TestsInv, NEW s \in Scripts, NEW how \in {"400", "429", "504"}, Stop(s, how),
         UNCHANGED <<orderVars, sessionVars>>, logins' \in Nat
  PROVE  TestsInv'
<1>0. TestsTypeOK
  BY DEF TestsInv
<1>1. Only(s) /\ script'[s] = [script[s] EXCEPT !.outcome = how]
  BY <1>0, Stopped DEF Outcomes
<1>2. script[s] \in ScriptRecs
  BY <1>0 DEF TestsTypeOK
<1>3. /\ script'[s].at = script[s].at /\ script'[s].orders = script[s].orders
      /\ script'[s].user = script[s].user /\ script'[s].admin = script[s].admin
      /\ script'[s].outcome = how /\ script'[s].tries = script[s].tries
  BY <1>1, <1>2 DEF ScriptRecs
<1>4. UNCHANGED <<issued, revoked>>
  BY DEF sessionVars
<1>5. TestsTypeOK' /\ Orders' = Orders /\ UNCHANGED <<status, placed>>
  BY <1>0, <1>1, <1>4, SameOrderTypes DEF TestsTypeOK
<1>6. ASSUME NEW t \in Scripts
      PROVE  /\ script'[t].orders = script[t].orders
             /\ script'[t].user = script[t].user /\ script'[t].admin = script[t].admin
  BY <1>1, <1>3 DEF Only
<1>7. Dense' /\ OwnOrders'
  BY <1>5, <1>6, SameOrders
<1>8. Tokens'
  BY <1>4, <1>6, SameTokens
<1>9. Scene(s)' /\ Explained(s)'
  BY <1>3 DEF Scene, Running, Explained
<1>10. script'[s].at \in 1 .. Len(Program[s]) /\ script'[s].tries < Attempts
  BY <1>3 DEF TestsInv, Positions
<1> QED
  BY <1>1, <1>4, <1>5, <1>7, <1>8, <1>9, <1>10, Assemble

----------------------------------------------------------------------------
(* Sessions *)

\* A call that brings the expected answer, and is not the last, changes at.
LEMMA LoginInv == ASSUME TestsInv, NEW s \in Scripts, Login(s) PROVE TestsInv'
<1>0. TestsTypeOK /\ Positions /\ Tokens /\ Scene(s) /\ Running(s) /\ Call(s).op = "login"
  BY DEF TestsInv, Scenes, Login, At, Running
<1>1. UNCHANGED <<orderVars, revoked>> /\ logins' \in Nat
  BY <1>0 DEF Login, TestsTypeOK
<1>2. CASE WindowFull
  BY <1>1, <1>2, StopInv DEF Login, sessionVars
<1>3. CASE ~WindowFull
  <2> DEFINE n == script[s].at
             who == Call(s).about
             token == issued + 1
             now == IF Role(who) = "ADMIN" THEN [script[s] EXCEPT !.admin = token]
                    ELSE [script[s] EXCEPT !.user = token]
  <2>1. /\ Judge(s, now, <<Role(who)>>)
        /\ issued' = issued + 1
    BY <1>3 DEF Login, NewToken
  <2>2. \/ s = "phase1" /\ n \in {1, 2}
        \/ s = "phase2" /\ n \in {1, 5}
        \/ s = "mongodb" /\ n = 1
    BY <1>0, WhoCalls
  <2>3. /\ Call(s).want = <<Role(who)>> /\ n # Len(Program[s])
        /\ Role(who) = "ADMIN" => s = "phase1"
    <3>1. Role("john_smith") = "USER" /\ Role("admin") = "ADMIN"
      BY DEF Role
    <3>2. CASE s = "phase1" /\ n \in {1, 2}
      <4>1. Len(Program[s]) = 12
        BY <3>2, Lengths
      <4> QED
        BY <3>1, <3>2, <4>1, Phase1Wants DEF Call
    <3>3. CASE s = "phase2" /\ n \in {1, 5}
      <4>1. Len(Program[s]) = 6
        BY <3>3, Lengths
      <4> QED
        BY <3>1, <3>3, <4>1, Phase2Wants DEF Call
    <3>4. CASE s = "mongodb" /\ n = 1
      <4>1. Len(Program[s]) = 2
        BY <3>4, Lengths
      <4> QED
        BY <3>1, <3>4, <4>1, OlderCalls DEF Call, Do
    <3> QED
      BY <2>2, <3>2, <3>3, <3>4
  <2>4. script[s] \in ScriptRecs /\ issued \in Nat /\ token \in Nat
    BY <1>0 DEF TestsTypeOK
  <2>5. /\ now \in ScriptRecs /\ now.at = n /\ now.orders = script[s].orders /\ now.outcome = "running"
        /\ now.tries = script[s].tries
        /\ \/ now.admin = token /\ now.user = script[s].user /\ s = "phase1"
           \/ now.user = token /\ now.admin = script[s].admin
    <3>1. CASE Role(who) = "ADMIN"
      BY <1>0, <2>3, <2>4, <3>1 DEF ScriptRecs, Running
    <3>2. CASE Role(who) # "ADMIN"
      BY <1>0, <2>3, <2>4, <3>2 DEF ScriptRecs, Running
    <3> QED
      BY <3>1, <3>2
  <2>6. Only(s) /\ script'[s] = [now EXCEPT !.at = now.at + 1]
    <3> HIDE DEF now, who, n, token
    <3>1. PICK next \in ScriptRecs : next = now
      BY <2>5
    <3>2. PICK answer : answer = <<Role(who)>>
      OBVIOUS
    <3>3. Judge(s, next, answer)
      BY <2>1, <3>1, <3>2
    <3>4. Only(s) /\ (answer = Call(s).want /\ next.at # Len(Program[s]) => script'[s] = [next EXCEPT !.at = next.at + 1])
      <4>1. TestsTypeOK
        BY <1>0
      <4> QED
        BY <3>3, <4>1, Judged
    <3> QED
      BY <2>3, <2>5, <3>1, <3>2, <3>4
  <2> HIDE DEF now, who, n
  <2>7. /\ script'[s].at = n + 1 /\ script'[s].orders = script[s].orders /\ script'[s].outcome = "running"
        /\ script'[s].tries = script[s].tries
        /\ \/ script'[s].admin = token /\ script'[s].user = script[s].user /\ s = "phase1"
           \/ script'[s].user = token /\ script'[s].admin = script[s].admin
    BY <2>5, <2>6 DEF ScriptRecs
  <2>9. TestsTypeOK' /\ Orders' = Orders /\ UNCHANGED <<status, placed>>
    BY <1>0, <1>1, <2>1, <2>4, <2>6, SameOrderTypes DEF TestsTypeOK
  <2>10. Dense' /\ OwnOrders'
    <3>1. \A t \in Scripts : script'[t].orders = script[t].orders
      BY <2>6, <2>7 DEF Only
    <3> QED
      BY <2>9, <3>1, SameOrders
  <2>11. Tokens'
    <3>1. revoked' \subseteq 1 .. issued' /\ token \notin revoked
      BY <1>0, <1>1, <2>1, <2>4 DEF Tokens
    <3>2. ASSUME NEW t \in Scripts
          PROVE  /\ script[t].user \in 0 .. issued /\ script[t].admin \in 0 .. issued
                 /\ script'[t].user \in {script[t].user} \cup (IF t = s THEN {token} ELSE {})
                 /\ script'[t].admin \in {script[t].admin} \cup (IF t = s THEN {token} ELSE {})
      BY <1>0, <2>6, <2>7 DEF Tokens, Only
    <3>3. ASSUME NEW t \in Scripts
          PROVE  script'[t].user \in 0 .. issued' /\ script'[t].admin \in 0 .. issued'
      BY <2>1, <2>4, <3>2
    <3>4. ASSUME NEW t \in Scripts, NEW u \in Scripts, t # u, script'[t].user # 0
          PROVE  script'[t].user # script'[u].user /\ script'[t].user # script'[u].admin
      <4>1. script[t].user # 0 => script[t].user # script[u].user /\ script[t].user # script[u].admin
        BY <1>0, <3>4 DEF Tokens
      <4> QED
        BY <2>4, <3>2, <3>4, <4>1
    <3>5. ASSUME NEW t \in Scripts, t # "phase2"
          PROVE  script'[t].user \notin revoked' /\ script'[t].admin \notin revoked'
      BY <1>0, <1>1, <3>1, <3>2, <3>5 DEF Tokens
    <3> QED
      BY <3>1, <3>3, <3>4, <3>5 DEF Tokens
  <2>12. Scene(s)'
    <3>1. CASE s = "phase2"
      <4>1. script'[s].at \in {2, 6} /\ script'[s].user = token /\ token \notin revoked' /\ token # 0
        BY <1>0, <1>1, <2>2, <2>4, <2>7, <3>1 DEF Tokens
      <4> QED
        BY <3>1, <4>1 DEF Scene, Session
    <3>2. CASE s = "phase1"
      <4>1. n \in {1, 2} /\ Len(script[s].orders) = 0
        BY <1>0, <2>2, <3>2 DEF Scene, Story, PlacedBy, n
      <4>2. script'[s].at \in {2, 3} /\ Len(script'[s].orders) = 0
        BY <2>7, <4>1
      <4> QED
        BY <3>2, <4>2 DEF Scene, Story, PlacedBy
    <3>3. CASE s = "mongodb"
      BY <3>3 DEF Scene
    <3> QED
      BY <2>2, <3>1, <3>2, <3>3
  <2>13. Explained(s)'
    BY <2>7 DEF Explained
  <2>14. script'[s].at \in 1 .. Len(Program[s]) /\ script'[s].tries < Attempts
    <3>1. n \in 1 .. Len(Program[s]) /\ Len(Program[s]) \in Nat /\ script[s].tries < Attempts
      BY <1>0, <2>2, Lengths DEF Positions, n
    <3> QED
      BY <2>3, <2>7, <3>1
  <2> QED
    BY <1>1, <2>6, <2>9, <2>10, <2>11, <2>12, <2>13, <2>14, Assemble
<1> QED
  BY <1>2, <1>3

\* A call after which its script goes on, or has passed, with what it remembers.
LEMMA Advanced ==
  ASSUME TestsTypeOK, NEW s \in Scripts, NEW answer, Judge(s, script[s], answer), answer = Call(s).want
  PROVE  /\ Only(s)
         /\ script[s].at = Len(Program[s]) => script'[s] = [script[s] EXCEPT !.outcome = "passed"]
         /\ script[s].at # Len(Program[s]) => script'[s] = [script[s] EXCEPT !.at = script[s].at + 1]
<1>1. script[s] \in ScriptRecs
  BY DEF TestsTypeOK
<1> QED
  BY <1>1, Judged

\* A call that changes nothing but the position of its script.
LEMMA ReadInv ==
  ASSUME TestsInv, NEW s \in Scripts, Running(s), NEW answer, Judge(s, script[s], answer),
         UNCHANGED <<orderVars, sessionVars, logins>>, Scene(s)',
         answer # Call(s).want => Call(s).op = "latest" /\ Disturbed(s)
  PROVE  TestsInv'
<1>0. TestsTypeOK /\ Positions
  BY DEF TestsInv
<1>1. script[s] \in ScriptRecs
  BY <1>0 DEF TestsTypeOK
<1>2. /\ Only(s)
      /\ answer # Call(s).want => script'[s] = [script[s] EXCEPT !.outcome = "expect"]
      /\ answer = Call(s).want /\ script[s].at = Len(Program[s]) =>
            script'[s] = [script[s] EXCEPT !.outcome = "passed"]
      /\ answer = Call(s).want /\ script[s].at # Len(Program[s]) =>
            script'[s] = [script[s] EXCEPT !.at = script[s].at + 1]
  BY <1>0, <1>1, Judged
<1>3. /\ script'[s].orders = script[s].orders /\ script'[s].tries = script[s].tries
      /\ script'[s].user = script[s].user /\ script'[s].admin = script[s].admin
  BY <1>1, <1>2 DEF ScriptRecs
<1>4. UNCHANGED <<issued, revoked, logins>>
  BY DEF sessionVars
<1>5. TestsTypeOK' /\ Orders' = Orders /\ UNCHANGED <<status, placed>>
  BY <1>0, <1>2, <1>4, SameOrderTypes DEF TestsTypeOK
<1>6. ASSUME NEW t \in Scripts
      PROVE  /\ script'[t].orders = script[t].orders
             /\ script'[t].user = script[t].user /\ script'[t].admin = script[t].admin
  BY <1>2, <1>3 DEF Only
<1>7. Dense' /\ OwnOrders'
  BY <1>5, <1>6, SameOrders
<1>8. Tokens'
  BY <1>4, <1>6, SameTokens
<1>9. Explained(s)'
  <2>1. CASE answer # Call(s).want
    <3>1. script'[s].outcome = "expect" /\ script'[s].at = script[s].at
      BY <1>1, <1>2, <2>1 DEF ScriptRecs
    <3>2. Call(s)' = Call(s) /\ Disturbed(s)'
      BY <1>3, <1>5, <2>1, <3>1 DEF Call, Disturbed
    <3> QED
      BY <2>1, <3>1, <3>2 DEF Explained
  <2>2. CASE answer = Call(s).want
    <3>1. script'[s].outcome \in {"passed", "running"}
      BY <1>1, <1>2, <2>2 DEF ScriptRecs, Running
    <3> QED
      BY <3>1 DEF Explained
  <2> QED
    BY <2>1, <2>2
<1>10. script'[s].at \in 1 .. Len(Program[s]) /\ script'[s].tries < Attempts
  <2>1. script[s].at \in 1 .. Len(Program[s]) /\ Len(Program[s]) \in Nat /\ script[s].tries < Attempts
    BY <1>0, Lengths, ScriptAssumption DEF Positions, ScriptNames
  <2>2. script'[s].at = script[s].at \/ (script[s].at # Len(Program[s]) /\ script'[s].at = script[s].at + 1)
    BY <1>1, <1>2 DEF ScriptRecs
  <2> QED
    BY <1>3, <2>1, <2>2
<1> QED
  BY <1>2, <1>4, <1>5, <1>7, <1>8, <1>9, <1>10, Assemble

LEMMA MeInv == ASSUME TestsInv, NEW s \in Scripts, Me(s) PROVE TestsInv'
<1>0. TestsTypeOK /\ Positions /\ Scene(s) /\ Running(s) /\ Call(s).op = "me"
  BY DEF TestsInv, Scenes, Me, At, Running
<1>1. s = "phase2" /\ script[s].at \in {2, 4, 6}
  BY <1>0, WhoCalls
<1>2. PICK answer : answer = IF script[s].user \in revoked THEN <<"401">> ELSE <<"200">>
  OBVIOUS
<1>3. Judge(s, script[s], answer) /\ UNCHANGED <<orderVars, sessionVars, logins>>
  BY <1>2 DEF Me
<1>4. answer = Call(s).want
  BY <1>0, <1>1, <1>2, Phase2Wants DEF Scene, Session, Call
<1>5. script[s] \in ScriptRecs
  BY <1>0 DEF TestsTypeOK
<1>6. /\ script[s].at = 6 => script'[s] = [script[s] EXCEPT !.outcome = "passed"]
      /\ script[s].at # 6 => script'[s] = [script[s] EXCEPT !.at = script[s].at + 1]
  <2>1. Len(Program[s]) = 6
    BY <1>1, Lengths
  <2> QED
    BY <1>0, <1>3, <1>4, <2>1, Advanced
<1>7. Scene(s)'
  <2>1. CASE script[s].at = 6
    BY <1>5, <1>6, <2>1 DEF Scene, Running, ScriptRecs
  <2>2. CASE script[s].at = 4
    <3>1. script'[s].at = 5
      BY <1>5, <1>6, <2>2 DEF ScriptRecs
    <3> QED
      BY <1>1, <3>1 DEF Scene, Session
  <2>3. CASE script[s].at = 2
    <3>1. script'[s].at = 3 /\ script'[s].user = script[s].user /\ revoked' = revoked
      BY <1>3, <1>5, <1>6, <2>3 DEF ScriptRecs, sessionVars
    <3>2. script[s].user # 0 /\ script[s].user \notin revoked
      BY <1>0, <1>1, <2>3 DEF Scene, Session
    <3> QED
      BY <1>1, <3>1, <3>2 DEF Scene, Session
  <2> QED
    BY <1>1, <2>1, <2>2, <2>3
<1> QED
  BY <1>0, <1>3, <1>4, <1>7, ReadInv

LEMMA LogoutInv == ASSUME TestsInv, NEW s \in Scripts, Logout(s) PROVE TestsInv'
<1>0. TestsTypeOK /\ Positions /\ Tokens /\ Scene(s) /\ Running(s) /\ Call(s).op = "logout"
  BY DEF TestsInv, Scenes, Logout, At, Running
<1>1. s = "phase2" /\ script[s].at = 3
  BY <1>0, WhoCalls
<1>2. Judge(s, script[s], <<"signed_out">>) /\ revoked' = revoked \cup {script[s].user}
      /\ UNCHANGED <<orderVars, issued, logins>>
  BY DEF Logout
<1>3. Call(s).want = <<"signed_out">>
  BY <1>1, Phase2Wants DEF Call
<1>4. script[s] \in ScriptRecs /\ issued \in Nat
  BY <1>0 DEF TestsTypeOK
<1>5. Only(s) /\ script'[s] = [script[s] EXCEPT !.at = 4]
  <2>1. Len(Program[s]) = 6
    BY <1>1, Lengths
  <2>2. Only(s) /\ script'[s] = [script[s] EXCEPT !.at = script[s].at + 1]
    <3>1. PICK answer : answer = <<"signed_out">>
      OBVIOUS
    <3>2. Judge(s, script[s], answer) /\ answer = Call(s).want
      BY <1>2, <1>3, <3>1
    <3>3. script[s].at # Len(Program[s])
      BY <1>1, <2>1
    <3> QED
      BY <1>0, <3>2, <3>3, Advanced
  <2> QED
    BY <1>1, <2>2
<1>6. /\ script'[s].orders = script[s].orders /\ script'[s].at = 4 /\ script'[s].outcome = "running"
      /\ script'[s].tries = script[s].tries
      /\ script'[s].user = script[s].user /\ script'[s].admin = script[s].admin
  BY <1>0, <1>4, <1>5 DEF ScriptRecs, Running
<1>7. script[s].user \in 1 .. issued
  BY <1>0, <1>1, <1>4 DEF Tokens, Scene, Session
<1>8. TestsTypeOK' /\ Orders' = Orders /\ UNCHANGED <<status, placed>>
  <2>1. revoked' \subseteq Nat
    <3>1. revoked \subseteq Nat /\ script[s].user \in Nat
      BY <1>0, <1>4 DEF TestsTypeOK, ScriptRecs
    <3> QED
      BY <1>2, <3>1
  <2> QED
    BY <1>0, <1>2, <1>5, <2>1, SameOrderTypes DEF TestsTypeOK
<1>9. ASSUME NEW t \in Scripts
      PROVE  /\ script'[t].orders = script[t].orders
             /\ script'[t].user = script[t].user /\ script'[t].admin = script[t].admin
  BY <1>5, <1>6 DEF Only
<1>10. Dense' /\ OwnOrders'
  BY <1>8, <1>9, SameOrders
<1>11. Tokens'
  <2>1. revoked' \subseteq 1 .. issued'
    BY <1>0, <1>2, <1>7 DEF Tokens
  <2>2. ASSUME NEW t \in Scripts, t # "phase2"
        PROVE  script'[t].user \notin revoked' /\ script'[t].admin \notin revoked'
    BY <1>0, <1>1, <1>2, <1>4, <1>7, <1>9, <2>2 DEF Tokens
  <2> QED
    BY <1>0, <1>2, <1>9, <2>1, <2>2 DEF Tokens
<1>12. Scene(s)'
  BY <1>1, <1>2, <1>4, <1>6, <1>7 DEF Scene, Session
<1>13. Explained(s)'
  BY <1>6 DEF Explained
<1> QED
  <2>1. script'[s].at \in 1 .. Len(Program[s]) /\ script'[s].tries < Attempts
    BY <1>0, <1>1, <1>6, Lengths DEF Positions
  <2> QED
    BY <1>1, <1>5, <1>8, <1>10, <1>11, <1>12, <1>13, <2>1, Assemble

LEMMA WindowInv == ASSUME TestsInv, WindowEnds PROVE TestsInv'
<1>1. UNCHANGED <<status, events, placed, issued, revoked, script>> /\ logins' = 0
  BY DEF WindowEnds, orderVars, sessionVars
<1>2. TestsTypeOK'
  BY <1>1, LimitAssumption DEF TestsInv, TestsTypeOK, Order!TypeOK
<1>3. Orders' = Orders
  BY <1>1 DEF Orders
<1>4. Dense' /\ OwnOrders'
  BY <1>1, <1>3, SameOrders
<1>5. Positions' /\ Tokens'
  BY <1>1 DEF TestsInv, Positions, Tokens
<1>6. Scenes'
  BY <1>1 DEF TestsInv, Scenes, Scene, Running, Session, Story
<1>7. FailureExplained'
  BY <1>1, <1>3 DEF TestsInv, FailureExplained, Call, Disturbed
<1> QED
  BY <1>2, <1>4, <1>5, <1>6, <1>7 DEF TestsInv

----------------------------------------------------------------------------
(* The calls of phase1 *)

\* The orders of a script are different ones.
LEMMA OwnApart ==
  ASSUME OwnOrders, NEW s \in Scripts,
         NEW i \in 1 .. Len(script[s].orders), NEW k \in 1 .. Len(script[s].orders), i # k
  PROVE  /\ script[s].orders[i] \in Ids /\ script[s].orders[k] \in Ids
         /\ script[s].orders[i] # script[s].orders[k]
<1> DEFINE mine == script[s].orders
<1>1. mine[i] \in Orders /\ mine[k] \in Orders
  BY DEF OwnOrders
<1>2. i \in Int /\ k \in Int
  OBVIOUS
<1>3. mine[i] < mine[k] \/ mine[k] < mine[i]
  BY <1>1, <1>2 DEF OwnOrders
<1>4. mine[i] \in Ids /\ mine[k] \in Ids /\ Ids \subseteq Nat
  BY <1>1 DEF Orders, Ids
<1>5. mine[i] # mine[k]
  <2>1. mine[i] \in Nat /\ mine[k] \in Nat
    BY <1>4
  <2> HIDE DEF mine
  <2> QED
    BY <1>3, <2>1
<1> QED
  BY <1>4, <1>5

\* What phase1 pays, and the status it may have.
LEMMA PaySubject ==
  ASSUME TestsInv, NEW s \in Scripts, Running(s), Call(s).op = "pay"
  PROVE  /\ s = "phase1" /\ script[s].at \in {6, 9}
         /\ script[s].user \notin revoked
         /\ \E k \in 1 .. Len(script[s].orders) :
               /\ k = (IF script[s].at = 6 THEN 2 ELSE 3) /\ Subject(s) = script[s].orders[k]
               /\ status[script[s].orders[k]] \in {"PAYING", "PAID_PENDING_APPROVAL"}
<1>0. TestsTypeOK /\ Positions /\ Tokens /\ Scene(s)
  BY DEF TestsInv, Scenes
<1>1. s = "phase1" /\ script[s].at \in {6, 9}
  BY <1>0, WhoCalls
<1>2. script[s].user \notin revoked
  BY <1>0, <1>1 DEF Tokens
<1>3. Story(s)
  BY <1>0, <1>1 DEF Scene
<1>4. CASE script[s].at = 6
  <2>1. Call(s).about = 2
    BY <1>1, <1>4, Phase1Wants DEF Call
  <2>2. Len(script[s].orders) = 2
    BY <1>3, <1>4 DEF Story, PlacedBy
  <2>3. status[script[s].orders[2]] \in {"PAYING", "PAID_PENDING_APPROVAL"}
    BY <1>3, <1>4 DEF Story, Second, Paid
  <2>4. 2 \in 1 .. Len(script[s].orders)
    BY <2>2
  <2> QED
    BY <1>1, <1>2, <1>4, <2>1, <2>3, <2>4 DEF Subject
<1>5. CASE script[s].at = 9
  <2>1. Call(s).about = 3
    BY <1>1, <1>5, Phase1Wants DEF Call
  <2>2. Len(script[s].orders) = 3
    BY <1>3, <1>5 DEF Story, PlacedBy
  <2>3. status[script[s].orders[3]] \in {"PAYING", "PAID_PENDING_APPROVAL"}
    BY <1>3, <1>5 DEF Story, Third, Paid
  <2>4. 3 \in 1 .. Len(script[s].orders)
    BY <2>2
  <2> QED
    BY <1>1, <1>2, <1>5, <2>1, <2>3, <2>4 DEF Subject
<1> QED
  BY <1>1, <1>4, <1>5

\* An order of s is paid and s stays where it is, or gives up.
LEMMA PaidInv ==
  ASSUME TestsInv, NEW s \in Scripts, Running(s), Call(s).op = "pay", Order!Pay(Subject(s)),
         Only(s), script'[s].orders = script[s].orders, script'[s].at = script[s].at,
         script'[s].user = script[s].user, script'[s].admin = script[s].admin,
         script'[s].outcome \in {"running", "504"}, script'[s].tries < Attempts,
         UNCHANGED <<placed, sessionVars, logins>>
  PROVE  TestsInv'
<1>0. TestsTypeOK /\ Positions /\ OwnOrders /\ Scene(s)
  BY DEF TestsInv, Scenes
<1> DEFINE n == script[s].at
           mine == script[s].orders
<1>1. s = "phase1" /\ n \in {6, 9}
  BY PaySubject
<1>2. PICK k \in 1 .. Len(mine) : k = (IF n = 6 THEN 2 ELSE 3) /\ Subject(s) = mine[k]
  BY PaySubject
<1>3. PICK o : o = mine[k]
  OBVIOUS
<1>4. o \in Orders /\ o \in Ids /\ placed[o] = s
  BY <1>0, <1>3 DEF OwnOrders, Orders
<1>5. status' = [status EXCEPT ![o] = "PAID_PENDING_APPROVAL"] /\ Order!Log(o, "order.created")
  BY <1>2, <1>3 DEF Order!Pay, Order!Move
<1>6. status'[o] = "PAID_PENDING_APPROVAL" /\ \A p \in Ids : p # o => status'[p] = status[p]
  BY <1>0, <1>4, <1>5 DEF TestsTypeOK, Order!TypeOK
<1>7. Orders' = Orders
  BY <1>4, <1>6 DEF Orders
<1>8. UNCHANGED <<issued, revoked, logins>>
  BY DEF sessionVars
<1>9. TestsTypeOK'
  <2>1. status' \in [Ids -> Order!Statuses]
    BY <1>0, <1>5 DEF TestsTypeOK, Order!TypeOK, Order!Statuses
  <2>2. events' \in [Ids -> Seq(Order!EventKinds)]
    BY <1>0, <1>4, <1>5 DEF TestsTypeOK, Order!TypeOK, Order!Log, Order!EventKinds
  <2> QED
    BY <1>0, <1>8, <2>1, <2>2 DEF TestsTypeOK, Order!TypeOK, Only
<1>10. ASSUME NEW t \in Scripts
       PROVE  /\ script'[t].orders = script[t].orders
              /\ script'[t].user = script[t].user /\ script'[t].admin = script[t].admin
  BY DEF Only
<1>11. Dense' /\ OwnOrders'
  BY <1>7, <1>10, SameOrders
<1>12. Tokens'
  BY <1>8, <1>10, SameTokens
<1>13. Story(s)'
  <2>1. Story(s)
    BY <1>0, <1>1 DEF Scene
  <2>2. ASSUME NEW i \in 1 .. Len(mine), i # k PROVE status'[mine[i]] = status[mine[i]]
    BY <1>0, <1>3, <1>6, <2>2, OwnApart
  <2>3. status'[mine[k]] = "PAID_PENDING_APPROVAL"
    BY <1>3, <1>6
  <2>4. CASE n = 6
    <3>1. Len(mine) = 2 /\ k = 2 /\ status[mine[1]] = First(n)
      BY <1>2, <2>1, <2>4 DEF Story, PlacedBy
    <3>2. status'[mine[1]] = First(n)
      BY <2>2, <3>1
    <3> QED
      BY <2>1, <2>3, <2>4, <3>1, <3>2 DEF Story, Paid
  <2>5. CASE n = 9
    <3>1. /\ Len(mine) = 3 /\ k = 3 /\ status[mine[1]] = First(n)
          /\ status[mine[2]] = Second(n)
      BY <1>2, <2>1, <2>5 DEF Story, PlacedBy
    <3>2. status'[mine[1]] = First(n) /\ status'[mine[2]] = Second(n)
      BY <2>2, <3>1
    <3> QED
      BY <2>1, <2>3, <2>5, <3>1, <3>2 DEF Story, Paid
  <2> QED
    BY <1>1, <2>4, <2>5
<1>14. Scene(s)' /\ Explained(s)'
  BY <1>1, <1>13 DEF Scene, Explained
<1>15. script'[s].at \in 1 .. Len(Program[s])
  BY <1>0 DEF Positions
<1>16. \A p \in Orders : placed'[p] = placed[p] /\ (placed[p] # s => status'[p] = status[p])
  BY <1>4, <1>6 DEF Orders
<1> QED
  BY <1>7, <1>8, <1>9, <1>11, <1>12, <1>14, <1>15, <1>16, Assemble

LEMMA PayTimesOutInv == ASSUME TestsInv, NEW s \in Scripts, PayTimesOut(s) PROVE TestsInv'
<1>0. TestsTypeOK /\ Positions /\ Scene(s) /\ Running(s) /\ Call(s).op = "pay"
  BY DEF TestsInv, Scenes, PayTimesOut, At, Running
<1>1. s = "phase1" /\ script[s].user \notin revoked
  BY <1>0, PaySubject
<1>2. UNCHANGED <<placed, sessionVars, logins>>
  BY <1>1 DEF PayTimesOut, Admitted
<1>3. script[s] \in ScriptRecs /\ script[s].tries + 1 \in 1 .. Attempts
  BY <1>0, LimitAssumption DEF TestsTypeOK, ScriptRecs, Positions
<1>4. /\ Only(s) /\ script'[s].orders = script[s].orders /\ script'[s].at = script[s].at
      /\ script'[s].user = script[s].user /\ script'[s].admin = script[s].admin
      /\ script'[s].outcome \in {"running", "504"} /\ script'[s].tries < Attempts
  <2>1. CASE script[s].tries + 1 = Attempts
    <3>1. Stop(s, "504")
      BY <1>1, <2>1 DEF PayTimesOut, Admitted, Tried, LastTry
    <3>2. Only(s) /\ script'[s] = [script[s] EXCEPT !.outcome = "504"]
      BY <1>0, <3>1, Stopped DEF Outcomes
    <3> QED
      BY <1>0, <1>3, <3>2 DEF ScriptRecs, Positions
  <2>2. CASE script[s].tries + 1 # Attempts
    <3>1. script' = [script EXCEPT ![s].tries = script[s].tries + 1]
      BY <1>1, <2>2 DEF PayTimesOut, Admitted, Tried, LastTry
    <3>2. PICK k \in 0 .. Attempts - 1 : k = script[s].tries + 1
      BY <1>3, <2>2, LimitAssumption
    <3>3. [script[s] EXCEPT !.tries = k] \in ScriptRecs
      BY <1>3 DEF ScriptRecs
    <3>4. Only(s) /\ script'[s] = [script[s] EXCEPT !.tries = k]
      BY <1>0, <3>1, <3>2, <3>3 DEF TestsTypeOK, Only
    <3>5. k < Attempts
      BY <3>2, LimitAssumption
    <3> QED
      BY <1>0, <1>3, <3>4, <3>5 DEF ScriptRecs, Running
  <2> QED
    BY <2>1, <2>2
<1>5. CASE UNCHANGED <<status, events>>
  <2>1. UNCHANGED <<orderVars, issued, revoked, logins>>
    BY <1>2, <1>5 DEF orderVars, sessionVars
  <2>2. TestsTypeOK' /\ Orders' = Orders /\ UNCHANGED <<status, placed>>
    BY <1>0, <1>4, <2>1, SameOrderTypes DEF TestsTypeOK
  <2>3. ASSUME NEW t \in Scripts
        PROVE  /\ script'[t].orders = script[t].orders
               /\ script'[t].user = script[t].user /\ script'[t].admin = script[t].admin
    BY <1>4 DEF Only
  <2>4. Dense' /\ OwnOrders'
    BY <2>2, <2>3, SameOrders
  <2>5. Tokens'
    BY <2>1, <2>3, SameTokens
  <2>6. Scene(s)' /\ Explained(s)'
    BY <1>0, <1>1, <1>4, <2>2 DEF Scene, Story, Explained
  <2>7. script'[s].at \in 1 .. Len(Program[s])
    BY <1>0, <1>4 DEF Positions
  <2> QED
    BY <1>4, <2>1, <2>2, <2>4, <2>5, <2>6, <2>7, Assemble
<1>6. CASE Order!Pay(Subject(s))
  BY <1>0, <1>2, <1>4, <1>6, PaidInv
<1> QED
  BY <1>1, <1>5, <1>6 DEF PayTimesOut, Admitted, PayOrder

\* Three numbers up to n after which no other follows are the last three.
LEMMA LastThree ==
  ASSUME NEW n \in Nat, NEW a \in 1 .. n, NEW b \in 1 .. n, NEW c \in 1 .. n, a < b, b < c,
         \A o \in 1 .. n : o > a => o = a \/ o = b \/ o = c
  PROVE  c = n /\ b = n - 1 /\ a = n - 2
<1>1. a + 1 \in 1 .. n /\ n \in 1 .. n
  OBVIOUS
<1>2. a + 1 = b /\ n = c
  BY <1>1
<1>3. b + 1 \in 1 .. n
  BY <1>2
<1>4. b + 1 = c
  BY <1>2, <1>3
<1> QED
  BY <1>2, <1>4

\* The latest three orders of the account are those of phase1, unless another
\* script has placed one since.
LEMMA LatestAnswer ==
  ASSUME TestsInv, NEW s \in Scripts, Running(s), s = "phase1", script[s].at = 11, ~Disturbed(s)
  PROVE  [i \in 1 .. 3 |-> status[NextId - i]] = <<"REJECTED", "SHIPPING", "CANCELLED">>
<1>0. Dense /\ OwnOrders /\ Story(s) /\ TestsTypeOK
  BY DEF TestsInv, Scenes, Scene
<1> DEFINE mine == script[s].orders
           n == Cardinality(Orders)
<1>1. /\ Len(mine) = 3 /\ status[mine[1]] = "CANCELLED"
      /\ status[mine[2]] = "SHIPPING" /\ status[mine[3]] = "REJECTED"
  BY <1>0 DEF Story, PlacedBy, First, Second, Third, Paid
<1>2. /\ mine[1] \in Orders /\ mine[2] \in Orders /\ mine[3] \in Orders
      /\ mine[1] < mine[2] /\ mine[2] < mine[3]
  BY <1>0, <1>1 DEF OwnOrders
<1>3. n \in Nat /\ Orders = 1 .. n
  <2>1. IsFiniteSet(Orders)
    <3>1. IsFiniteSet(Ids)
      BY FS_Interval, LimitAssumption DEF Ids
    <3> QED
      BY <3>1, FS_Subset DEF Orders
  <2>2. n \in Nat
    BY <2>1, FS_CardinalityType
  <2> QED
    BY <1>0, <2>2 DEF Dense
<1>4. \A o \in Orders : o > mine[1] => o = mine[1] \/ o = mine[2] \/ o = mine[3]
  BY <1>0, <1>1 DEF OwnOrders, Disturbed
<1> HIDE DEF mine, n
<1>5. mine[3] = n /\ mine[2] = n - 1 /\ mine[1] = n - 2
  <2>1. PICK a, b, c : a = mine[1] /\ b = mine[2] /\ c = mine[3]
    OBVIOUS
  <2>2. PICK l \in Nat : l = n
    BY <1>3
  <2>3. Orders = 1 .. l
    BY <1>3, <2>2
  <2>4. a \in 1 .. l /\ b \in 1 .. l /\ c \in 1 .. l /\ a < b /\ b < c
    BY <1>2, <2>1, <2>3
  <2>5. \A o \in 1 .. l : o > a => o = a \/ o = b \/ o = c
    BY <1>4, <2>1, <2>3
  <2>6. c = l /\ b = l - 1 /\ a = l - 2
    BY <2>4, <2>5, LastThree
  <2> QED
    BY <2>1, <2>2, <2>6
<1>6. NextId = n + 1
  BY DEF NextId, n
<1>7. /\ status[NextId - 1] = "REJECTED" /\ status[NextId - 2] = "SHIPPING"
      /\ status[NextId - 3] = "CANCELLED"
  <2>1. NextId - 1 = mine[3] /\ NextId - 2 = mine[2] /\ NextId - 3 = mine[1]
    BY <1>3, <1>5, <1>6
  <2> QED
    BY <1>1, <2>1
<1> HIDE DEF NextId
<1> QED
  BY <1>7

LEMMA LatestInv == ASSUME TestsInv, NEW s \in Scripts, Latest(s) PROVE TestsInv'
<1>0. TestsTypeOK /\ Positions /\ Tokens /\ Scene(s) /\ Running(s) /\ Call(s).op = "latest"
  BY DEF TestsInv, Scenes, Latest, At, Running
<1>1. s = "phase1" /\ script[s].at = 11
  BY <1>0, WhoCalls
<1>2. script[s].user \notin revoked
  BY <1>0, <1>1 DEF Tokens
<1>3. PICK answer : answer = [i \in 1 .. 3 |-> status[NextId - i]]
  OBVIOUS
<1>4. Judge(s, script[s], answer) /\ UNCHANGED <<orderVars, sessionVars, logins>>
  BY <1>2, <1>3 DEF Latest, Admitted
<1>5. answer # Call(s).want => Disturbed(s)
  BY <1>0, <1>1, <1>3, LatestAnswer, Phase1Wants DEF Call
<1>6. script[s] \in ScriptRecs /\ Len(Program[s]) = 12
  BY <1>0, <1>1, Lengths DEF TestsTypeOK
<1>7. Scene(s)'
  <2>1. CASE answer # Call(s).want
    <3>1. script'[s] = [script[s] EXCEPT !.outcome = "expect"]
      BY <1>0, <1>4, <1>6, <2>1, Judged
    <3> QED
      BY <1>6, <3>1 DEF Scene, Running, ScriptRecs
  <2>2. CASE answer = Call(s).want
    <3>1. script'[s] = [script[s] EXCEPT !.at = script[s].at + 1]
      <4>1. script[s].at # Len(Program[s])
        BY <1>1, <1>6
      <4> QED
        BY <1>0, <1>4, <2>2, <4>1, Advanced
    <3>2. script'[s].at = 12 /\ script'[s].orders = script[s].orders /\ UNCHANGED status
      BY <1>1, <1>4, <1>6, <3>1 DEF ScriptRecs, orderVars
    <3>3. Story(s)
      BY <1>0, <1>1 DEF Scene
    <3> QED
      BY <1>1, <3>2, <3>3 DEF Scene, Story, PlacedBy, First, Second, Third, Paid
  <2> QED
    BY <2>1, <2>2
<1> QED
  BY <1>0, <1>4, <1>5, <1>7, ReadInv

LEMMA QueueInv == ASSUME TestsInv, NEW s \in Scripts, Queue(s) PROVE TestsInv'
<1>0. TestsTypeOK /\ Positions /\ Tokens /\ Scene(s) /\ Running(s) /\ Call(s).op = "queue"
  BY DEF TestsInv, Scenes, Queue, At, Running
<1>1. s = "phase1" /\ script[s].at = 12
  BY <1>0, WhoCalls
<1>2. script[s].admin \notin revoked
  BY <1>0, <1>1 DEF Tokens
<1>3. PICK answer : answer = {i \in {2, 3} : status[script[s].orders[i]] = "PENDING_APPROVAL"}
  OBVIOUS
<1>4. Judge(s, script[s], answer) /\ UNCHANGED <<orderVars, sessionVars, logins>>
  BY <1>2, <1>3 DEF Queue, Admitted
<1>5. answer = Call(s).want
  <2>1. status[script[s].orders[2]] = "SHIPPING" /\ status[script[s].orders[3]] = "REJECTED"
    BY <1>0, <1>1 DEF Scene, Story, Second, Third, Paid
  <2>2. answer = {}
    BY <1>3, <2>1
  <2> QED
    BY <1>1, <2>2, Phase1Wants DEF Call
<1>6. script[s] \in ScriptRecs /\ Len(Program[s]) = 12
  BY <1>0, <1>1, Lengths DEF TestsTypeOK
<1>7. script'[s] = [script[s] EXCEPT !.outcome = "passed"]
  BY <1>0, <1>1, <1>4, <1>5, <1>6, Advanced
<1>8. Scene(s)'
  BY <1>6, <1>7 DEF Scene, Running, ScriptRecs
<1> QED
  BY <1>0, <1>4, <1>5, <1>8, ReadInv

\* Where phase1 moves one of its orders: the position, which order, its new status.
Turn(n, k, to) ==
    \/ n = 4 /\ k = 1 /\ to = "CANCELLED"
    \/ n \in {6, 9} /\ k = (IF n = 6 THEN 2 ELSE 3) /\ to = "PAID_PENDING_APPROVAL"
    \/ n = 7 /\ k = 2 /\ to = "SHIPPING"
    \/ n = 10 /\ k = 3 /\ to = "REJECTED"

\* Cancelling, paying, approving or rejecting an order of phase1.
LEMMA MoveInv ==
  ASSUME TestsInv, NEW s \in Scripts, Running(s), s = "phase1",
         NEW k, NEW to, Turn(script[s].at, k, to),
         NEW o, o = script[s].orders[k],
         status' = [status EXCEPT ![o] = to],
         \/ UNCHANGED events
         \/ \E kind \in {"order.created", "order.approved", "order.cancelled", "order.rejected"} :
               Order!Log(o, kind),
         UNCHANGED <<placed, sessionVars, logins>>,
         NEW now \in ScriptRecs, now.at = script[s].at, now.orders = script[s].orders,
         now.user = script[s].user, now.admin = script[s].admin,
         now.outcome = "running", now.tries < Attempts,
         Judge(s, now, <<status'[o]>>)
  PROVE  TestsInv'
<1>0. TestsTypeOK /\ Positions /\ Dense /\ OwnOrders /\ Story(s)
  BY DEF TestsInv, Scenes, Scene
<1> DEFINE n == script[s].at
           mine == script[s].orders
<1>1. /\ n \in {4, 6, 7, 9, 10} /\ k \in 1 .. 3 /\ to # "NONE" /\ to \in Order!Statuses
      /\ Call(s).want = <<to>> /\ k \in 1 .. PlacedBy(n)
  BY Phase1Wants DEF Turn, Call, PlacedBy, Order!Statuses
<1>2. Len(mine) = PlacedBy(n)
  BY <1>0 DEF Story
<1>3. o \in Orders /\ placed[o] = s /\ o \in Ids
  BY <1>0, <1>1, <1>2 DEF OwnOrders, Orders
<1>4. status'[o] = to /\ \A p \in Ids : p # o => status'[p] = status[p]
  BY <1>0, <1>3 DEF TestsTypeOK, Order!TypeOK
<1>5. /\ Only(s) /\ script'[s] = [now EXCEPT !.at = now.at + 1]
  <2>1. PICK answer : answer = <<status'[o]>>
    OBVIOUS
  <2>2. Judge(s, now, answer) /\ answer = Call(s).want
    BY <1>1, <1>4, <2>1
  <2>3. now.at # Len(Program[s])
    BY <1>1, Lengths
  <2> QED
    BY <1>0, <2>2, <2>3, Judged
<1>6. /\ script'[s].at = n + 1 /\ script'[s].orders = mine
      /\ script'[s].user = script[s].user /\ script'[s].admin = script[s].admin
      /\ script'[s].outcome = "running" /\ script'[s].tries < Attempts
  BY <1>5 DEF ScriptRecs
<1>7. Orders' = Orders
  BY <1>1, <1>3, <1>4 DEF Orders
<1>8. UNCHANGED <<issued, revoked, logins>>
  BY DEF sessionVars
<1>9. TestsTypeOK'
  <2>1. status' \in [Ids -> Order!Statuses]
    BY <1>0, <1>1 DEF TestsTypeOK, Order!TypeOK
  <2>2. events' \in [Ids -> Seq(Order!EventKinds)]
    <3>1. events \in [Ids -> Seq(Order!EventKinds)]
      BY <1>0 DEF TestsTypeOK, Order!TypeOK
    <3>2. ASSUME NEW kind \in Order!EventKinds, Order!Log(o, kind)
          PROVE  events' \in [Ids -> Seq(Order!EventKinds)]
      <4>1. Append(events[o], kind) \in Seq(Order!EventKinds)
        BY <1>3, <3>1
      <4>2. events' = [events EXCEPT ![o] = Append(events[o], kind)]
        BY <3>2 DEF Order!Log
      <4> QED
        BY <3>1, <4>1, <4>2
    <3> QED
      BY <3>1, <3>2 DEF Order!EventKinds
  <2> QED
    BY <1>0, <1>5, <1>8, <2>1, <2>2 DEF TestsTypeOK, Order!TypeOK, Only
<1>10. ASSUME NEW t \in Scripts
       PROVE  /\ script'[t].orders = script[t].orders
              /\ script'[t].user = script[t].user /\ script'[t].admin = script[t].admin
  BY <1>5, <1>6 DEF Only
<1>11. Dense' /\ OwnOrders'
  BY <1>7, <1>10, SameOrders
<1>12. Tokens'
  BY <1>8, <1>10, SameTokens
<1>13. Story(s)'
  <2>1. ASSUME NEW i \in 1 .. Len(mine), i # k PROVE status'[mine[i]] = status[mine[i]]
    <3>1. mine[i] # o /\ mine[i] \in Ids
      BY <1>0, <1>1, <1>2, <2>1, OwnApart
    <3> QED
      BY <1>4, <3>1
  <2>2. status'[mine[k]] = to
    BY <1>4
  <2>3. /\ PlacedBy(n + 1) = PlacedBy(n) /\ PlacedBy(n) \in {1, 2, 3}
        /\ (n + 1 >= 6 <=> n >= 6) /\ (n + 1 >= 9 <=> n >= 9)
    BY <1>1 DEF PlacedBy
  <2>4. status'[mine[1]] = First(n + 1)
    <3>1. CASE k = 1
      BY <1>1, <2>2, <3>1 DEF Turn, First
    <3>2. CASE k # 1
      <4>1. 1 \in 1 .. Len(mine) /\ status[mine[1]] = First(n) /\ First(n + 1) = First(n)
        BY <1>0, <1>1, <1>2, <2>3, <3>2 DEF Story, First, Turn
      <4> QED
        BY <2>1, <3>2, <4>1
    <3> QED
      BY <3>1, <3>2
  <2>5. n >= 6 => status'[mine[2]] = Second(n + 1)
    <3>1. CASE k = 2
      BY <1>1, <2>2, <3>1 DEF Turn, Second
    <3>2. CASE k # 2 /\ n >= 6
      <4>1. 2 \in 1 .. Len(mine) /\ status[mine[2]] = Second(n) /\ Second(n + 1) = Second(n)
        BY <1>0, <1>1, <1>2, <2>3, <3>2 DEF Story, Second, Turn, PlacedBy
      <4> QED
        BY <2>1, <3>2, <4>1
    <3> QED
      BY <3>1, <3>2
  <2>6. n >= 9 => status'[mine[3]] = Third(n + 1)
    BY <1>1, <2>2 DEF Turn, Third
  <2> QED
    BY <1>1, <1>2, <1>6, <2>3, <2>4, <2>5, <2>6 DEF Story
<1>14. Scene(s)' /\ Explained(s)'
  BY <1>6, <1>13 DEF Scene, Explained
<1>15. script'[s].at \in 1 .. Len(Program[s])
  BY <1>1, <1>6, Lengths
<1>16. \A p \in Orders : placed'[p] = placed[p] /\ (placed[p] # s => status'[p] = status[p])
  BY <1>3, <1>4 DEF Orders
<1> QED
  BY <1>5, <1>6, <1>7, <1>8, <1>9, <1>11, <1>12, <1>14, <1>15, <1>16, Assemble

\* The four calls, each allowed since no other script touches these orders.
LEMMA ReviewInv ==
  ASSUME TestsInv, NEW s \in Scripts, Cancel(s) \/ Pay(s) \/ Approve(s) \/ Reject(s) PROVE TestsInv'
<1>0. TestsTypeOK /\ Positions /\ Tokens /\ Scene(s) /\ script[s] \in ScriptRecs
  BY DEF TestsInv, Scenes, TestsTypeOK
<1>1. PICK o : o = Subject(s)
  OBVIOUS
<1>2. script[s].tries < Attempts /\ Attempts \in Nat \ {0}
  BY <1>0, LimitAssumption DEF Positions
<1>3. CASE Cancel(s)
  <2>1. Running(s) /\ s = "phase1" /\ script[s].at = 4
    BY <1>0, <1>3, WhoCalls DEF Cancel, At, Running
  <2>2. script[s].user \notin revoked
    BY <1>0, <2>1 DEF Tokens
  <2>3. /\ Order!Cancel(o) /\ Judge(s, script[s], <<status'[o]>>) /\ UNCHANGED placed
        /\ UNCHANGED <<sessionVars, logins>>
    BY <1>1, <1>3, <2>2 DEF Cancel, Admitted
  <2>4. Turn(script[s].at, 1, "CANCELLED") /\ o = script[s].orders[1]
    BY <1>1, <2>1, Phase1Wants DEF Turn, Subject, Call
  <2>5. status' = [status EXCEPT ![o] = "CANCELLED"] /\ Order!Log(o, "order.cancelled")
    BY <2>3 DEF Order!Cancel, Order!Move
  <2> QED
    BY <1>0, <1>2, <2>1, <2>3, <2>4, <2>5, MoveInv DEF Running
<1>4. CASE Pay(s)
  <2>1. Running(s) /\ Call(s).op = "pay"
    BY <1>4 DEF Pay, At, Running
  <2>2. /\ s = "phase1" /\ script[s].at \in {6, 9} /\ script[s].user \notin revoked
    BY <2>1, PaySubject
  <2>3. PICK now : now = [script[s] EXCEPT !.tries = 0]
    OBVIOUS
  <2>4. /\ PayOrder(o) /\ Judge(s, now, <<status'[o]>>) /\ UNCHANGED placed
        /\ UNCHANGED <<sessionVars, logins>>
    BY <1>1, <1>4, <2>2, <2>3 DEF Pay, Admitted
  <2>5. /\ now \in ScriptRecs /\ now.at = script[s].at /\ now.orders = script[s].orders
        /\ now.user = script[s].user /\ now.admin = script[s].admin
        /\ now.outcome = "running" /\ now.tries < Attempts
    <3>1. 0 \in 0 .. Attempts - 1 /\ 0 < Attempts
      BY <1>2
    <3> QED
      BY <1>0, <2>1, <2>3, <3>1 DEF ScriptRecs, Running
  <2>6. PICK k \in 1 .. Len(script[s].orders) :
           /\ k = (IF script[s].at = 6 THEN 2 ELSE 3) /\ Subject(s) = script[s].orders[k]
           /\ status[script[s].orders[k]] \in {"PAYING", "PAID_PENDING_APPROVAL"}
    BY <2>1, PaySubject
  <2>7. /\ Turn(script[s].at, k, "PAID_PENDING_APPROVAL") /\ o = script[s].orders[k]
        /\ o \in Ids /\ status[o] \in {"PAYING", "PAID_PENDING_APPROVAL"}
    <3>1. OwnOrders
      BY DEF TestsInv
    <3>2. script[s].orders[k] \in Orders
      BY <3>1 DEF OwnOrders
    <3> QED
      BY <1>1, <2>2, <2>6, <3>2 DEF Turn, Orders
  <2>8. /\ status' = [status EXCEPT ![o] = "PAID_PENDING_APPROVAL"]
        /\ UNCHANGED events \/ Order!Log(o, "order.created")
    <3>1. CASE Order!Pay(o)
      BY <3>1 DEF Order!Pay, Order!Move
    <3>2. CASE status[o] \in Order!PendingApproval /\ UNCHANGED <<status, events>>
      <4>1. status[o] = "PAID_PENDING_APPROVAL"
        BY <2>7, <3>2 DEF Order!PendingApproval
      <4>2. status \in [Ids -> Order!Statuses]
        BY <1>0 DEF TestsTypeOK, Order!TypeOK
      <4> QED
        BY <2>7, <3>2, <4>1, <4>2
    <3> QED
      BY <2>4, <3>1, <3>2 DEF PayOrder
  <2> QED
    BY <2>1, <2>2, <2>4, <2>5, <2>7, <2>8, MoveInv
<1>5. CASE Approve(s)
  <2>1. Running(s) /\ s = "phase1" /\ script[s].at = 7
    BY <1>0, <1>5, WhoCalls DEF Approve, At, Running
  <2>2. script[s].admin \notin revoked
    BY <1>0, <2>1 DEF Tokens
  <2>3. /\ Order!Approve(o) /\ Judge(s, script[s], <<status'[o]>>) /\ UNCHANGED placed
        /\ UNCHANGED <<sessionVars, logins>>
    BY <1>1, <1>5, <2>2 DEF Approve, Admitted
  <2>4. Turn(script[s].at, 2, "SHIPPING") /\ o = script[s].orders[2]
    BY <1>1, <2>1, Phase1Wants DEF Turn, Subject, Call
  <2>5. status' = [status EXCEPT ![o] = "SHIPPING"] /\ Order!Log(o, "order.approved")
    BY <2>3 DEF Order!Approve, Order!Move
  <2> QED
    BY <1>0, <1>2, <2>1, <2>3, <2>4, <2>5, MoveInv DEF Running
<1>6. CASE Reject(s)
  <2>1. Running(s) /\ s = "phase1" /\ script[s].at = 10
    BY <1>0, <1>6, WhoCalls DEF Reject, At, Running
  <2>2. script[s].admin \notin revoked
    BY <1>0, <2>1 DEF Tokens
  <2>3. /\ Order!Reject(o) /\ Judge(s, script[s], <<status'[o]>>) /\ UNCHANGED placed
        /\ UNCHANGED <<sessionVars, logins>>
    BY <1>1, <1>6, <2>2 DEF Reject, Admitted
  <2>4. Turn(script[s].at, 3, "REJECTED") /\ o = script[s].orders[3]
    BY <1>1, <2>1, Phase1Wants DEF Turn, Subject, Call
  <2>5. status' = [status EXCEPT ![o] = "REJECTED"] /\ Order!Log(o, "order.rejected")
    BY <2>3 DEF Order!Reject, Order!Move
  <2> QED
    BY <1>0, <1>2, <2>1, <2>3, <2>4, <2>5, MoveInv DEF Running
<1> QED
  BY <1>3, <1>4, <1>5, <1>6

----------------------------------------------------------------------------
(* A new order *)

LEMMA CreateInv == ASSUME TestsInv, NEW s \in Scripts, Create(s) PROVE TestsInv'
<1>0. /\ TestsTypeOK /\ Positions /\ Tokens /\ Dense /\ OwnOrders /\ Scene(s) /\ Running(s)
      /\ Call(s).op = "create" /\ script[s] \in ScriptRecs
  BY DEF TestsInv, Scenes, Create, At, Running, TestsTypeOK
<1>1. \/ s = "phase1" /\ script[s].at \in {3, 5, 8}
      \/ s = "mongodb" /\ script[s].at = 2
      \/ s = "rabbitmq" /\ script[s].at = 1
  BY <1>0, WhoCalls
<1>2. s # "phase2" /\ script[s].user \notin revoked
  BY <1>0, <1>1 DEF Tokens
<1>3. UNCHANGED <<sessionVars, logins>>
  BY DEF Create, Admitted
<1>4. CASE Left = 0
  <2>1. logins' \in Nat
    BY <1>3 DEF TestsInv, TestsTypeOK
  <2> QED
    BY <1>2, <1>3, <1>4, <2>1, StopInv DEF Create, Admitted
<1>5. CASE Left # 0
  <2>1. PICK o : o = NextId
    OBVIOUS
  <2>2. PICK now : now = [script[s] EXCEPT !.orders = Append(script[s].orders, o)]
    OBVIOUS
  <2>3. /\ o \in Ids /\ Order!Create(o) /\ placed' = [placed EXCEPT ![o] = s]
        /\ Judge(s, now, <<status'[o]>>)
    BY <1>2, <1>5, <2>1, <2>2 DEF Create, Admitted
  <2>4. status' = [status EXCEPT ![o] = "PAYING"] /\ UNCHANGED events
    BY <2>3 DEF Order!Create, Order!Move
  <2>5. status'[o] = "PAYING" /\ \A p \in Ids : p # o => status'[p] = status[p]
    BY <1>0, <2>3, <2>4 DEF TestsTypeOK, Order!TypeOK
  <2>6. PICK n \in Nat : n = Cardinality(Orders) /\ Orders = 1 .. n /\ o = n + 1
    <3>1. IsFiniteSet(Orders)
      <4>1. IsFiniteSet(Ids)
        BY FS_Interval, LimitAssumption DEF Ids
      <4> QED
        BY <4>1, FS_Subset DEF Orders
    <3> QED
      BY <1>0, <2>1, <3>1, FS_CardinalityType DEF Dense, NextId
  <2>7. o \notin Orders /\ Orders' = Orders \cup {o} /\ Orders' = 1 .. o /\ o \in Nat
    <3>1. o \notin Orders /\ o \in Nat /\ Orders \cup {o} = 1 .. o
      <4>1. (n + 1) \notin (1 .. n) /\ (1 .. n) \cup {n + 1} = 1 .. (n + 1)
        OBVIOUS
      <4>0. n + 1 \in Nat
        OBVIOUS
      <4>2. Orders = 1 .. n /\ o = n + 1 /\ o \in Nat
        BY <2>6, <4>0, Zenon
      <4>3. o \notin Orders
        BY <4>1, <4>2, Zenon
      <4>4. Orders \cup {o} = 1 .. o
        BY <4>1, <4>2, Zenon
      <4> QED
        BY <4>2, <4>3, <4>4
    <3>2. Orders' = Orders \cup {o}
      BY <2>3, <2>5 DEF Orders
    <3> QED
      BY <3>1, <3>2
  <2>8. /\ now \in ScriptRecs /\ now.at = script[s].at /\ now.user = script[s].user
        /\ now.admin = script[s].admin /\ now.outcome = "running" /\ now.tries = script[s].tries
        /\ now.orders = Append(script[s].orders, o)
    <3>0. script[s].orders \in Seq(Ids)
      BY <1>0 DEF ScriptRecs
    <3>1. PICK more \in Seq(Ids) : more = Append(script[s].orders, o)
      <4>1. PICK mine \in Seq(Ids) : mine = script[s].orders
        BY <3>0
      <4>2. o \in Ids
        BY <2>3
      <4>3. Append(mine, o) \in Seq(Ids)
        BY <4>2
      <4> QED
        BY <4>1, <4>3
    <3> QED
      BY <1>0, <2>2, <3>1 DEF ScriptRecs, Running
  <2>9. PICK answer : answer = <<status'[o]>>
    OBVIOUS
  <2>10. /\ Only(s)
         /\ answer # Call(s).want => script'[s] = [now EXCEPT !.outcome = "expect"]
         /\ answer = Call(s).want /\ now.at = Len(Program[s]) => script'[s] = [now EXCEPT !.outcome = "passed"]
         /\ answer = Call(s).want /\ now.at # Len(Program[s]) => script'[s] = [now EXCEPT !.at = now.at + 1]
    <3>1. Judge(s, now, answer)
      BY <2>3, <2>9
    <3>2. TestsTypeOK /\ now \in ScriptRecs
      BY <1>0, <2>8
    <3> QED
      BY <3>1, <3>2, Judged
  <2>11. /\ s = "phase1" => answer = Call(s).want /\ now.at # Len(Program[s])
         /\ s # "phase1" => answer # Call(s).want
    <3>1. answer = <<"PAYING">>
      BY <2>5, <2>9
    <3>2. CASE s = "phase1"
      <4>1. Call(s).want = <<"PAYING">>
        BY <1>1, <3>2, Phase1Wants DEF Call
      <4>2. now.at # Len(Program[s])
        BY <1>1, <2>8, <3>2, Lengths
      <4> QED
        BY <3>1, <3>2, <4>1, <4>2
    <3>3. CASE s \in {"mongodb", "rabbitmq"}
      <4>1. Call(s).want = <<"PENDING_APPROVAL">>
        BY <1>1, <3>3, OlderCalls DEF Call, Do
      <4>2. <<"PAYING">> # <<"PENDING_APPROVAL">>
        OBVIOUS
      <4> QED
        BY <3>1, <3>3, <4>1, <4>2
    <3> QED
      BY <1>1, <3>2, <3>3
  <2>12. /\ s = "phase1" => script'[s] = [now EXCEPT !.at = now.at + 1]
         /\ s # "phase1" => script'[s] = [now EXCEPT !.outcome = "expect"]
    BY <2>10, <2>11
  <2>13. /\ script'[s].user = script[s].user /\ script'[s].admin = script[s].admin
         /\ script'[s].tries = script[s].tries /\ script'[s].orders = Append(script[s].orders, o)
         /\ s = "phase1" => script'[s].at = script[s].at + 1 /\ script'[s].outcome = "running"
         /\ s # "phase1" => script'[s].at = script[s].at /\ script'[s].outcome = "expect"
    BY <2>8, <2>12 DEF ScriptRecs
  <2>14. UNCHANGED <<issued, revoked, logins>>
    BY <1>3 DEF sessionVars
  <2>15. TestsTypeOK'
    <3>1. status' \in [Ids -> Order!Statuses]
      BY <1>0, <2>4 DEF TestsTypeOK, Order!TypeOK, Order!Statuses
    <3>2. placed' \in [Ids -> Scripts \cup {"nobody"}]
      BY <1>0, <2>3 DEF TestsTypeOK
    <3> QED
      BY <1>0, <2>4, <2>10, <2>14, <3>1, <3>2 DEF TestsTypeOK, Order!TypeOK, Only
  <2>16. \A p \in Orders : placed'[p] = placed[p] /\ status'[p] = status[p]
    BY <1>0, <2>3, <2>5, <2>7 DEF TestsTypeOK, Orders
  <2>17. Dense'
    <3>1. Cardinality(1 .. o) = o
      BY <2>6, <2>7, FS_Interval
    <3> QED
      BY <2>7, <3>1 DEF Dense
  <2>18. Tokens'
    <3>1. \A t \in Scripts : script'[t].user = script[t].user /\ script'[t].admin = script[t].admin
      BY <2>10, <2>13 DEF Only
    <3> QED
      BY <2>14, <3>1, SameTokens
  <2>19. OwnOrders'
    <3> DEFINE Owns(t) ==
            /\ \A i \in 1 .. Len(script'[t].orders) :
                  /\ script'[t].orders[i] \in Orders' /\ placed'[script'[t].orders[i]] = t
                  /\ \A j \in 1 .. Len(script'[t].orders) :
                        i < j => script'[t].orders[i] < script'[t].orders[j]
            /\ \A p \in Orders' : placed'[p] = t =>
                  \E i \in 1 .. Len(script'[t].orders) : script'[t].orders[i] = p
    <3>1. placed'[o] = s
      BY <1>0, <2>3 DEF TestsTypeOK
    <3>2. ASSUME NEW t \in Scripts, t # s PROVE Owns(t)
      <4>1. script'[t].orders = script[t].orders
        BY <2>10, <3>2 DEF Only
      <4> QED
        BY <1>0, <2>7, <2>16, <3>1, <3>2, <4>1 DEF OwnOrders
    <3>3. Owns(s)
      <4> DEFINE mine == script[s].orders
                 all == script'[s].orders
                 l == Len(mine)
      <4>1. mine \in Seq(Ids) /\ l \in Nat
        BY <1>0 DEF ScriptRecs
      <4>2. all = Append(mine, o)
        BY <2>13
      <4> HIDE DEF mine, all
      <4>3. Len(all) = l + 1 /\ all[l + 1] = o /\ \A i \in 1 .. l : all[i] = mine[i]
        BY <4>1, <4>2, <2>3
      <4>4. \A i \in 1 .. l : mine[i] \in Orders /\ mine[i] < o /\ placed'[mine[i]] = s
        <5>1. \A i \in 1 .. l : mine[i] \in Orders /\ placed[mine[i]] = s
          BY <1>0 DEF OwnOrders, mine
        <5>2. \A p \in Orders : p < o
          <6>1. \A p \in 1 .. n : p < n + 1
            OBVIOUS
          <6>2. Orders = 1 .. n /\ o = n + 1
            BY <2>6
          <6> QED
            BY <6>1, <6>2, Zenon
        <5> QED
          BY <2>16, <5>1, <5>2
      <4>5. \A i, j \in 1 .. l : i < j => mine[i] < mine[j]
        BY <1>0 DEF OwnOrders, mine
      <4>6. \A p \in Orders : placed[p] = s => \E i \in 1 .. l : mine[i] = p
        BY <1>0 DEF OwnOrders, mine
      <4> HIDE DEF l
      <4>7. \A i \in 1 .. Len(all) : i \in 1 .. l \/ i = l + 1
        BY <4>1, <4>3 DEF l
      <4>8. ASSUME NEW i \in 1 .. Len(all)
            PROVE  /\ all[i] \in Orders' /\ placed'[all[i]] = s
                   /\ \A j \in 1 .. Len(all) : i < j => all[i] < all[j]
        <5>1. all[i] \in Orders' /\ placed'[all[i]] = s
          BY <2>7, <3>1, <4>3, <4>4, <4>7
        <5>2. ASSUME NEW j \in 1 .. Len(all), i < j PROVE all[i] < all[j]
          <6>1. l \in Nat
            BY <4>1
          <6>2. i \in 1 .. l
            BY <4>3, <4>7, <5>2, <6>1
          <6>3. CASE j \in 1 .. l
            BY <4>3, <4>5, <5>2, <6>2, <6>3
          <6>4. CASE j = l + 1
            BY <4>3, <4>4, <6>2, <6>4
          <6> QED
            BY <4>7, <6>3, <6>4
        <5> QED
          BY <5>1, <5>2
      <4>9. ASSUME NEW p \in Orders', placed'[p] = s PROVE \E i \in 1 .. Len(all) : all[i] = p
        <5>1. CASE p = o
          BY <4>1, <4>3, <5>1
        <5>2. CASE p # o
          <6>1. p \in Orders /\ placed[p] = s
            BY <2>7, <2>16, <4>9, <5>2
          <6>2. PICK i \in 1 .. l : mine[i] = p
            BY <4>6, <6>1
          <6> QED
            BY <4>1, <4>3, <6>2
        <5> QED
          BY <5>1, <5>2
      <4> QED
        BY <4>8, <4>9 DEF all
    <3>4. \A t \in Scripts : Owns(t)
      BY <3>2, <3>3
    <3> QED
      BY <3>4 DEF OwnOrders
  <2>20. Scene(s)'
    <3>1. CASE s = "phase1"
      <4> DEFINE mine == script[s].orders
                 k == script[s].at
      <4>1. Story(s) /\ k \in {3, 5, 8} /\ Len(mine) = PlacedBy(k) /\ mine \in Seq(Ids)
        BY <1>0, <1>1, <3>1 DEF Scene, Story, ScriptRecs
      <4>2. /\ script'[s].at = k + 1 /\ script'[s].orders = Append(mine, o)
            /\ Len(Append(mine, o)) = Len(mine) + 1 /\ Append(mine, o)[Len(mine) + 1] = o
            /\ \A i \in 1 .. Len(mine) : Append(mine, o)[i] = mine[i]
        BY <2>3, <2>13, <3>1, <4>1
      <4>3. \A i \in 1 .. Len(mine) : status'[mine[i]] = status[mine[i]]
        BY <1>0, <2>16 DEF OwnOrders
      <4>4. Story(s)'
        <5> HIDE DEF mine, k
        <5>1. CASE k = 3
          BY <2>5, <4>1, <4>2, <5>1 DEF Story, PlacedBy, First
        <5>2. CASE k = 5
          <6>1. Len(mine) = 1 /\ status[mine[1]] = "CANCELLED"
            BY <4>1, <5>2 DEF Story, PlacedBy, First, mine, k
          <6> QED
            BY <2>5, <4>2, <4>3, <5>2, <6>1 DEF Story, PlacedBy, First, Second
        <5>3. CASE k = 8
          <6>1. Len(mine) = 2 /\ status[mine[1]] = "CANCELLED" /\ status[mine[2]] = "SHIPPING"
            BY <4>1, <5>3 DEF Story, PlacedBy, First, Second, mine, k
          <6> QED
            BY <2>5, <4>2, <4>3, <5>3, <6>1 DEF Story, PlacedBy, First, Second, Third
        <5> QED
          BY <4>1, <5>1, <5>2, <5>3
      <4> QED
        BY <3>1, <4>4 DEF Scene
    <3>2. CASE s # "phase1"
      BY <2>13, <3>2 DEF Scene, Running
    <3> QED
      BY <3>1, <3>2
  <2>21. Explained(s)'
    <3>1. CASE s = "phase1"
      BY <2>13, <3>1 DEF Explained
    <3>2. CASE s # "phase1"
      <4>1. Call(s)' = Call(s)
        BY <2>13, <3>2 DEF Call
      <4>2. s \in {"mongodb", "rabbitmq"}
        BY <1>1, <3>2
      <4> QED
        BY <1>0, <2>13, <3>2, <4>1, <4>2 DEF Explained
    <3> QED
      BY <3>1, <3>2
  <2>22. script'[s].at \in 1 .. Len(Program[s]) /\ script'[s].tries < Attempts
    <3>1. CASE s = "phase1"
      <4>1. Len(Program[s]) = 12
        BY <3>1, Lengths
      <4>2. script'[s].at \in {4, 6, 9}
        BY <1>1, <2>13, <3>1
      <4>3. script'[s].tries < Attempts
        BY <1>0, <2>13 DEF Positions
      <4> QED
        BY <4>1, <4>2, <4>3
    <3>2. CASE s # "phase1"
      BY <1>0, <2>13, <3>2 DEF Positions
    <3> QED
      BY <3>1, <3>2
  <2> QED
    BY <2>7, <2>10, <2>14, <2>15, <2>16, <2>17, <2>18, <2>19, <2>20, <2>21, <2>22, Assemble
<1> QED
  BY <1>4, <1>5

----------------------------------------------------------------------------
(* The theorems *)

LEMMA TestsInitInv == TestsInit => TestsInv
<1> SUFFICES ASSUME TestsInit PROVE TestsInv
  OBVIOUS
<1>1. \A s \in Scripts : script[s] = NewScript
  BY DEF TestsInit
<1>2. NewScript \in ScriptRecs
  BY LimitAssumption DEF NewScript, ScriptRecs, NoToken
<1>3. TestsTypeOK
  <2>1. Order!TypeOK
    BY DEF TestsInit, Order!Init, Order!TypeOK, Order!Statuses
  <2> QED
    BY <1>2, <2>1, LimitAssumption DEF TestsInit, TestsTypeOK
<1>4. Orders = {}
  BY DEF Orders, TestsInit, Order!Init
<1>5. Dense
  BY <1>4, FS_EmptySet DEF Dense
<1>6. /\ NewScript.at = 1 /\ NewScript.tries = 0 /\ NewScript.orders = <<>> /\ NewScript.user = 0
      /\ NewScript.admin = 0 /\ NewScript.outcome = "running"
  BY DEF NewScript, NoToken
<1>7. Positions
  <2>1. Attempts \in Nat /\ 0 < Attempts
    BY LimitAssumption
  <2>2. ASSUME NEW s \in Scripts PROVE 1 \in 1 .. Len(Program[s])
    <3>1. s \in ScriptNames
      BY ScriptAssumption
    <3>2. PICK l : l = Len(Program[s])
      OBVIOUS
    <3>3. l \in {12, 6, 2, 1}
      BY <3>1, <3>2, Lengths DEF ScriptNames
    <3>4. 1 \in 1 .. l
      BY <3>3
    <3> QED
      BY <3>2, <3>4
  <2> QED
    BY <1>1, <1>6, <2>1, <2>2 DEF Positions
<1>8. OwnOrders
  BY <1>1, <1>4, <1>6 DEF OwnOrders
<1>9. Tokens
  BY <1>1, <1>6 DEF Tokens, TestsInit
<1>10. Scenes
  BY <1>1, <1>6 DEF Scenes, Scene, Session, Story, PlacedBy
<1>11. FailureExplained
  BY <1>1, <1>6 DEF FailureExplained
<1> QED
  BY <1>3, <1>5, <1>7, <1>8, <1>9, <1>10, <1>11 DEF TestsInv

LEMMA TestsNextInv == TestsInv /\ [TestsNext]_testVars => TestsInv'
<1> SUFFICES ASSUME TestsInv, [TestsNext]_testVars PROVE TestsInv'
  OBVIOUS
<1>1. CASE WindowEnds
  BY <1>1, WindowInv
<1>2. ASSUME NEW s \in Scripts, Step(s) PROVE TestsInv'
  BY <1>2, LoginInv, MeInv, LogoutInv, CreateInv, ReviewInv, PayTimesOutInv, LatestInv, QueueInv DEF Step
<1>3. CASE UNCHANGED testVars
  <2>1. UNCHANGED <<status, events, placed, issued, revoked, logins, script>>
    BY <1>3 DEF testVars, orderVars, sessionVars
  <2>2. Orders' = Orders
    BY <2>1 DEF Orders
  <2>3. TestsTypeOK' /\ Positions' /\ Tokens'
    BY <2>1 DEF TestsInv, TestsTypeOK, Order!TypeOK, Positions, Tokens
  <2>4. Dense' /\ OwnOrders'
    BY <2>1, <2>2, SameOrders
  <2>5. Scenes'
    BY <2>1 DEF TestsInv, Scenes, Scene, Running, Session, Story
  <2>6. FailureExplained'
    BY <2>1, <2>2 DEF TestsInv, FailureExplained, Call, Disturbed
  <2> QED
    BY <2>3, <2>4, <2>5, <2>6 DEF TestsInv
<1> QED
  BY <1>1, <1>2, <1>3 DEF TestsNext

LEMMA TestsSpecInv == TestsSpec => []TestsInv
BY TestsInitInv, TestsNextInv, PTL DEF TestsSpec

\* Whichever scripts run together, every part keeps its type. A payment that
\* times out again and again ends after the attempts pay_order has: the script
\* never holds as many failed ones as there are attempts.
THEOREM SpecTestsTypeOK == TestsSpec => []TestsTypeOK
<1>1. TestsInv => TestsTypeOK
  BY DEF TestsInv
<1> QED
  BY <1>1, TestsSpecInv, PTL

\* Whichever scripts run together, for any stock, limit and number of attempts,
\* no call is refused for its token, and an expectation fails only in a script
\* written for the older flow or where another script's order is listed.
THEOREM SpecFailureExplained == TestsSpec => []FailureExplained
<1>1. TestsInv => FailureExplained
  BY DEF TestsInv
<1> QED
  BY <1>1, TestsSpecInv, PTL

=============================================================================
