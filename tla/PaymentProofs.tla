---------------------------- MODULE PaymentProofs ----------------------------
(***************************************************************************)
(* Theorems about what surrounds a payment: InFlightLock, for any set of   *)
(* threads, and ExternalCallGuard, for any calls, permits and pool sizes.  *)
(***************************************************************************)
EXTENDS InFlightLock, ExternalCallGuard, FiniteSetTheorems, TLAPS

----------------------------------------------------------------------------
(* The lock *)

\* What the proofs need to know of the functions.
PayShape ==
    /\ pc \in [Threads -> Using \cup {"idle", "commit", "done"}]
    /\ mine \in [Threads -> Nat]
    /\ result \in [Threads -> {"none", "charged", "already", "failed", "paid", "conflict"}]
    /\ seen \in [Threads -> Nat]
    /\ version \in Nat
    /\ entry \in Nat /\ made \in Nat

\* A thread that has charged read the row while it was PAYING: as long as the
\* version it saw is current, the row is not paid.
Payments ==
    /\ \A t \in Threads :
          /\ pc[t] = "commit" => result[t] = "charged"
          /\ pc[t] \in {"idle", "acquire", "queued", "read", "charge"} => result[t] = "none"
          /\ pc[t] = "charge" \/ result[t] = "charged" =>
                seen[t] <= version /\ (seen[t] = version => ~paid)
    /\ OneWinner

PayInv == PayShape /\ EntryInUse /\ Payments

LEMMA PayInitInv == PayInit => PayInv
BY DEF PayInit, PayInv, PayShape, EntryInUse, Payments, OneWinner, Using

LEMMA NextShape == PayInv /\ [PayNext]_payVars => PayShape'
<1> SUFFICES ASSUME PayInv, [PayNext]_payVars PROVE PayShape'
  OBVIOUS
<1> USE DEF PayInv, PayShape, Goto, Using, lockVars, rowVars
<1>1. ASSUME NEW t \in Threads, GetLock(t) PROVE PayShape'
  BY <1>1 DEF GetLock
<1>2. ASSUME NEW t \in Threads, Acquire(t) \/ Enqueue(t) \/ Unlock(t) \/ Tidy(t) PROVE PayShape'
  BY <1>2 DEF Acquire, Enqueue, Unlock, Tidy
<1>3. ASSUME NEW t \in Threads, Read(t) \/ Charge(t) PROVE PayShape'
  BY <1>3 DEF Read, Charge
<1>4. ASSUME NEW t \in Threads, Commit(t) PROVE PayShape'
  BY <1>4 DEF Commit
<1>5. CASE UNCHANGED payVars
  BY <1>5 DEF payVars
<1> QED
  BY <1>1, <1>2, <1>3, <1>4, <1>5 DEF PayNext, PayStep

LEMMA NextEntry == PayInv /\ [PayNext]_payVars => EntryInUse'
<1> SUFFICES ASSUME PayInv, [PayNext]_payVars PROVE EntryInUse'
  OBVIOUS
<1> USE DEF PayInv, PayShape, EntryInUse, Goto, lockVars
<1>1. ASSUME NEW t \in Threads, GetLock(t) PROVE EntryInUse'
  BY <1>1 DEF GetLock, Using
<1>2. ASSUME NEW t \in Threads,
             Acquire(t) \/ Enqueue(t) \/ Read(t) \/ Charge(t) \/ Unlock(t)
      PROVE  EntryInUse'
  BY <1>2 DEF Acquire, Enqueue, Read, Charge, Unlock, Using
<1>3. ASSUME NEW t \in Threads, Tidy(t) PROVE EntryInUse'
  <2>1. CASE ~HasQueuedThreads(mine[t]) /\ entry = mine[t]
    BY <1>3, <2>1 DEF Tidy
  <2>2. CASE HasQueuedThreads(mine[t]) /\ entry = mine[t]
    <3>1. PICK u \in Threads : pc[u] = "queued" /\ mine[u] = entry
      BY <2>2 DEF HasQueuedThreads
    <3>2. u # t
      BY <1>3, <3>1 DEF Tidy
    <3> QED
      BY <1>3, <3>1, <3>2 DEF Tidy, Using
  <2>3. CASE entry # mine[t]
    BY <1>3, <2>3 DEF Tidy, Using
  <2> QED
    BY <2>1, <2>2, <2>3
<1>4. ASSUME NEW t \in Threads, Commit(t) PROVE EntryInUse'
  BY <1>4 DEF Commit, Using
<1>5. CASE UNCHANGED payVars
  BY <1>5 DEF payVars
<1> QED
  BY <1>1, <1>2, <1>3, <1>4, <1>5 DEF PayNext, PayStep

LEMMA NextPayments == PayInv /\ [PayNext]_payVars => Payments'
<1> SUFFICES ASSUME PayInv, [PayNext]_payVars PROVE Payments'
  OBVIOUS
<1> USE DEF PayInv, PayShape, Payments, OneWinner, Goto, lockVars, rowVars
<1>1. ASSUME NEW t \in Threads, GetLock(t) PROVE Payments'
  BY <1>1 DEF GetLock
<1>2. ASSUME NEW t \in Threads, Acquire(t) \/ Enqueue(t) \/ Unlock(t) PROVE Payments'
  BY <1>2 DEF Acquire, Enqueue, Unlock
<1>3. ASSUME NEW t \in Threads, Read(t) PROVE Payments'
  BY <1>3 DEF Read
<1>4. ASSUME NEW t \in Threads, Charge(t) PROVE Payments'
  BY <1>4 DEF Charge
<1>5. ASSUME NEW t \in Threads, Tidy(t) PROVE Payments'
  BY <1>5 DEF Tidy
<1>6. ASSUME NEW t \in Threads, Commit(t) PROVE Payments'
  BY <1>6 DEF Commit, VersionUnchanged
<1>7. CASE UNCHANGED payVars
  BY <1>7 DEF payVars
<1> QED
  BY <1>1, <1>2, <1>3, <1>4, <1>5, <1>6, <1>7 DEF PayNext, PayStep

LEMMA PaySpecInv == PaySpec => []PayInv
<1>1. PayInv /\ [PayNext]_payVars => PayInv'
  BY NextShape, NextEntry, NextPayments DEF PayInv
<1> QED
  BY PayInitInv, <1>1, PTL DEF PaySpec

\* The lock map does not leak: an entry is always in use, for any number of
\* requests and any interleaving of unlock, hasQueuedThreads and remove.
THEOREM NoEntryLeak == PaySpec => []EntryInUse
<1>1. PayInv => EntryInUse
  BY DEF PayInv
<1> QED
  BY <1>1, PaySpecInv, PTL

\* Although the lock may admit two payments at once, the version column lets at
\* most one of them commit.
THEOREM OnePaymentCommits == PaySpec => []OneWinner
<1>1. PayInv => OneWinner
  BY DEF PayInv, Payments
<1> QED
  BY <1>1, PaySpecInv, PTL

----------------------------------------------------------------------------
(* The guard *)

\* Until its caller has submitted it there is no task; only callSync joins and
\* releases on the caller's thread, only callAsync on the pool thread.
Stage(c) ==
    /\ caller[c] \in {"idle", "acquire", "submit"} => task[c] = "none"
    /\ c \in SyncCalls => caller[c] # "attach" /\ task[c] \notin {"acquire", "release", "callback", "reported"}
    /\ c \in AsyncCalls => caller[c] \notin {"acquire", "join", "release"}

\* The queue holds tasks nobody has started, each once.
QueueInv ==
    /\ \A i \in 1 .. Len(queue) : task[queue[i]] = "queued"
    /\ \A i, j \in 1 .. Len(queue) : queue[i] = queue[j] => i = j

Inv ==
    /\ TypeOK /\ QueueInv /\ PermitsConserved /\ FailureReportedOnce
    /\ \A c \in Calls : Stage(c)

----------------------------------------------------------------------------
(* Permits *)

LEMMA HoldersFinite == IsFiniteSet(Holders) /\ Cardinality(Holders) \in Nat
<1>1. Holders \in SUBSET Calls
  BY DEF Holders, Calls
<1> QED
  BY <1>1, CallAssumption, FS_Subset, FS_CardinalityType

LEMMA SameHolders ==
    ASSUME Inv, UNCHANGED permits, Holders' = Holders
    PROVE  PermitsConserved' /\ permits' \in 0 .. Permits
BY DEF Inv, TypeOK, PermitsConserved

LEMMA OneMoreHolder ==
    ASSUME Inv, NEW c, c \notin Holders, Holders' = Holders \cup {c}, permits > 0, permits' = permits - 1
    PROVE  PermitsConserved' /\ permits' \in 0 .. Permits
<1>1. Cardinality(Holders \cup {c}) = Cardinality(Holders) + 1
  BY HoldersFinite, FS_AddElement
<1>2. permits \in 0 .. Permits /\ Permits \in Nat /\ permits + Cardinality(Holders) = Permits
  BY SizeAssumption DEF Inv, TypeOK, PermitsConserved
<1> QED
  BY <1>1, <1>2, HoldersFinite DEF PermitsConserved

LEMMA OneHolderLess ==
    ASSUME Inv, NEW c \in Holders, Holders' = Holders \ {c}, permits' = permits + 1
    PROVE  PermitsConserved' /\ permits' \in 0 .. Permits
<1>1. Cardinality(Holders \ {c}) = Cardinality(Holders) - 1
  BY HoldersFinite, FS_RemoveElement
<1>2. permits \in 0 .. Permits /\ Permits \in Nat /\ permits + Cardinality(Holders) = Permits
  BY SizeAssumption DEF Inv, TypeOK, PermitsConserved
<1>3. IsFiniteSet(Holders \ {c}) /\ Cardinality(Holders \ {c}) \in Nat
  BY HoldersFinite, FS_RemoveElement, FS_CardinalityType
<1> QED
  BY <1>1, <1>2, <1>3, HoldersFinite DEF PermitsConserved

----------------------------------------------------------------------------

LEMMA InitInv == Init => Inv
<1> SUFFICES ASSUME Init PROVE Inv
  OBVIOUS
<1>1. TypeOK
  BY SizeAssumption DEF Init, TypeOK, CallerSteps, TaskSteps
<1>2. QueueInv
  BY DEF Init, QueueInv
<1>3. Holders = {}
  BY DEF Init, Holders, Calls
<1>4. PermitsConserved
  BY <1>3, FS_EmptySet, SizeAssumption DEF Init, PermitsConserved
<1>5. FailureReportedOnce /\ \A c \in Calls : Stage(c)
  BY DEF Init, FailureReportedOnce, Stage, Calls
<1> QED
  BY <1>1, <1>2, <1>4, <1>5 DEF Inv

USE DEF CallerTo, TaskTo, Calls

LEMMA BeginInv == ASSUME Inv, NEW c \in Calls, Begin(c) PROVE Inv'
<1> USE DEF Inv, TypeOK, Begin
<1>1. Holders' = Holders
  BY CallAssumption DEF Holders, Stage
<1>2. TypeOK' /\ PermitsConserved'
  BY <1>1, SameHolders DEF CallerSteps
<1>3. QueueInv'
  BY DEF QueueInv
<1>4. FailureReportedOnce'
  BY DEF FailureReportedOnce
<1>5. \A d \in Calls : Stage(d)'
  BY CallAssumption DEF Stage
<1> QED
  BY <1>2, <1>3, <1>4, <1>5

LEMMA SyncAcquireInv == ASSUME Inv, NEW c \in Calls, SyncAcquire(c) PROVE Inv'
<1> USE DEF Inv, TypeOK, SyncAcquire
<1>0. c \in SyncCalls /\ task[c] = "none" /\ UNCHANGED <<threads, queue, task, retries>>
  BY CallAssumption DEF Stage
<1>1. PICK w \in {"submit", "done"} : caller' = [caller EXCEPT ![c] = w]
  OBVIOUS
<1>2. PermitsConserved' /\ permits' \in 0 .. Permits
  <2>1. CASE permits > 0 /\ permits' = permits - 1 /\ CallerTo(c, "submit")
    <3>1. c \notin Holders /\ Holders' = Holders \cup {c}
      BY <1>0, <2>1, CallAssumption DEF Holders
    <3> QED
      BY <2>1, <3>1, OneMoreHolder
  <2>2. CASE Expired /\ Refuse /\ CallerTo(c, "done")
    <3>1. Holders' = Holders
      BY <1>0, <2>2, CallAssumption DEF Holders
    <3> QED
      BY <2>2, <3>1, SameHolders DEF Refuse
  <2> QED
    BY <2>1, <2>2
<1>3. TypeOK'
  BY <1>0, <1>1, <1>2 DEF CallerSteps
<1>4. QueueInv'
  BY <1>0 DEF QueueInv
<1>5. FailureReportedOnce'
  BY <1>0, <1>1, CallAssumption DEF FailureReportedOnce
<1>6. \A d \in Calls : Stage(d)'
  BY <1>0, <1>1, CallAssumption DEF Stage
<1> QED
  BY <1>2, <1>3, <1>4, <1>5, <1>6

\* A rejected callSync keeps its permit until its finally block.
LEMMA SubmitInv == ASSUME Inv, NEW c \in Calls, Submit(c) PROVE Inv'
<1> USE DEF Inv, TypeOK
<1>0. caller[c] = "submit" /\ task[c] = "none" /\ UNCHANGED <<permits, retries>>
  BY DEF Submit, Stage
<1>1. \/ /\ caller' = [caller EXCEPT ![c] = AfterSubmit(c)]
         /\ task' = [task EXCEPT ![c] = FirstStep(c)] \/ task' = [task EXCEPT ![c] = "queued"]
      \/ caller' = [caller EXCEPT ![c] = AfterRejection(c)] /\ task' = [task EXCEPT ![c] = "none"]
  BY <1>0 DEF Submit
<1>2. PICK w \in CallerSteps, t \in TaskSteps :
        /\ caller' = [caller EXCEPT ![c] = w] /\ task' = [task EXCEPT ![c] = t]
        /\ c \in SyncCalls => (w = "join" /\ t \in {"run", "queued"}) \/ (w = "release" /\ t = "none")
        /\ c \notin SyncCalls => (w = "attach" /\ t \in {"acquire", "queued"}) \/ (w = "done" /\ t = "none")
  BY <1>1 DEF CallerSteps, TaskSteps, OnThread, AfterSubmit, AfterRejection, FirstStep
<1>3. Holders' = Holders
  BY <1>0, <1>2, CallAssumption DEF Holders
<1>4. threads' \in 0 .. MaxPool
  BY SizeAssumption DEF Submit
<1>5. /\ queue' \in Seq(Calls) /\ Len(queue') <= QueueCapacity /\ QueueInv'
  <2>1. CASE UNCHANGED queue
    BY <1>0, <1>2, <2>1 DEF QueueInv
  <2>2. CASE queue' = Append(queue, c) /\ task' = [task EXCEPT ![c] = "queued"] /\ Len(queue) < QueueCapacity
    <3>1. /\ queue' \in Seq(Calls) /\ Len(queue') = Len(queue) + 1 /\ Len(queue) \in Nat
          /\ \A i \in 1 .. Len(queue) : queue'[i] = queue[i] /\ queue[i] \in Calls /\ queue[i] # c
          /\ queue'[Len(queue) + 1] = c
      BY <1>0, <2>2 DEF QueueInv
    <3>2. \A i \in 1 .. Len(queue') : i \in 1 .. Len(queue) \/ i = Len(queue) + 1
      BY <3>1
    <3>3. Len(queue') <= QueueCapacity
      BY <2>2, <3>1, SizeAssumption
    <3>4. \A i \in 1 .. Len(queue') : task'[queue'[i]] = "queued"
      BY <1>0, <2>2, <3>1, <3>2 DEF QueueInv
    <3>5. \A i, j \in 1 .. Len(queue') : queue'[i] = queue'[j] => i = j
      <4> SUFFICES ASSUME NEW i \in 1 .. Len(queue'), NEW j \in 1 .. Len(queue'), queue'[i] = queue'[j] PROVE i = j
        OBVIOUS
      <4>1. CASE i \in 1 .. Len(queue) /\ j \in 1 .. Len(queue)
        BY <3>1, <4>1 DEF QueueInv
      <4> QED
        BY <3>1, <3>2, <4>1
    <3> QED
      BY <3>1, <3>3, <3>4, <3>5 DEF QueueInv
  <2> QED
    BY <2>1, <2>2 DEF Submit
<1>6. TypeOK' /\ PermitsConserved'
  <2>1. caller' \in [Calls -> CallerSteps] /\ task' \in [Calls -> TaskSteps]
    BY <1>2
  <2> QED
    BY <1>0, <1>3, <1>4, <1>5, <2>1, SameHolders
<1>7. FailureReportedOnce'
  BY <1>0, <1>2, CallAssumption DEF FailureReportedOnce
<1>8. \A d \in Calls : Stage(d)'
  BY <1>0, <1>2, CallAssumption DEF Stage
<1> QED
  BY <1>5, <1>6, <1>7, <1>8

LEMMA JoinInv == ASSUME Inv, NEW c \in Calls, Join(c) PROVE Inv'
<1> USE DEF Inv, TypeOK, Join
<1>0. c \in SyncCalls
  BY CallAssumption DEF Stage
<1>1. Holders' = Holders
  BY <1>0, CallAssumption DEF Holders
<1>2. TypeOK' /\ PermitsConserved'
  BY <1>1, SameHolders DEF CallerSteps
<1>3. QueueInv'
  BY DEF QueueInv
<1>4. FailureReportedOnce'
  BY DEF FailureReportedOnce
<1>5. \A d \in Calls : Stage(d)'
  BY <1>0, CallAssumption DEF Stage
<1> QED
  BY <1>2, <1>3, <1>4, <1>5

LEMMA SyncReleaseInv == ASSUME Inv, NEW c \in Calls, SyncRelease(c) PROVE Inv'
<1> USE DEF Inv, TypeOK, SyncRelease
<1>0. c \in SyncCalls
  BY CallAssumption DEF Stage
<1>1. c \in Holders /\ Holders' = Holders \ {c}
  BY <1>0, CallAssumption DEF Holders
<1>2. TypeOK' /\ PermitsConserved'
  BY <1>1, OneHolderLess DEF CallerSteps
<1>3. QueueInv'
  BY DEF QueueInv
<1>4. FailureReportedOnce'
  BY <1>0, CallAssumption DEF FailureReportedOnce
<1>5. \A d \in Calls : Stage(d)'
  BY <1>0, CallAssumption DEF Stage
<1> QED
  BY <1>2, <1>3, <1>4, <1>5

LEMMA AttachInv == ASSUME Inv, NEW c \in Calls, Attach(c) PROVE Inv'
<1> USE DEF Inv, TypeOK, Attach
<1>0. c \in AsyncCalls /\ c \notin SyncCalls
  BY CallAssumption DEF Stage
<1>1. Holders' = Holders
  BY <1>0, CallAssumption DEF Holders
<1>2. TypeOK' /\ PermitsConserved'
  <2>1. task' \in [Calls -> TaskSteps]
    BY DEF TaskSteps
  <2>2. caller' \in [Calls -> CallerSteps]
    BY DEF CallerSteps
  <2>3. retries' \in [Calls -> Nat]
    OBVIOUS
  <2> QED
    BY <1>1, <2>1, <2>2, <2>3, SameHolders
<1>3. QueueInv'
  BY DEF QueueInv
<1>4. FailureReportedOnce'
  BY <1>0, CallAssumption DEF FailureReportedOnce
<1>5. \A d \in Calls : Stage(d)'
  BY <1>0, CallAssumption DEF Stage
<1> QED
  BY <1>2, <1>3, <1>4, <1>5

\* The head of the queue starts once: it is nowhere else in the queue.
LEMMA TakeInv == ASSUME Inv, Take PROVE Inv'
<1> USE DEF Inv, TypeOK
<1> DEFINE h == Head(queue)
           t == FirstStep(h)
<1>0. /\ h \in Calls /\ h = queue[1] /\ task[h] = "queued"
      /\ queue' \in Seq(Calls) /\ Len(queue') = Len(queue) - 1 /\ Len(queue) \in Nat \ {0}
      /\ \A i \in 1 .. Len(queue') : queue'[i] = queue[i + 1] /\ i + 1 \in 1 .. Len(queue)
  BY DEF Take, QueueInv
<1>1. /\ task' = [task EXCEPT ![h] = t] /\ UNCHANGED <<permits, threads, caller, retries>>
      /\ t \in TaskSteps /\ t = IF h \in SyncCalls THEN "run" ELSE "acquire"
  BY DEF Take, FirstStep, TaskSteps, OnThread
<1> HIDE DEF h, t
<1>2. Holders' = Holders
  BY <1>0, <1>1, CallAssumption DEF Holders
<1>3. TypeOK' /\ PermitsConserved'
  BY <1>0, <1>1, <1>2, SameHolders, SizeAssumption
<1>4. QueueInv'
  <2>1. \A i \in 1 .. Len(queue') : queue'[i] # h /\ queue'[i] \in Calls
    BY <1>0 DEF QueueInv
  <2>2. \A i \in 1 .. Len(queue') : task'[queue'[i]] = "queued"
    <3> SUFFICES ASSUME NEW i \in 1 .. Len(queue') PROVE task'[queue'[i]] = "queued"
      OBVIOUS
    <3>1. task'[queue'[i]] = task[queue'[i]]
      BY <1>1, <2>1
    <3>2. queue'[i] = queue[i + 1] /\ i + 1 \in 1 .. Len(queue)
      BY <1>0
    <3>3. task[queue[i + 1]] = "queued"
      BY <3>2 DEF QueueInv
    <3> QED
      BY <3>1, <3>2, <3>3
  <2>3. \A i, j \in 1 .. Len(queue') : queue'[i] = queue'[j] => i = j
    BY <1>0 DEF QueueInv
  <2> QED
    BY <2>2, <2>3 DEF QueueInv
<1>5. FailureReportedOnce'
  BY <1>0, <1>1 DEF FailureReportedOnce
<1>6. \A d \in Calls : Stage(d)'
  BY <1>0, <1>1, CallAssumption DEF Stage
<1> QED
  BY <1>3, <1>4, <1>5, <1>6

LEMMA RetireInv == ASSUME Inv, Retire PROVE Inv'
<1> USE DEF Inv, TypeOK, Retire
<1>1. threads' \in 0 .. MaxPool
  BY SizeAssumption
<1>2. Holders' = Holders
  BY DEF Holders
<1> QED
  BY <1>1, <1>2, SameHolders DEF QueueInv, FailureReportedOnce, Stage

\* A step of a task on its pool thread that leaves the queue alone.
LEMMA AsyncAcquireInv == ASSUME Inv, NEW c \in Calls, AsyncAcquire(c) PROVE Inv'
<1> USE DEF Inv, TypeOK
<1>0. c \in AsyncCalls /\ c \notin SyncCalls /\ task[c] = "acquire" /\ UNCHANGED <<threads, queue, caller, retries>>
  BY CallAssumption DEF AsyncAcquire, Stage
<1>1. PICK t \in {"run", "callback", "failed"} : task' = [task EXCEPT ![c] = t] /\ (t = "failed" => caller[c] # "done")
  BY <1>0 DEF AsyncAcquire, Failed
<1>2. PermitsConserved' /\ permits' \in 0 .. Permits
  <2>1. CASE permits > 0 /\ permits' = permits - 1 /\ TaskTo(c, "run")
    <3>1. c \notin Holders /\ Holders' = Holders \cup {c}
      BY <1>0, <2>1, CallAssumption DEF Holders
    <3> QED
      BY <2>1, <3>1, OneMoreHolder
  <2>2. CASE Refuse /\ TaskTo(c, Failed(c))
    <3>1. Holders' = Holders
      BY <1>0, <2>2, CallAssumption DEF Holders, Failed
    <3> QED
      BY <2>2, <3>1, SameHolders DEF Refuse
  <2> QED
    BY <2>1, <2>2 DEF AsyncAcquire
<1>3. TypeOK'
  BY <1>0, <1>1, <1>2 DEF TaskSteps, OnThread
<1>4. QueueInv'
  BY <1>0, <1>1 DEF QueueInv
<1>5. FailureReportedOnce'
  BY <1>0, <1>1, CallAssumption DEF FailureReportedOnce
<1>6. \A d \in Calls : Stage(d)'
  BY <1>0, <1>1, CallAssumption DEF Stage
<1> QED
  BY <1>2, <1>3, <1>4, <1>5, <1>6

LEMMA AnswerInv == ASSUME Inv, NEW c \in Calls, Answer(c) PROVE Inv'
<1> USE DEF Inv, TypeOK
<1>0. task[c] = "run" /\ UNCHANGED <<permits, threads, queue, caller, retries>>
  BY DEF Answer
<1>1. PICK t \in {"ok", "failed", "release"} :
        task' = [task EXCEPT ![c] = t] /\ (c \in SyncCalls <=> t # "release")
  BY CallAssumption DEF Answer
<1>2. Holders' = Holders
  BY <1>0, <1>1, CallAssumption DEF Holders
<1>3. TypeOK' /\ PermitsConserved'
  BY <1>0, <1>1, <1>2, SameHolders DEF TaskSteps, OnThread
<1>4. QueueInv'
  BY <1>0, <1>1 DEF QueueInv
<1>5. FailureReportedOnce'
  BY <1>0, <1>1, CallAssumption DEF FailureReportedOnce
<1>6. \A d \in Calls : Stage(d)'
  BY <1>0, <1>1, CallAssumption DEF Stage
<1> QED
  BY <1>3, <1>4, <1>5, <1>6

LEMMA AsyncReleaseInv == ASSUME Inv, NEW c \in Calls, AsyncRelease(c) PROVE Inv'
<1> USE DEF Inv, TypeOK
<1>0. c \in AsyncCalls /\ c \notin SyncCalls /\ task[c] = "release" /\ UNCHANGED <<threads, queue, caller, retries>>
  BY CallAssumption DEF AsyncRelease, Stage
<1>1. PICK t \in {"ok", "callback", "failed"} : task' = [task EXCEPT ![c] = t] /\ (t = "failed" => caller[c] # "done")
  BY <1>0 DEF AsyncRelease, Failed
<1>2. c \in Holders /\ Holders' = Holders \ {c}
  BY <1>0, <1>1, CallAssumption DEF Holders
<1>3. TypeOK' /\ PermitsConserved'
  BY <1>0, <1>1, <1>2, OneHolderLess DEF AsyncRelease, TaskSteps, OnThread
<1>4. QueueInv'
  BY <1>0, <1>1 DEF QueueInv
<1>5. FailureReportedOnce'
  BY <1>0, <1>1, CallAssumption DEF FailureReportedOnce
<1>6. \A d \in Calls : Stage(d)'
  BY <1>0, <1>1, CallAssumption DEF Stage
<1> QED
  BY <1>3, <1>4, <1>5, <1>6

LEMMA CallbackInv == ASSUME Inv, NEW c \in Calls, Callback(c) PROVE Inv'
<1> USE DEF Inv, TypeOK, Callback
<1>0. c \in AsyncCalls /\ c \notin SyncCalls
  BY CallAssumption DEF Stage
<1>1. Holders' = Holders
  BY <1>0, CallAssumption DEF Holders
<1>2. TypeOK' /\ PermitsConserved'
  BY <1>1, SameHolders DEF TaskSteps
<1>3. QueueInv'
  BY DEF QueueInv
<1>4. FailureReportedOnce'
  BY <1>0, CallAssumption DEF FailureReportedOnce
<1>5. \A d \in Calls : Stage(d)'
  BY <1>0, CallAssumption DEF Stage
<1> QED
  BY <1>2, <1>3, <1>4, <1>5

LEMMA NextInv == Inv /\ [Next]_vars => Inv'
<1> SUFFICES ASSUME Inv, [Next]_vars PROVE Inv'
  OBVIOUS
<1>1. CASE UNCHANGED vars
  <2>1. Holders' = Holders
    BY <1>1 DEF vars, Holders
  <2> QED
    BY <1>1, <2>1 DEF vars, Inv, TypeOK, QueueInv, PermitsConserved, FailureReportedOnce, Stage
<1> QED
  BY <1>1, BeginInv, SyncAcquireInv, SubmitInv, JoinInv, SyncReleaseInv, AttachInv, AsyncAcquireInv,
     AnswerInv, AsyncReleaseInv, CallbackInv, TakeInv, RetireInv DEF Next, Step

----------------------------------------------------------------------------

LEMMA SpecInv == Spec => []Inv
BY InitInv, NextInv, PTL DEF Spec

\* The semaphore never has more permits than it was given, the pool never more
\* threads than its maximum, and the queue never more tasks than its capacity.
THEOREM SpecTypeOK == Spec => []TypeOK
<1>1. Inv => TypeOK
  BY DEF Inv
<1> QED
  BY <1>1, SpecInv, PTL

\* Every permit is in the semaphore or with the call that will return it, on
\* each path through callSync and callAsync.
THEOREM SpecPermitsConserved == Spec => []PermitsConserved
<1>1. Inv => PermitsConserved
  BY DEF Inv
<1> QED
  BY <1>1, SpecInv, PTL

\* A failed callAsync reaches its onFailure exactly once, whether the failure
\* comes before or after the callback is attached.
THEOREM SpecFailureReportedOnce == Spec => []FailureReportedOnce
<1>1. Inv => FailureReportedOnce
  BY DEF Inv
<1> QED
  BY <1>1, SpecInv, PTL

=============================================================================
