# TLA+ models of the user, product and order system

This directory specifies the core logic of the repository in TLA+: what the services keep, what
their handlers, schedulers and workers do to it step by step, and what must hold whatever the
order of those steps, the lost answers and the restarts. TLC checks every module on small
instances; TLAPS proves the main results for all values of the constants. `PROJECT.json` holds
the runs, the map from definitions to source lines, the hazards and the findings.

## 1. The system

| component | state it keeps | operations | talks to |
|---|---|---|---|
| order-service (Java): order workflow | `t_order` (status, version, request_no, payment_time), `t_order_outbox` | create, pay, cancel, approve, reject | product-service (reserve, release, coupons) and a payment platform over HTTP, all through the external call guard |
| order-service: auto-completion | the same rows | a scheduler in every replica: page of due SHIPPING orders, one transaction per order | database |
| order-service: per-order lock | a `ConcurrentHashMap` of `ReentrantLock`, one map per JVM | `withOrderLock` around the payment | - |
| order-service: outbox relay | `t_order_outbox` | a scheduler in every replica: send a page, mark it | RabbitMQ |
| order-service: external call guard | a semaphore, a bounded thread pool with a bounded queue | `callSync`, `callAsync` with a failure callback | every remote call of the workflow |
| order-service: coupon issue retries | `t_order_coupon_issue_task` | the issue job of a payment, `scheduleRetry`, a scheduler in every replica | coupon engine |
| product-service (Python): catalog | `t_product`, a catalog version and versioned payload keys in Redis | reserve, release, create, import, edit, cached reads | MySQL, Redis |
| product-service: coupon engine | a balance hash per user, a record per order, rate-limit counters, all in Redis | issue, claim best, balance and record queries | Redis |
| user-service (Python) | `t_user`, `t_system_config`, the token blacklist in Redis | login, logout, profile, password, login policy, account switch | MySQL, Redis |
| gateway (Python and Go) | rate-limit counters in Redis | token check, role check, rate limit, forward | Redis, the three services |
| notification-service (Python) | the audit collection in MongoDB, a cached handle to it per process | consume, open the collection and its index, store, acknowledge, reconnect | RabbitMQ, MongoDB |
| smoke tests (Python) | a session and the orders a script has placed | four scripts of calls, each with what it expects | the gateway, or the services themselves |
| frontend, infrastructure, load scripts | - | pages, manifests, dashboards, load tests | the gateway |

What is hard in it, and where a unit test would hardly reach: handlers hold a database
transaction open across remote calls, so a row is read long before it is written and what a
remote system did survives a rollback; two replicas run every scheduler and only unique keys and
a version column separate them; the in-JVM lock is taken inside the transaction it should
protect; permits wait for pool threads while pool threads wait for permits; rows without a
version column (outbox, retry tasks, products) are written by several processes; messages are
sent before the row that records it is committed; cached payloads are keyed by a version that
is read, bumped and lost independently of the rows; Redis failures are swallowed almost
everywhere. `PROJECT.json`, "hazards", lists each at its line with the property that watches it.

What makes each component correct:

- *order*: status moves only along the documented transitions, the staged events tell the same
  story as the row, money moves before the status says so, a request creates one order, no unit
  of stock disappears or is sold twice, a due order is completed;
- *lock*: no entry is leaked, no wait is for ever, at most one payment of an order commits;
- *outbox and audit*: what is marked as published was sent, what was staged arrives, and is stored once;
- *guard*: permits are conserved, every call returns, every failed job is reported once;
- *retries*: SUCCESS means the coupon exists, FAILED means every retry was made, tasks settle;
- *catalog*: no bumped write is hidden by the cache, no reservation is lost to an edit, creations and
  imports have added what they report;
- *coupons*: balances and records agree with the answers, the best coupon is given, counters end;
- *sessions and gateway*: a logout holds, updates of one account keep each other, budgets are kept;
- *smoke tests*: they end, and what fails in them is explained by something other than the parts they test.

## 2. Modules

| module | models | state and actions |
|---|---|---|
| `OrderLifecycle` | the abstract order | `status`, `events`; one atomic action per operation. No versions, transactions or failures. |
| `OrderWorkflow` | `OrderService`, `OrderAutoCompleteService` | the row with its version, the outbox, the stock, the counters of the remote systems; a call of the API is a process with a program counter, one action per database statement or remote call. Implements `OrderLifecycle`. |
| `MCOrderWorkflow` | - | symmetry sets for TLC |
| `OrderWorkflowProofs` | - | theorems about `OrderWorkflow` |
| `InFlightLock` | `OrderInFlightLockManager` and the payment transaction around it, in one JVM | the map entry, the locks made and their owners, the row, one action per lock operation |
| `OutboxRelay` | `OrderOutboxRelayService`, RabbitMQ (external), `notification-service/app/main.py` | the outbox rows, the open batch of each relay, copies in the queue, what each consumer holds and where its `on_message` is, its cached handle, the unique index, how many documents a message has |
| `ExternalCallGuard` | `ExternalCallGuard`, the `ThreadPoolTaskExecutor` it submits to | permits, threads, queue, one program counter for the caller and one for the task |
| `MCPayment` | - | `InFlightLock` and `ExternalCallGuard` in one run: they share no variable and each property is about one of them, so one runs while the other never begins |
| `PaymentProofs` | - | theorems about `InFlightLock` and `ExternalCallGuard`, the lock and the guard around a payment |
| `CouponIssueTasks` | `issueCouponAfterOrder`, `CouponIssueRetryService` | the task row, the row each job or scheduler has read, coupons granted |
| `CouponIssueTasksProofs` | - | theorems about `CouponIssueTasks` |
| `ProductCatalog`, `MCProductCatalog` | the catalog part of `product_service.py`, `cache.py`, `routes.py`, `schemas/product.py` | one row of `t_product`, the codes of the rows that requests add, the catalog version, the payload under each version, one process per request. A file is a sequence of lines, each a code or not valid; the lines that become rows keep their numbers |
| `ProductCatalogProofs` | - | theorems about `ProductCatalog` |
| `CouponEngine`, `MCCouponEngine` | the coupon part of `product_service.py` and `cache.py` | the balance hash, a counter per operation and whether it has a time to live, a record per order, one process per request; one user, since every key carries the user id |
| `CouponEngineProofs` | - | theorems about `CouponEngine` |
| `Sessions`, `MCSessions` | `auth_service.py`, `security.py`, `cache.py` of user-service and the same checks in the gateways | a clock finer than a second, accounts, the policy row, tokens with their expiry, blacklist entries with the time they end, one process per request |
| `SessionsProofs` | - | theorems about `Sessions` |
| `Gateway`, `MCGateway` | `proxy.py`, `cache.py` and `proxy.go`, `cache.go` | a counter per rate limit key, whether it has a time to live, how many of its windows have ended, one process per request at either gateway |
| `GatewayProofs` | - | theorems about `Gateway` |
| `SmokeTests` | `scripts/sandbox/smoke-test-*.py` and, abstractly, the system they call | the orders of `OrderLifecycle`, tokens issued and revoked, the logins of a window, and for each script its position, its orders and its tokens |
| `RelayAndSmokeTestsProofs` | - | theorems about `OutboxRelay` and `SmokeTests`; the definitions of `SmokeTests` and of `InFlightLock` that every module has carry a prefix (`TestsInit`, `PayNext`), so that a proof module can extend two of them |

Conventions. Every request, job and replica is a process of its own; a request runs at most
once, retries are further requests. What happens within one database statement, one Redis
command or one remote call is one step, everything else interleaves. Times are abstracted to
the event of reaching them (`DeliveryTimeReached`, `FallDue`, `Expire`). A remote call may take effect
and answer, refuse, or take effect with its answer lost. Amounts, names and payloads are left
out unless a property depends on them. Variables marked "history" exist for the properties
and no guard reads them. Definitions named `Bug...` are seeded defects: no action uses
them; each replaces the definition below it to show that some property would notice.

How the modules fit together: `OrderWorkflow` treats the guard, the lock, the coupon engine and
product-service as the remote side of its calls; `InFlightLock` looks inside the payment of one order in
one JVM; `ExternalCallGuard` looks inside any of the remote calls; `CouponIssueTasks` goes on
where `SubmitIssue` ends; `OutboxRelay` goes on where `Commit` has staged an event; `ProductCatalog`
is the inside of the reservations and `CouponEngine` that of `ClaimCoupon` and of `Grant`; `Sessions`
is the inside of what `Gateway` calls a good or a bad token. `SmokeTests` composes what clients see of the
parts: it takes the orders from `OrderLifecycle` by INSTANCE, so each answered call is one step of the
order that `OrderWorkflow` implements, and reduces sessions, stock and the login limit to what a
client can tell apart. The assumption one module makes about the other is the
weakest the other one shows (a lost answer, a refusal, a duplicate are all allowed).

## 3. Runs

Bounds are named constants and given in the `.cfg` of each run. CHECK_DEADLOCK is off because all
requests of an instance may be over: the system then waits for the next one.

| run | instance | shows |
|---|---|---|
| `order_faults` | 4 calls, 3 ids, 2 request keys, 1 row of the older schema, 2 schedulers, all faults | type invariant, `OutboxMatchesStatus`, `PaidBeforeShipped`, `CouponFlowOrdered`, `OneOrderPerRequest`, `StockAccounted`, and that every step is one of `OrderLifecycle` (`RefinesLifecycle`). Four calls are enough for two creations with one key plus two handlers racing on one row; the old row lets two handlers race from the start; the stock is enough for one order and a half, so a reservation can fail. |
| `order_live` | 3 calls, 2 shipped orders possible, page size 1, 2 schedulers | `DueOrderCompletes`: the page is smaller than the set of candidates and both replicas meet on one row |
| `payment` | the lock: 3 threads, a holder, one that waits, one that comes. The guard: 3 synchronous and 2 asynchronous calls, 1 permit, pool of 1 to 2 threads, queue of 1 | `EntryInUse`, `OneWinner`, `EveryCallAnswered` of the lock; `PermitsConserved`, `FailureReportedOnce`, `EveryCallReturns` of the guard: queue full, pool full, permit taken and the rejection all occur |
| `lock_charge` | 2 threads | `ChargedOnce` is violated: see Findings |
| `issue_refused` | 2 calls, one order created and then paid, no crashes, no lost answers, a pool that may be full | `ChargedIsPaid` is violated: see Findings |
| `relay` | 1 message, 2 relays, 2 consumers, 4 faults of any kind | `PublishedIsAccounted`, `AuditedOnce`, `StagedIsDelivered`. The rows of a batch are sent, marked and written back independently of each other and a consumer handles one message at a time, so the second message was given up for the second consumer and two more faults: with them `create_index` can fail in both processes, one of them can end, and a document can be stored twice |
| `issue` | 1 order, 2 jobs for it, 2 replicas, pages of 1, 2 retries, 1 fault | `SuccessIsGranted`, `GivenUpAfterRetries`, `EveryTaskSettles`. With one order a page is never too small; the theorems of section 4 cover several orders and any page size, the liveness property does not |
| `catalog` | 2 readers, 2 writers, 2 codes that the table may or may not have at the start, files of up to 2 lines, forms with a negative, a zero and a positive stock, any Redis command may fail | `FreshAfterWrite`, `NoReservationLost`, `AnswersAreTrue`. Two writers are a lookup and a commit in between, two lines are a code that occurs twice; two catalog versions are the two bumps that two writers make |
| `coupons` | 3 requests with or without an order number, amounts next to a rounding edge and to two thresholds, 1 coupon of each type, 1 request per window, any Redis command may fail | `BalanceAccounted`, `BestCouponGiven`, `RecordsAreTrue`, `CounterEnds`; three requests are enough for a failed first one, a counted second and a refused third |
| `sessions` | 4 requests, a user and an admin, 1 token of 2 seconds, half seconds, Redis may fail | `RevokedIsRefused`, `NoAccountUpdateLost`; four requests are a login, two overlapping logouts and a use of the token, or three updates of one row |
| `gateway` | 3 requests at either gateway by a user, an admin or nobody, 1 request per window, 1 repeated INCR, Redis may fail | `BudgetKept`, `CountedWindowIsTimed` |
| `smoke` | all 4 scripts at once; 5 logins with 4 admitted per window, 5 orders with 3 units, 5 attempts at a payment | that no script holds as many failed attempts as `pay_order` makes (`TestsTypeOK`), `FailureExplained`, `EveryScriptEnds`; the limit (10 in the configuration) and the stock are small enough for a login and a reservation to be refused. A refused login is counted like the gateway's INCR counts it, and an attempt that is answered 504 may have paid the order |

### Fairness

Weak fairness is assumed of what has begun: a request that was accepted runs on (`Step`), a
thread that holds a lock or a permit runs on, a scheduler that is triggered with a fixed delay scans
again and its loop ends, time passes, a script of the smoke tests goes on to its next call. It is
justified by threads and processes the operating system schedules, by `@Scheduled(fixedDelay...)` and by timeouts. No fairness is assumed of arrivals or of faults.
Strong fairness is assumed only of `Deliver` in `OutboxRelay`: a consumer that reconnects
again and again is handed the queued message in the end. The number of faults is bounded in the liveness runs,
except `order_live`, where losing answers has no limit but the calls themselves. `EveryCallReturns`
relies on the remote call ending one way or the other; the HTTP client is built without a read
timeout, so this rests on the operating system.

## 4. Proofs

Every invariant that a passing run checks is a theorem `Spec => []...` too, and so is the refinement. The theorems hold for any sets of calls, ids, replicas, threads and jobs, any stock, any limits and
any value of the bounds that the runs set, under the named ASSUMEs of the modules: types of the constants, "no id"
values outside their sets, and finite sets where something is counted (the rows present at the start in
`OrderWorkflow`, the calls of `ExternalCallGuard`, the replicas of `CouponIssueTasks`, the consumers of
`OutboxRelay`). Where finiteness could be proved it is not assumed: in `OrderWorkflow`, `Gateway` and `CouponEngine` the calls and
requests may be infinitely many, and that only finitely many are under way is part of the invariant.

Each proof defines one inductive invariant (`Inv`; `PayInv` and `TestsInv` for the lock and the smoke tests), made of `TypeOK`, facts about shared state and one predicate
per process. One lemma per action shows that the action keeps it: what the acting process knows follows from the
action, what the others know follows from a lemma on processes that do not move. Each invariant was checked with TLC
on a small instance before it was proved.

**OrderWorkflow.** `Inv` is `TypeOK` with `RowOK` (what a row of each status looks like), `TxOK` (a
transaction in progress whose version is still the row's saw the row as it is now, hence in a status its handler
accepts, and never a version from the future), `SchedOK` (the same for a scheduler) and `MoneyOK` (a payment past its
charge has charged, a rejection past its refund has refunded). `TxOK` is why the invariant has to be strengthened: that
a commit with an unchanged version starts from an allowed status is a fact about the moment of the read. It yields

- `TypeCorrect`, `OutboxCorrect` (`OutboxMatchesStatus`), `MoneyCorrect` (`PaidBeforeShipped`) and
  `KeysCorrect` (`OneOrderPerRequest`);
- `Refinement`: `Spec => RefinesLifecycle`, by what each action that writes a row does to it;
- `StockCorrect` (`StockAccounted`), by `StockInv`: the sets of orders that hold units, of calls that have
  reserved and of transactions that have released are finite, and the balance is settled by each step (`Settled`): what
  a step takes out of one of the sets, the stock or a history it puts into another. `TxOK` is needed again: a commit of
  cancel or reject ends a hold only because the order still had one;
- `CouponFlowCorrect` (`CouponFlowOrdered`), by `CouponInv`: payments plus the calls between claim and charge never
  exceed the claims, and jobs plus the calls between charge and job never exceed the payments. Without the calls in
  between, two payments of one order could use one claim.

**InFlightLock.** `PayInv` is `PayShape /\ EntryInUse /\ Payments`, where `PayShape` holds the types; `NoEntryLeak` and
`OnePaymentCommits` say that although the lock does not exclude, it leaks no entry and the version column still lets one
payment win.

**OutboxRelay.** `SpecTypeOK`, `SpecPublishedIsAccounted` and `SpecAuditedOnce`. `SentInv` extends the account of a
message from rows marked PUBLISHED to rows that an open batch has sent and not yet committed, since the send comes
first. `IndexInv` relates the handle a process has cached to the unique index: as long as no `create_index` failed,
whoever has a handle has an index. `DocsInv` counts the consumers whose query found nothing: only they add a
document and nobody joins them once there is one, so a message never has more documents than there are consumers, with
or without the index.

**ExternalCallGuard.** `SpecTypeOK`, `SpecPermitsConserved` and `SpecFailureReportedOnce`. `Stage` ties the program
counter of a caller to that of its task, and `QueueInv` says that the queue holds tasks nobody has started, each
once; without it a task could be taken twice and return its permit twice.

**CouponIssueTasks.** `Inv` is `TypeOK /\ Working /\ Granted /\ Counted`. `Counted` says that the count of
a row, stored or read, plus the retries made and not yet saved never exceeds the attempts made; it
needs lemmas on cardinalities of the set of schedulers between call and save. It yields `SuccessCorrect` and
`GiveUpCorrect`.

**ProductCatalog.** `SpecTypeOK`, `SpecFreshAfterWrite`, `SpecNoReservationLost` and `SpecAnswersAreTrue`. For the cache,
`Current` says that what is under the key of the catalog version, or about to be stored there, is as new as the bump
that made the version, and `KeyIsFresh` keeps this for a reader whose version has become old while it looks: nothing
older comes to its key, stores by readers that fell back to version 0 included. For the table, `AddsInv` says
when the rows a request reports are in it and `OneRowPerCode` is the unique key; with it the rows of a request are
counted by the surjection from its lines.

**Sessions.** `SpecTypeOK`, `SpecRevokedIsRefused` and `SpecNoAccountUpdateLost`. `TokenInv` says that the entry of a
revoked token lasts into the last second of the token, `TtlCovers` that a time to live computed earlier will do so
whenever it is stored; both rest on the one lemma on division that rounding down loses less than a second. `ReadIsKept`
is what makes partial updates commute: a column that a request leaves alone because it has read the new value still
has it.

**Gateway.** `SpecTypeOK`, `SpecBudgetKept` and `SpecCountedWindowIsTimed`. `Budget` says that the counter of the open
window is at least the number of requests counted in it, and that at most the maximum of the requests of any window
were let through or will be. `ReqInv` says that the key of a window exists until the window ends and has an end once a
counted request has looked at its time to live.

**CouponEngine.** `SpecTypeOK`, `SpecBalanceAccounted`, `SpecBestCouponGiven`, `SpecRecordsAreTrue` and
`SpecCounterEnds`. `Stages` says what a request has at each point: no coupon before the balance has moved, no status
before its end. Without it a failed request could still be carrying a coupon and the books would not close.
`BalanceAccounted` is proved as two inequalities per type (`Accounted`) over the sets of requests that were told of a
coupon and of those answered 503; both are finite because only finitely many requests have arrived (`FinitelyMany`), and
`CountsChange` says by how much a step changes each. `BestCouponGiven` rests on two lemmas about the operators, for every
amount and balance: `IssueIsBest` (the nested thresholds select the best type the amount allows) and `ClaimIsBest`
(the list of allowed types, best first, and the loop that takes the first one in stock select the best type
allowed and in stock). `RecordsAreTrue` needs that a request keeps kind, order and coupon once it has been told of one;
`CounterEnds` that only EXPIRE itself takes the request that made the counter out of that state.

**SmokeTests.** `SpecTestsTypeOK` and `SpecFailureExplained`. `FailureExplained` says what an expectation can fail on, so
`TestsInv` has to say why all the others hold. `Tokens` says that no two scripts share a token and that only phase2
gives one back, `Session` where phase2 is signed in, `Story` which orders phase1 has placed at each of its
calls and the status of each (at a payment two are possible, since an attempt that timed out may have paid); `OwnOrders` and `Dense` that a script's orders are its own, in the order of their ids, and
that ids have no gaps. The last two make the list of the latest orders predictable: `LatestAnswer` shows that it is
phase1's own three unless another script has placed one since (`Disturbed`). A script that does not move keeps
its scene because nobody else touches its orders or its token (`Others`).

Only model-checked: everything under fairness (`DueOrderCompletes`, `EveryCallAnswered`, `StagedIsDelivered`, `EveryCallReturns`,
  `EveryTaskSettles`, `EveryScriptEnds`): the prover does not do liveness.

`ChargedOnce` and `ChargedIsPaid` are violated and of course not theorems. No module uses a RECURSIVE operator.

## 5. Findings

A run whose property is a sentence of the repository and whose trace is what the code does:

- `lock_charge`: the lock is released before the commit, so a concurrent retry charges again.
- `issue_refused`: `docs/order-service-checkout-flow-and-api.txt` says of the coupon issue after a payment that its
  "failure does not roll back the paid order" (line 20) and that it is "best-effort and non-blocking for checkout
  success" (line 28). This holds for a job that runs and fails. The submission itself is a call inside the transaction
  of `payOrder`: a full executor throws `TaskRejectedException` out of it (`SubmitIssue` with the fault "overload"),
  and an order that has been charged is PAYING again.

Seen in the models, and watched by no run of its own:

- A claimed coupon is not given back when the payment fails or its transaction rolls back, and the retry claims
  again; `CouponFlowOrdered` allows claims without charges.
- `smoke-test-mongodb.py` and `smoke-test-rabbitmq.py` expect a new order to be PENDING_APPROVAL and an
  `order.created` event without a payment. Since the checkout has a payment neither can pass;
  `smoke-test-phase1.py` has been adapted. `FailureExplained` names the two as such.
- `smoke-test-phase1.py` fails when another script places an order for its account before it lists the latest ones.
- A product code that occurs twice in an imported file, or that another request adds between lookup
  and commit, ends in an uncaught IntegrityError: 500, and no line of the file is kept.
  `AnswersAreTrue` shows that nothing worse happens.
- The consumer caches its collection handle before `create_index`. When that command fails the process
  never tries again, and with two such consumers a redelivered message can be stored twice, after which
  every `create_index` fails as well; `AuditedOnce` excepts this with `blind`.
- The owner of a paid order can cancel it, and unlike reject this calls no refund. Code, tests and
  documents agree on it, so no property speaks of it.
- Cancel and reject release stock before their own update is known to succeed. When it fails with 409
  the units are on sale and held at once; `StockAccounted` counts them as `unbacked`.
- The lock map drops an entry although a thread may hold its lock object without having queued, so
  two locks for one order can exist; `OneWinner` holds without exclusion.
- A consumed event whose audit write fails is acknowledged and not stored; `StagedIsDelivered` is about
  the consumer, not about the store.
- A settled retry task can return to PENDING when two replicas save their copies of the row.
- After a failed EXPIRE (or an unanswered first INCR) the coupon rate limit counter has no end, and the
  user is refused once the maximum is reached: `CounterEnds` excepts it with `stranded`. The
  gateways' limiters, which look at the time to live instead of the count, repair this with the
  next request (`CountedWindowIsTimed`).
- A blacklist entry ends up to a second before its token; `RevokedIsRefused` states that bound.

## 6. Not modelled, and why

- Read-only queries and pages, response formatting, logging, metrics, health endpoints: no state.
- Amounts outside `CouponEngine` and dates: `nextWorkdayAtFixedTime` is abstracted to "later", prices are
  not kept, and of the discount only the coupon type is.
- The cells of an imported file: `Files` says of a line whether it is a valid product and which code it has, not
  how a cell is decoded, stripped and converted. Nor are the messages of the answer.
- A Redis that loses its data. A reader that stores under a key of an old version after the version key
  was lost could hide a later write once the count comes back to that version.
- What the MongoDB and RabbitMQ smoke tests do after the expectation that fails: no behaviour gets there.
- Switches that turn a part off and leave nothing to check: `mongo_enabled = false` or a missing pymongo in
  notification-service, the coupon platform disabled in `CouponIssueRetryService`, an order without a number there.
- An interrupted wait in `acquirePermit`, which takes a shutdown of the service, and the 503 of a
  gateway whose HTTP client is not ready yet: neither has an effect on anything kept.
- A process that ends between INCR and EXPIRE in the coupon engine: the request then stays where it is for ever, and
  `CounterEnds` says no more of it than of `stranded`.
- A commit of the catalog whose acknowledgement is lost. And an edit writes what its form says: a full form with a stock
  that was read before a reservation overwrites it (`product_service.py`, the loop over the fields), which
  `NoReservationLost` counts as an edit of the stock.
- A payment of the smoke tests that is carried out after the 504 was received: `PayTimesOut` has its effect, or none,
  at the moment of the answer. Overlapping attempts are what `InFlightLock` is about.
- The order of ids in a page of retry tasks: any page may come first.
- The load scripts: they count answers.
- The frontend: forms and tables, and a session that is a copy of the token. Whether its pages
  apply answers in the order they were asked for is left for later.
- Infrastructure, manifests, scripts and dashboards: configuration. Replica counts, unique keys and limits are
  taken from them.
- Passwords, signatures, headers and CORS: what a check decides is modelled, how it is computed is not.

## 7. Plan

Done, in this order: the order workflow with its abstract specification, the lock, the outbox, the
guard, the catalog, the retries, sessions, the coupon engine, the gateways; the theorems of
section 4 about the order, the lock and the retries; then creation and import of products, the audit store with
several consumers, and the smoke tests as clients of the composed abstract system; then the theorems about
stock and coupon flow, outbox, guard, catalog, sessions and gateways; then those about the coupon engine and the smoke
tests, with which no invariant is left that is only checked; then the payment that times out with effect, pages of
retry tasks, and the disagreement on a refused coupon issue as a run of its own.

Next, the most important first:

1. *Composition.* An abstract coupon engine (a bag of coupons and a set of grants) that `CouponEngine`
   implements and that `OrderWorkflow` and `CouponIssueTasks` use as their remote side; an abstract
   catalog (one row) that `ProductCatalog` implements without its cache; a rate limiter that
   both gateways' command sequences implement.
2. *Dates.* `nextWorkdayAtFixedTime` as a function on days against "the first workday after".
3. *Frontend.* The session of `AuthProvider` and `client.ts` (a 401 while other requests are under way)
   and the loading of `MyOrdersPage` (answers that arrive in another order than asked for).
