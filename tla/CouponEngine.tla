---------------------------- MODULE CouponEngine ----------------------------
(***************************************************************************)
(* The coupon engine of product-service, which lives in Redis: a hash with *)
(* the balance per coupon type, a rate limit counter per operation and a   *)
(* record per order of the coupon issued or claimed.                       *)
(*                                                                         *)
(* Every key carries the user id, so one user is modelled. Each Redis      *)
(* command is a step and may fail, before or after it took effect.         *)
(***************************************************************************)
EXTENDS Integers, FiniteSets, Sequences

CONSTANTS
    Calls,         \* requests to the engine; each runs once
    Orders,        \* orders that have a number
    NoOrder,       \* a request without order_no
    Amounts,       \* order amounts, in tenths of a cent
    StartBalance,  \* coupons of each type the user starts with
    MaxIssues,     \* coupon_issue_rate_limit_max_requests
    MaxClaims,     \* coupon_claim_rate_limit_max_requests
    RedisFails,    \* whether a Redis command may fail
    Simulated      \* coupon_issue_fail_sim_enabled

Types == {10, 20, 30}
Kinds == {"issue", "claim"}

ASSUME AmountAssumption == Amounts \subseteq Nat \ {0}
ASSUME BalanceAssumption == StartBalance \in Nat
ASSUME LimitAssumption == MaxIssues \in Nat /\ MaxClaims \in Nat
ASSUME OrderAssumption == NoOrder \notin Orders
ASSUME EngineSwitchAssumption == RedisFails \in BOOLEAN /\ Simulated \in BOOLEAN

VARIABLES
    amount,    \* amount[o]: the amount of an order, the same in every request for it;
               \* both kinds are repeated, by retries and by payments that were rolled back
    balance,   \* balance[t]: the fields of the balance hash
    counter,   \* counter[k]: the rate limit key of issue and of claim, 0 when absent
    ticking,   \* ticking[k]: whether that key has a time to live
    record,    \* record[k][o]: the type named, 0 for "none", -1 when absent
    call,      \* call[c]: where the request is and what it has read
    stranded   \* history: counters whose EXPIRE, or first INCR, was not answered

engineVars == <<balance, record>>
limitVars == <<counter, ticking, stranded>>
vars == <<amount, engineVars, limitVars, call>>

\* coupon and status make up the answer ("refused" is 429, or a simulated
\* failure); best is a history of what the user could have been given when the
\* balance was touched. What is no longer needed is cleared.
NewCall == [pc |-> "idle", kind |-> "none", order |-> NoOrder, count |-> 0,
            coupon |-> 0, best |-> 0, status |-> "none"]

CallRecs ==
    [pc : {"idle", "expire", "decide", "record", "done"}, kind : Kinds \cup {"none"},
     order : Orders \cup {NoOrder}, count : Nat,
     coupon : Types \cup {0}, best : Types \cup {0},
     status : {"none", "ok", "refused", "unavailable"}]

\* Balances, counters, records and requests keep their types; no balance is negative.
TypeOK ==
    /\ amount \in [Orders \cup {NoOrder} -> Amounts]
    /\ balance \in [Types -> Nat]
    /\ counter \in [Kinds -> Nat]
    /\ ticking \in [Kinds -> BOOLEAN]
    /\ record \in [Kinds -> [Orders -> Types \cup {-1, 0}]]
    /\ call \in [Calls -> CallRecs]
    /\ stranded \in [Kinds -> BOOLEAN]

Init ==
    /\ amount \in [Orders \cup {NoOrder} -> Amounts]
    /\ balance = [t \in Types |-> StartBalance]
    /\ counter = [k \in Kinds |-> 0]
    /\ ticking = [k \in Kinds |-> FALSE]
    /\ record = [k \in Kinds |-> [o \in Orders |-> -1]]
    /\ call = [c \in Calls |-> NewCall]
    /\ stranded = [k \in Kinds |-> FALSE]

\* Definitions named Bug... are seeded defects. No action uses them: each
\* replaces the definition after it to show that a property can fail.

----------------------------------------------------------------------------
(* Amounts *)

\* quantize(0.01, ROUND_HALF_UP): tenths of a cent to cents.
RoundMoney(a) == (a + 5) \div 10

\* _select_issue_coupon_type
IssueType(a) ==
    LET cents == RoundMoney(a) IN
    IF cents >= 80000 THEN 30
    ELSE IF cents >= 50000 THEN 20
    ELSE IF cents >= 20000 THEN 10
    ELSE 0

BugWorstFirst(a) ==
    LET cents == RoundMoney(a) IN
    IF cents >= 90000 THEN <<10, 20, 30>>
    ELSE IF cents >= 60000 THEN <<10, 20>>
    ELSE IF cents >= 30000 THEN <<10>>
    ELSE << >>

\* _claim_allowed_coupon_types, the best first.
ClaimTypes(a) ==
    LET cents == RoundMoney(a) IN
    IF cents >= 90000 THEN <<30, 20, 10>>
    ELSE IF cents >= 60000 THEN <<20, 10>>
    ELSE IF cents >= 30000 THEN <<10>>
    ELSE << >>

BugClaimOverdrawn(allowed) == IF allowed = << >> THEN 0 ELSE Head(allowed)

\* The loop of CLAIM_BEST_COUPON_LUA: the first type of which there is one.
ScriptResult(allowed) ==
    LET there == {i \in 1 .. Len(allowed) : balance[allowed[i]] > 0} IN
    IF there = {} THEN 0 ELSE allowed[CHOOSE i \in there : \A j \in there : i <= j]

----------------------------------------------------------------------------
(* increment_rate_limit *)

BugExpireLater(n) == n = 0

\* Only the request that created the counter gives it an end.
StartsWindow(n) == n = 1

\* The request arrives and increments the counter of its kind. Without an
\* answer there is no limit, and nobody learns that the counter was created.
Count(c, k, o) ==
    /\ call[c].pc = "idle"
    /\ \E effect \in {0, 1}, answered \in BOOLEAN :
          /\ ~answered => RedisFails
          /\ answered => effect = 1
          /\ counter' = [counter EXCEPT ![k] = @ + effect]
          /\ stranded' = [stranded EXCEPT ![k] = @ \/ (~answered /\ effect = 1 /\ counter[k] = 0)]
          /\ call' = [call EXCEPT ![c] =
                [NewCall EXCEPT !.kind = k, !.order = o,
                                !.count = IF answered THEN counter'[k] ELSE 0,
                                !.pc = IF answered /\ StartsWindow(counter'[k]) THEN "expire" ELSE "decide"]]
    /\ UNCHANGED <<amount, engineVars, ticking>>

\* EXPIRE; a failure is swallowed, so one that took effect counts as done.
StartWindow(c) ==
    /\ call[c].pc = "expire"
    /\ LET k == call[c].kind IN
       \/ ticking' = [ticking EXCEPT ![k] = counter[k] # 0] /\ UNCHANGED stranded
       \/ RedisFails /\ stranded' = [stranded EXCEPT ![k] = TRUE] /\ UNCHANGED ticking
    /\ call' = [call EXCEPT ![c].pc = "decide"]
    /\ UNCHANGED <<amount, engineVars, counter>>

\* Redis drops a counter whose time is up.
CounterExpires(k) ==
    /\ ticking[k]
    /\ counter' = [counter EXCEPT ![k] = 0]
    /\ ticking' = [ticking EXCEPT ![k] = FALSE]
    /\ UNCHANGED <<amount, engineVars, stranded, call>>

----------------------------------------------------------------------------
(* issue_coupon_for_order, claim_best_coupon_for_order *)

\* _should_simulate_coupon_issue_failure, before anything else.
SimulatedFailure(c, o) ==
    /\ Simulated
    /\ call[c].pc = "idle"
    /\ call' = [call EXCEPT ![c] = [NewCall EXCEPT !.pc = "done", !.kind = "issue", !.order = o,
                                                   !.status = "refused"]]
    /\ UNCHANGED <<amount, engineVars, limitVars>>

OverLimit(c) == call[c].count > IF call[c].kind = "issue" THEN MaxIssues ELSE MaxClaims

TooMany(c) ==
    /\ call[c].pc = "decide" /\ OverLimit(c)
    /\ call' = [call EXCEPT ![c].pc = "done", ![c].count = 0, ![c].status = "refused"]
    /\ UNCHANGED <<amount, engineVars, limitVars>>

\* The type HINCRBY or the script works on; 0 when the amount is below every
\* threshold, or the user has no coupon that the amount allows.
Chosen(c) ==
    LET a == amount[call[c].order] IN
    IF call[c].kind = "issue" THEN IssueType(a) ELSE ScriptResult(ClaimTypes(a))

\* Below every threshold the balance is not touched and Redis not asked.
BelowThreshold(c) ==
    LET a == amount[call[c].order] IN
    IF call[c].kind = "issue" THEN IssueType(a) = 0 ELSE ClaimTypes(a) = << >>

BugIssueNothing(k) == IF k = "issue" THEN 0 ELSE -1

Moved(k) == IF k = "issue" THEN 1 ELSE -1

\* The best coupon an amount and the balance allow, by the thresholds alone.
BestOf(k, a) ==
    LET cents == RoundMoney(a)
        floor == IF k = "issue" THEN [t \in Types |-> 3000 * t - 10000]
                 ELSE [t \in Types |-> 3000 * t]
        open  == {t \in Types : cents >= floor[t] /\ (k = "claim" => balance[t] > 0)}
    IN IF open = {} THEN 0 ELSE CHOOSE t \in open : \A x \in open : x <= t

\* HINCRBY, or the script, which Redis runs as one step. No answer: 503.
Move(c) ==
    /\ call[c].pc = "decide" /\ ~OverLimit(c) /\ ~BelowThreshold(c)
    /\ \E effect \in BOOLEAN, answered \in BOOLEAN :
          /\ ~answered => RedisFails
          /\ answered => effect
          /\ balance' = [t \in Types |-> IF effect /\ t = Chosen(c) THEN balance[t] + Moved(call[c].kind)
                                         ELSE balance[t]]
          /\ call' = IF answered
                     THEN [call EXCEPT ![c].pc = "record", ![c].count = 0, ![c].coupon = Chosen(c),
                                       ![c].best = BestOf(call[c].kind, amount[call[c].order])]
                     ELSE [call EXCEPT ![c].pc = "done", ![c].count = 0, ![c].status = "unavailable"]
    /\ UNCHANGED <<amount, limitVars, record>>

NothingToMove(c) ==
    /\ call[c].pc = "decide" /\ ~OverLimit(c) /\ BelowThreshold(c)
    /\ call' = [call EXCEPT ![c].pc = "record", ![c].count = 0,
                            ![c].best = BestOf(call[c].kind, amount[call[c].order])]
    /\ UNCHANGED <<amount, engineVars, limitVars>>

BugRecordChoice(c) == Chosen(c)

\* The payload of the record is the answer.
RecordValue(c) == call[c].coupon

\* setex of the record, for a request with order_no; a failure is swallowed.
Answer(c) ==
    /\ call[c].pc = "record"
    /\ LET o == call[c].order
           k == call[c].kind IN
       \/ o # NoOrder /\ record' = [record EXCEPT ![k][o] = RecordValue(c)]
       \/ (o = NoOrder \/ RedisFails) /\ UNCHANGED record
    /\ call' = [call EXCEPT ![c].pc = "done", ![c].best = 0, ![c].status = "ok"]
    /\ UNCHANGED <<amount, balance, limitVars>>

\* After coupon_order_record_ttl_seconds.
RecordExpires(k, o) ==
    /\ record[k][o] # -1
    /\ record' = [record EXCEPT ![k][o] = -1]
    /\ UNCHANGED <<amount, balance, limitVars, call>>

----------------------------------------------------------------------------

Next ==
    \/ \E c \in Calls :
          \/ StartWindow(c) \/ TooMany(c) \/ Move(c) \/ NothingToMove(c) \/ Answer(c)
          \/ \E k \in Kinds, o \in Orders \cup {NoOrder} : Count(c, k, o)
          \/ \E o \in Orders \cup {NoOrder} : SimulatedFailure(c, o)
    \/ \E k \in Kinds : CounterExpires(k)
    \/ \E k \in Kinds, o \in Orders : RecordExpires(k, o)

Spec == Init /\ [][Next]_vars

----------------------------------------------------------------------------
(* What the user is shown *)

\* get_coupon_balance_snapshot: the fields of the hash, an absent one counting 0.
Snapshot == balance

\* get_user_coupon_balances
ShownBalance(t) == IF Snapshot[t] > 0 THEN Snapshot[t] ELSE 0

\* get_coupon_issue_record, get_coupon_claim_record: each kind has its own keys.
StoredRecord(k, o) == record[k][o]

\* get_user_coupon_issue_by_order, get_user_coupon_selection_by_order: 404 when
\* there is no record or Redis does not answer.
ShownRecord(k, o) == StoredRecord(k, o)

----------------------------------------------------------------------------
(* Properties *)

Told(k, t) == Cardinality({c \in Calls : call[c].kind = k /\ call[c].coupon = t})
Silent(k) == Cardinality({c \in Calls : call[c].kind = k /\ call[c].status = "unavailable"})

\* Coupons are neither forged nor lost: whatever the interleaving of issues and
\* claims, the balance shown is what the answered requests make of it, give or take
\* the requests that were answered "Coupon engine unavailable".
BalanceAccounted == \A t \in Types :
    LET due == StartBalance + Told("issue", t) - Told("claim", t) IN
    ShownBalance(t) \in (due - Silent("claim")) .. (due + Silent("issue"))

\* A request gets the best coupon that its amount, after rounding, and the
\* balance at the moment of the claim allow, none only when there is none, and
\* of two claims of the last coupon just one gets it.
BestCouponGiven == \A c \in Calls :
    call[c].pc = "record" => call[c].coupon = call[c].best

\* A record is true: the coupon it shows for an order was really issued, or
\* deducted, by a request for that order, also when requests for the order are
\* repeated and when other requests change the balance before it is written.
RecordsAreTrue == \A k \in Kinds, o \in Orders : ShownRecord(k, o) \in Types =>
    \E c \in Calls : /\ call[c].kind = k /\ call[c].order = o
                     /\ call[c].coupon = ShownRecord(k, o)

\* A user who is refused for too many requests is not refused for ever: every
\* counter has an end, or the request that creates it is about to give it one,
\* unless Redis failed at one of these two commands. After that failure the
\* counter stays, since no later request sets the time to live.
CounterEnds == \A k \in Kinds : counter[k] > 0 =>
    \/ ticking[k] \/ stranded[k]
    \/ \E c \in Calls : call[c].kind = k /\ call[c].pc = "expire"

=============================================================================
