------------------------------- MODULE Gateway -------------------------------
(***************************************************************************)
(* The API gateways, in Python and in Go, in front of the services: a      *)
(* request is authenticated, its role is checked, login and order creation *)
(* are counted in a Redis key per window, and what remains is forwarded.   *)
(*                                                                         *)
(* Several gateways of both kinds share Redis. Every Redis command is a    *)
(* step and may fail, before or after it took effect; an error lets the    *)
(* request through. Bodies, headers and addresses are left out: requests   *)
(* come from one address, and the check of the token itself is Sessions.   *)
(***************************************************************************)
EXTENDS Integers, FiniteSets

CONSTANTS
    Requests,     \* each runs once
    Users,        \* signed-in users of role USER
    Admins,       \* and of role ADMIN
    Nobody,       \* no Authorization header
    MaxRequests,  \* login_ and order_create_rate_limit_max_requests
    Repeats,      \* bound: how often the Go client repeats an INCR
    RedisFails    \* whether a Redis command may fail

ASSUME PeopleAssumption == Nobody \notin Users \cup Admins /\ Users \cap Admins = {}
ASSUME BudgetAssumption == MaxRequests \in Nat /\ Repeats \in Nat
ASSUME RedisAssumption == RedisFails \in BOOLEAN

People == Users \cup Admins \cup {Nobody}

\* A public route differs from "other" in nothing the gateway does: either way a
\* token is checked if there is one.
Routes == {"login", "order", "admin", "other", "unknown"}

\* The rate limit keys: login by address, orders by user, or by address for
\* a request without a token.
Keys == {<<"login", Nobody>>} \cup {<<"order", p>> : p \in People}
NoKey == <<"none", Nobody>>

VARIABLES
    count,   \* count[k]: the counter, 0 when the key is absent
    timed,   \* timed[k]: whether the key has a time to live
    window,  \* window[k]: how many windows of the key have ended
    req      \* req[r]: where the request is and what it has read

vars == <<count, timed, window, req>>

\* How a request ends: "refused" stands for 401, 403 and 404, "failed" for 502
\* and 504.
Outcomes == {"refused", "429", "failed", "answered"}

\* current is what the limiter returns, -1 for nil; window is a history, the
\* window in which the request was counted. What is no longer needed is cleared.
NewReq == [pc |-> "new", key |-> NoKey, current |-> -1, window |-> 0, repeats |-> 0]

\* Counters, windows and requests keep their types; an absent key has no expiry.
TypeOK ==
    /\ count \in [Keys -> Nat]
    /\ timed \in [Keys -> BOOLEAN]
    /\ window \in [Keys -> Nat]
    /\ req \in [Requests ->
          [pc : {"new", "incr+ttl", "incr", "ttl", "expire", "decide", "forward"} \cup Outcomes,
           key : Keys \cup {NoKey}, current : Nat \cup {-1}, window : Nat, repeats : 0 .. Repeats]]
    /\ \A k \in Keys : timed[k] => count[k] > 0

Init ==
    /\ count = [k \in Keys |-> 0]
    /\ timed = [k \in Keys |-> FALSE]
    /\ window = [k \in Keys |-> 0]
    /\ req = [r \in Requests |-> NewReq]

\* Definitions named Bug... are seeded defects. No action uses them: each
\* replaces the definition after it to show that a property can fail.

keyVars == <<count, timed, window>>

Goes(r, where) == req' = [req EXCEPT ![r].pc = where]

----------------------------------------------------------------------------
(* Authentication and role *)

\* enforce_role: only admin routes ask for a role.
MayUse(route, who) == route = "admin" => who \in Admins

\* resolve_target
Routed(route) == route # "unknown"

Limited(route) == route \in {"login", "order"}

LimitKey(route, who) == IF route = "login" THEN <<"login", Nobody>> ELSE <<"order", who>>

\* gateway_proxy, ServeHTTP: get_current_user, enforce_role, and on to the
\* limiter of the Python or of the Go gateway. No unknown route is limited.
Arrive(r, go, route, who) ==
    /\ req[r].pc = "new"
    /\ req' = [req EXCEPT ![r] =
          IF ~MayUse(route, who) \/ ~Routed(route) THEN [NewReq EXCEPT !.pc = "refused"]
          ELSE IF ~Limited(route) THEN [NewReq EXCEPT !.pc = "forward"]
          ELSE [NewReq EXCEPT !.pc = IF go THEN "incr" ELSE "incr+ttl", !.key = LimitKey(route, who)]]
    /\ UNCHANGED keyVars

\* A malformed header, or a token that is revoked, expired or forged.
BadToken(r) ==
    /\ req[r].pc = "new"
    /\ Goes(r, "refused")
    /\ UNCHANGED keyVars

----------------------------------------------------------------------------
(* increment_rate_limit, IncrementRateLimit *)

BugFirstOnly(current, hasTtl) == current = 1

\* Both gateways look at the time to live, not at the count: a key that has none
\* gets one, whoever created it.
NeedsExpire(current, hasTtl) == ~hasTtl

Increment(k) == count' = [count EXCEPT ![k] = @ + 1] /\ UNCHANGED <<timed, window>>

\* Python: INCR and TTL in one MULTI.
IncrAndTtl(r) ==
    /\ req[r].pc = "incr+ttl"
    /\ LET k == req[r].key
           n == count[k] + 1 IN
       /\ Increment(k)
       /\ req' = [req EXCEPT ![r].pc = IF NeedsExpire(n, timed[k]) THEN "expire" ELSE "decide",
                             ![r].current = n, ![r].window = window[k]]

\* Go: INCR alone.
Incr(r) ==
    /\ req[r].pc = "incr"
    /\ Increment(req[r].key)
    /\ req' = [req EXCEPT ![r].pc = "ttl", ![r].current = count[req[r].key] + 1,
                          ![r].window = window[req[r].key]]

\* The Go client repeats a command whose answer did not come.
IncrRepeated(r) ==
    /\ RedisFails /\ req[r].pc = "incr" /\ req[r].repeats < Repeats
    /\ Increment(req[r].key)
    /\ req' = [req EXCEPT ![r].repeats = @ + 1]

\* Go: TTL, a round trip later. The key may be gone by then.
Ttl(r) ==
    /\ req[r].pc = "ttl"
    /\ Goes(r, IF NeedsExpire(req[r].current, timed[req[r].key]) THEN "expire" ELSE "decide")
    /\ UNCHANGED keyVars

BugExpireAbsent(r) ==
    /\ req[r].pc = "expire"
    /\ timed' = [timed EXCEPT ![req[r].key] = TRUE]
    /\ Goes(r, "decide")
    /\ UNCHANGED <<count, window>>

\* EXPIRE starts the time to live, anew if there is one; it does nothing when
\* the key is gone.
Expire(r) ==
    /\ req[r].pc = "expire"
    /\ timed' = [timed EXCEPT ![req[r].key] = count[req[r].key] > 0]
    /\ Goes(r, "decide")
    /\ UNCHANGED <<count, window>>

\* An error of any of these commands: no count, no limit.
LimiterFails(r) ==
    /\ RedisFails /\ req[r].pc \in {"incr+ttl", "incr", "ttl", "expire"}
    /\ \/ UNCHANGED keyVars
       \/ req[r].pc \in {"incr+ttl", "incr"} /\ Increment(req[r].key)
       \/ /\ req[r].pc = "expire" /\ count[req[r].key] > 0
          /\ timed' = [timed EXCEPT ![req[r].key] = TRUE]
          /\ UNCHANGED <<count, window>>
    /\ req' = [req EXCEPT ![r].pc = "decide", ![r].current = -1]

\* The window of a key ends.
WindowEnds(k) ==
    /\ timed[k]
    /\ count' = [count EXCEPT ![k] = 0]
    /\ timed' = [timed EXCEPT ![k] = FALSE]
    /\ window' = [window EXCEPT ![k] = @ + 1]
    /\ UNCHANGED req

BugOneMore(current) == current # -1 /\ current > MaxRequests + 1

OverBudget(current) == current # -1 /\ current > MaxRequests

\* apply_rate_limit, ApplyRateLimit
Decide(r) ==
    /\ req[r].pc = "decide"
    /\ LET after == IF OverBudget(req[r].current) THEN "429" ELSE "forward" IN
       req' = [req EXCEPT ![r] =
           IF req[r].current = -1 THEN [NewReq EXCEPT !.pc = after]
           ELSE [req[r] EXCEPT !.pc = after, !.current = -1, !.repeats = 0]]
    /\ UNCHANGED keyVars

----------------------------------------------------------------------------
(* forward_request, forward *)

\* One attempt; the answer of the service is passed on.
Forward(r) ==
    /\ req[r].pc = "forward"
    /\ Goes(r, "answered")
    /\ UNCHANGED keyVars

\* Or the attempt ends in a timeout or a connection error, with no retry.
UpstreamFails(r) ==
    /\ req[r].pc = "forward"
    /\ Goes(r, "failed")
    /\ UNCHANGED keyVars

----------------------------------------------------------------------------

Next ==
    \/ \E r \in Requests :
          \/ BadToken(r) \/ Decide(r) \/ Forward(r) \/ UpstreamFails(r)
          \/ IncrAndTtl(r) \/ Incr(r) \/ IncrRepeated(r) \/ Ttl(r) \/ Expire(r) \/ LimiterFails(r)
          \/ \E go \in BOOLEAN, route \in Routes, who \in People : Arrive(r, go, route, who)
    \/ \E k \in Keys : WindowEnds(k)

Spec == Init /\ [][Next]_vars

----------------------------------------------------------------------------
(* Properties *)

\* The requests the limiter let through, and those it has decided on, without
\* an error; Decide clears the key of a request that met with one.
Served == {r \in Requests : req[r].key # NoKey /\ req[r].pc \in {"forward", "answered", "failed"}}
Decided == Served \cup {r \in Requests : req[r].pc = "429"}

\* Fixed windows: of the requests counted in one window of a key at most the
\* maximum get to a service, however the commands of both kinds of gateway
\* interleave and whichever of them fail.
BudgetKept == \A k \in Keys : \A w \in 0 .. window[k] :
    Cardinality({r \in Served : req[r].key = k /\ req[r].window = w}) <= MaxRequests

\* A key never outlives the trouble that left it without an end: once a request
\* has been counted without an error, the window it was counted in has an end,
\* even if the request that created the key, or any other, failed to set it. So
\* whoever is refused with 429 can try again.
CountedWindowIsTimed == \A r \in Decided :
    req[r].window = window[req[r].key] => timed[req[r].key]

==============================================================================
