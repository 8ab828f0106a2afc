---------------------------- MODULE GatewayProofs ----------------------------
(***************************************************************************)
(* Theorems about Gateway, for any number of requests and gateways, any    *)
(* users and any maximum.                                                  *)
(***************************************************************************)
EXTENDS Gateway, FiniteSetTheorems, TLAPS

PCs == {"new", "incr+ttl", "incr", "ttl", "expire", "decide", "forward"} \cup Outcomes

ReqRecs == [pc : PCs, key : Keys \cup {NoKey}, current : Nat \cup {-1}, window : Nat, repeats : 0 .. Repeats]

\* The request has been counted, and no error since then made the limiter forget
\* it: it waits for a decision, or the decision was taken on its count.
Pending(r) == req[r].pc \in {"ttl", "expire"} \/ (req[r].pc = "decide" /\ req[r].current # -1)
Counts(r) ==
    \/ Pending(r)
    \/ req[r].pc \in {"forward", "answered", "failed", "429"} /\ req[r].key # NoKey

\* It was let through, or will be if no error comes.
Allows(r) == Counts(r) /\ req[r].pc # "429" /\ (Pending(r) => req[r].current <= MaxRequests)

CountedIn(k, w) == {r \in Requests : Counts(r) /\ req[r].key = k /\ req[r].window = w}
AllowedIn(k, w) == {r \in CountedIn(k, w) : Allows(r)}

\* No request is counted in a window to come; the key of the window it was
\* counted in exists until that window ends, and has an end once the request has
\* looked at the time to live.
ReqInv(r) ==
    /\ req[r].pc \in {"incr+ttl", "incr", "ttl", "expire", "decide", "429"} => req[r].key \in Keys
    /\ Counts(r) =>
          /\ req[r].window <= window[req[r].key]
          /\ req[r].window = window[req[r].key] =>
                /\ count[req[r].key] > 0
                /\ req[r].pc \notin {"ttl", "expire"} => timed[req[r].key]

\* The counter is at least the number of requests counted in its window, so
\* those with a count in the budget fit in it; the rank of a request is lost with
\* the decision, the number of those let through is not.
Budget == \A k \in Keys :
    /\ \A w \in Nat :
          /\ IsFiniteSet(CountedIn(k, w))
          /\ Cardinality(AllowedIn(k, w)) <= MaxRequests
    /\ Cardinality(CountedIn(k, window[k])) <= count[k]

Inv == TypeOK /\ Budget /\ \A r \in Requests : ReqInv(r)

----------------------------------------------------------------------------

LEMMA KeyFacts ==
    /\ NoKey \notin Keys
    /\ \A route \in Routes, who \in People : Limited(route) => LimitKey(route, who) \in Keys
BY DEF NoKey, Keys, LimitKey, Limited

LEMMA ReqType == TypeOK => req \in [Requests -> ReqRecs]
BY DEF TypeOK, ReqRecs, PCs

\* What a step of request r leaves, and the record it writes.
LEMMA Moves ==
    ASSUME TypeOK, NEW r \in Requests, NEW n \in ReqRecs, req' = [req EXCEPT ![r] = n]
    PROVE  /\ req' \in [Requests -> ReqRecs]
           /\ \A s \in Requests \ {r} : req'[s] = req[s]
           /\ req'[r] = n
BY ReqType

LEMMA GoesTo ==
    ASSUME TypeOK, NEW r \in Requests, NEW w \in PCs, Goes(r, w)
    PROVE  /\ req' \in [Requests -> ReqRecs]
           /\ \A s \in Requests \ {r} : req'[s] = req[s]
           /\ req'[r] \in ReqRecs /\ req'[r].pc = w /\ req'[r].key = req[r].key
           /\ req'[r].current = req[r].current /\ req'[r].window = req[r].window
<1>1. req \in [Requests -> ReqRecs]
  BY ReqType
<1>2. req' \in [Requests -> ReqRecs] /\ \A s \in Requests \ {r} : req'[s] = req[s]
  BY <1>1 DEF Goes, ReqRecs
<1>3. req'[r] = [req[r] EXCEPT !.pc = w] /\ req[r] \in ReqRecs
  BY <1>1 DEF Goes
<1> QED
  BY <1>2, <1>3 DEF ReqRecs

LEMMA CountedFacts ==
    ASSUME Inv, NEW k \in Keys, NEW w \in Nat
    PROVE  /\ IsFiniteSet(CountedIn(k, w)) /\ IsFiniteSet(AllowedIn(k, w))
           /\ Cardinality(CountedIn(k, w)) \in Nat /\ Cardinality(AllowedIn(k, w)) \in Nat
           /\ Cardinality(AllowedIn(k, w)) <= Cardinality(CountedIn(k, w))
<1>1. IsFiniteSet(CountedIn(k, w))
  BY DEF Inv, Budget
<1>2. AllowedIn(k, w) \in SUBSET CountedIn(k, w)
  BY DEF AllowedIn
<1> QED
  BY <1>1, <1>2, FS_Subset, FS_CardinalityType

\* Within a window, keys do not lose their count or their end.
KeysKept ==
    /\ window' = window
    /\ \A k \in Keys : count'[k] >= count[k] /\ (timed[k] => timed'[k])

\* A request that does not move keeps its invariant.
LEMMA Undisturbed ==
    ASSUME TypeOK, TypeOK', KeysKept, NEW s \in Requests, ReqInv(s), req'[s] = req[s]
    PROVE  ReqInv(s)'
<1>1. Counts(s)' <=> Counts(s)
  BY DEF Counts, Pending
<1>2. req[s] \in ReqRecs
  BY ReqType
<1>3. Counts(s) => req[s].key \in Keys
  BY <1>2 DEF Counts, Pending, ReqInv, ReqRecs
<1>4. ASSUME NEW k \in Keys, count[k] > 0 PROVE count'[k] > 0
  BY <1>4 DEF KeysKept, TypeOK
<1> QED
  BY <1>1, <1>3, <1>4 DEF ReqInv, KeysKept

\* Steps that count nothing.
LEMMA NotCounted ==
    ASSUME Inv, TypeOK', KeysKept, NEW r \in Requests,
           \A s \in Requests \ {r} : req'[s] = req[s],
           Counts(r)' => Counts(r) /\ req'[r].key = req[r].key /\ req'[r].window = req[r].window,
           Allows(r)' => Allows(r), ReqInv(r)'
    PROVE  Inv'
<1>1. \A s \in Requests : ReqInv(s)'
  BY Undisturbed DEF Inv
<1>2. ASSUME NEW k \in Keys, NEW w \in Nat
      PROVE  CountedIn(k, w)' \in SUBSET CountedIn(k, w) /\ AllowedIn(k, w)' \in SUBSET AllowedIn(k, w)
  <2>1. \A s \in Requests \ {r} : (Counts(s)' <=> Counts(s)) /\ (Allows(s)' <=> Allows(s))
    BY DEF Counts, Pending, Allows
  <2> QED
    BY <2>1 DEF CountedIn, AllowedIn
<1>3. ASSUME NEW k \in Keys, NEW w \in Nat
      PROVE  /\ IsFiniteSet(CountedIn(k, w)')
             /\ Cardinality(CountedIn(k, w)') <= Cardinality(CountedIn(k, w))
             /\ Cardinality(CountedIn(k, w)') \in Nat
             /\ Cardinality(AllowedIn(k, w)') <= MaxRequests
  <2>1. IsFiniteSet(CountedIn(k, w)') /\ IsFiniteSet(AllowedIn(k, w)')
        /\ Cardinality(CountedIn(k, w)') <= Cardinality(CountedIn(k, w))
        /\ Cardinality(AllowedIn(k, w)') <= Cardinality(AllowedIn(k, w))
    BY <1>2, CountedFacts, FS_Subset
  <2>2. Cardinality(CountedIn(k, w)') \in Nat /\ Cardinality(AllowedIn(k, w)') \in Nat
        /\ Cardinality(AllowedIn(k, w)) \in Nat
    BY <2>1, CountedFacts, FS_CardinalityType
  <2>3. Cardinality(AllowedIn(k, w)) <= MaxRequests
    BY DEF Inv, Budget
  <2> QED
    BY <2>1, <2>2, <2>3, BudgetAssumption
<1>4. ASSUME NEW k \in Keys PROVE Cardinality(CountedIn(k, window[k])') <= count'[k]
  <2>1. PICK v \in Nat : v = window[k] /\ v = window'[k]
    BY DEF Inv, TypeOK, KeysKept
  <2>2. count[k] \in Nat /\ count'[k] \in Nat /\ count'[k] >= count[k]
    BY DEF Inv, TypeOK, KeysKept
  <2>3. Cardinality(CountedIn(k, v)) <= count[k] /\ Cardinality(CountedIn(k, v)) \in Nat
    BY <2>1, CountedFacts DEF Inv, Budget
  <2>4. CountedIn(k, window[k])' = CountedIn(k, v)'
    BY <2>1 DEF CountedIn
  <2>5. Cardinality(CountedIn(k, v)') <= Cardinality(CountedIn(k, v)) /\ Cardinality(CountedIn(k, v)') \in Nat
    BY <1>3
  <2> QED
    BY <2>2, <2>3, <2>4, <2>5
<1>5. Budget'
  BY <1>3, <1>4 DEF Budget
<1> QED
  BY <1>1, <1>5 DEF Inv


\* A step that counts request r, in the window of its key that is open: if its
\* count is in the budget, so are the requests counted before it.
LEMMA Counted ==
    ASSUME Inv, TypeOK', KeysKept, NEW r \in Requests, ~Counts(r), req[r].key \in Keys,
           \A s \in Requests \ {r} : req'[s] = req[s],
           count' = [count EXCEPT ![req[r].key] = @ + 1],
           Pending(r)', req'[r].key = req[r].key, req'[r].window = window[req[r].key],
           req'[r].current = count[req[r].key] + 1, ReqInv(r)'
    PROVE  Inv'
<1> DEFINE key == req[r].key
           open == window[key]
<1>0. key \in Keys /\ open \in Nat /\ count[key] \in Nat /\ window' = window /\ r \notin CountedIn(key, open)
  BY DEF Inv, TypeOK, KeysKept, CountedIn
<1>1. \A s \in Requests : ReqInv(s)'
  BY Undisturbed DEF Inv
<1>2. \A s \in Requests \ {r} : (Counts(s)' <=> Counts(s)) /\ (Allows(s)' <=> Allows(s))
  BY DEF Counts, Pending, Allows
<1>3. Counts(r)'
  BY DEF Counts
<1> DEFINE C(k, w) == {s \in Requests : Counts(s)' /\ req'[s].key = k /\ req'[s].window = w}
           A(k, w) == {s \in C(k, w) : Allows(s)'}
<1>4. ASSUME NEW k \in Keys, NEW w \in Nat PROVE CountedIn(k, w)' = C(k, w) /\ AllowedIn(k, w)' = A(k, w)
  BY DEF CountedIn, AllowedIn
<1>5. ASSUME NEW k \in Keys, NEW w \in Nat
      PROVE  IF k = key /\ w = open
             THEN /\ C(k, w) = CountedIn(k, w) \cup {r}
                  /\ A(k, w) = AllowedIn(k, w) \cup (IF Allows(r)' THEN {r} ELSE {})
             ELSE C(k, w) = CountedIn(k, w) /\ A(k, w) = AllowedIn(k, w)
  BY <1>0, <1>2, <1>3 DEF CountedIn, AllowedIn
<1>6. \A k \in Keys : count'[k] = IF k = key THEN count[k] + 1 ELSE count[k]
  BY <1>0 DEF Inv, TypeOK
<1>7. Allows(r)' => count[key] + 1 <= MaxRequests
  BY DEF Allows
<1> HIDE DEF C, A
<1>8. ASSUME NEW k \in Keys, NEW w \in Nat
      PROVE  IsFiniteSet(C(k, w)) /\ Cardinality(A(k, w)) <= MaxRequests
  <2>0. /\ IsFiniteSet(CountedIn(k, w)) /\ Cardinality(AllowedIn(k, w)) <= MaxRequests
        /\ IsFiniteSet(AllowedIn(k, w)) /\ Cardinality(AllowedIn(k, w)) \in Nat
    BY CountedFacts DEF Inv, Budget
  <2>1. CASE ~(k = key /\ w = open)
    BY <1>5, <2>0, <2>1
  <2>2. CASE k = key /\ w = open
    <3>0. C(k, w) = CountedIn(k, w) \cup {r}
      BY <1>5, <2>2
    <3>1. IsFiniteSet(C(k, w))
      BY <2>0, <3>0, FS_AddElement
    <3>2. CASE ~Allows(r)'
      BY <1>5, <2>0, <2>2, <3>1, <3>2
    <3>3. CASE Allows(r)'
      <4>1. Cardinality(AllowedIn(k, w)) <= Cardinality(CountedIn(k, w)) /\ Cardinality(CountedIn(k, w)) <= count[key]
            /\ Cardinality(CountedIn(k, w)) \in Nat
        BY <2>2, CountedFacts DEF Inv, Budget
      <4>2. r \notin AllowedIn(k, w)
        BY <1>0, <2>2 DEF AllowedIn
      <4>3. A(k, w) = AllowedIn(k, w) \cup {r}
        BY <1>5, <2>2, <3>3
      <4>4. Cardinality(AllowedIn(k, w) \cup {r}) = Cardinality(AllowedIn(k, w)) + 1
        BY <2>0, <4>2, FS_AddElement
      <4> QED
        BY <1>0, <1>7, <2>0, <3>1, <3>3, <4>1, <4>3, <4>4, BudgetAssumption
    <3> QED
      BY <3>2, <3>3
  <2> QED
    BY <2>1, <2>2
<1>9. ASSUME NEW k \in Keys PROVE Cardinality(CountedIn(k, window[k])') <= count'[k]
  <2>1. PICK v \in Nat : v = window[k] /\ v = window'[k]
    BY <1>0 DEF Inv, TypeOK
  <2>2. CountedIn(k, window[k])' = C(k, v)
    BY <2>1 DEF CountedIn, C
  <2>3. IsFiniteSet(CountedIn(k, v)) /\ Cardinality(CountedIn(k, v)) <= count[k]
        /\ Cardinality(CountedIn(k, v)) \in Nat /\ count[k] \in Nat
    BY <2>1, CountedFacts DEF Inv, Budget, TypeOK
  <2>4. CASE k # key
    BY <1>5, <1>6, <2>2, <2>3, <2>4
  <2>5. CASE k = key
    <3>1. C(k, v) = CountedIn(k, v) \cup {r}
      BY <1>5, <2>1, <2>5
    <3>2. r \notin CountedIn(k, v)
      BY <1>0, <2>1, <2>5
    <3>3. Cardinality(CountedIn(k, v) \cup {r}) = Cardinality(CountedIn(k, v)) + 1
      BY <2>3, <3>2, FS_AddElement
    <3> QED
      BY <1>6, <2>2, <2>3, <2>5, <3>1, <3>3
  <2> QED
    BY <2>4, <2>5
<1>10. Budget'
  BY <1>4, <1>8, <1>9 DEF Budget
<1> QED
  BY <1>1, <1>10 DEF Inv

LEMMA InitInv == Init => Inv
<1> SUFFICES ASSUME Init PROVE Inv
  OBVIOUS
<1>1. TypeOK
  BY BudgetAssumption DEF Init, TypeOK, NewReq, Outcomes
<1>2. \A r \in Requests : ~Counts(r) /\ ReqInv(r)
  BY DEF Init, NewReq, Counts, Pending, ReqInv
<1>3. ASSUME NEW k \in Keys, NEW w PROVE CountedIn(k, w) = {} /\ AllowedIn(k, w) = {}
  BY <1>2 DEF CountedIn, AllowedIn
<1>4. Budget
  <2>1. ASSUME NEW k \in Keys, NEW w
        PROVE  /\ IsFiniteSet(CountedIn(k, w)) /\ Cardinality(CountedIn(k, w)) = 0
               /\ Cardinality(AllowedIn(k, w)) = 0
    BY <1>3, FS_EmptySet
  <2>2. ASSUME NEW k \in Keys PROVE count[k] = 0 /\ Cardinality(CountedIn(k, window[k])) = 0
    BY <2>1 DEF Init
  <2> QED
    BY <2>1, <2>2, BudgetAssumption DEF Budget
<1> QED
  BY <1>1, <1>2, <1>4 DEF Inv

LEMMA NewReqType ==
    ASSUME NEW w \in PCs, NEW k \in Keys \cup {NoKey}
    PROVE  /\ [NewReq EXCEPT !.pc = w, !.key = k] \in ReqRecs
           /\ [NewReq EXCEPT !.pc = w] \in ReqRecs
<1>1. 0 \in 0 .. Repeats /\ 0 \in Nat /\ -1 \in Nat \cup {-1}
  BY BudgetAssumption
<1> QED
  BY <1>1 DEF NewReq, ReqRecs

\* A request that has nothing counted has nothing to keep but its key.
LEMMA Plain ==
    ASSUME Inv, UNCHANGED keyVars, NEW r \in Requests, NEW n \in ReqRecs,
           req' = [req EXCEPT ![r] = n],
           n.pc \in {"new", "incr+ttl", "incr", "refused"} \/ (n.key = NoKey /\ n.pc = "forward"),
           n.pc \in {"incr+ttl", "incr"} => n.key \in Keys
    PROVE  Inv'
<1>1. /\ req' \in [Requests -> ReqRecs]
      /\ \A s \in Requests \ {r} : req'[s] = req[s]
      /\ req'[r] = n
  BY Moves DEF Inv
<1>2. TypeOK'
  BY <1>1 DEF Inv, TypeOK, keyVars, ReqRecs, PCs
<1>3. KeysKept
  BY DEF KeysKept, keyVars, Inv, TypeOK
<1>4. ~Counts(r)' /\ ~Allows(r)' /\ ReqInv(r)'
  BY <1>1 DEF Counts, Pending, Allows, ReqInv
<1> QED
  BY <1>1, <1>2, <1>3, <1>4, NotCounted

LEMMA ArriveInv ==
    ASSUME Inv, NEW r \in Requests, NEW go \in BOOLEAN, NEW route \in Routes, NEW who \in People,
           Arrive(r, go, route, who)
    PROVE  Inv'
<1> DEFINE n == IF ~MayUse(route, who) \/ ~Routed(route) THEN [NewReq EXCEPT !.pc = "refused"]
                ELSE IF ~Limited(route) THEN [NewReq EXCEPT !.pc = "forward"]
                ELSE [NewReq EXCEPT !.pc = IF go THEN "incr" ELSE "incr+ttl", !.key = LimitKey(route, who)]
<1>1. CASE ~MayUse(route, who) \/ ~Routed(route)
  <2>1. n = [NewReq EXCEPT !.pc = "refused"]
    BY <1>1
  <2>2. n \in ReqRecs /\ n.pc = "refused"
    BY <2>1, NewReqType DEF PCs, Outcomes, NewReq
  <2> HIDE DEF n
  <2> QED
    BY <2>2, Plain DEF Arrive, n
<1>2. CASE MayUse(route, who) /\ Routed(route) /\ ~Limited(route)
  <2>1. n = [NewReq EXCEPT !.pc = "forward"]
    BY <1>2
  <2>2. n \in ReqRecs /\ n.pc = "forward" /\ n.key = NoKey
    BY <2>1, NewReqType DEF PCs, Outcomes, NewReq
  <2> HIDE DEF n
  <2> QED
    BY <2>2, Plain DEF Arrive, n
<1>3. CASE MayUse(route, who) /\ Routed(route) /\ Limited(route)
  <2>1. n = [NewReq EXCEPT !.pc = IF go THEN "incr" ELSE "incr+ttl", !.key = LimitKey(route, who)]
    BY <1>3
  <2>2. LimitKey(route, who) \in Keys
    BY <1>3, KeyFacts
  <2>3. n \in ReqRecs /\ n.pc \in {"incr", "incr+ttl"} /\ n.key \in Keys
    BY <2>1, <2>2, NewReqType DEF PCs, Outcomes, NewReq
  <2> HIDE DEF n
  <2> QED
    BY <2>3, Plain DEF Arrive, n
<1> QED
  BY <1>1, <1>2, <1>3

LEMMA BadTokenInv == ASSUME Inv, NEW r \in Requests, BadToken(r) PROVE Inv'
<1> DEFINE n == [req[r] EXCEPT !.pc = "refused"]
<1>1. n \in ReqRecs /\ n.pc = "refused" /\ req' = [req EXCEPT ![r] = n]
  BY ReqType DEF Inv, BadToken, Goes, ReqRecs, PCs, Outcomes
<1> HIDE DEF n
<1> QED
  BY <1>1, Plain DEF BadToken

\* A request that goes on with its count, if it has one; its key is left alone.
LEMMA Onwards ==
    ASSUME Inv, UNCHANGED keyVars, NEW r \in Requests, NEW w \in PCs, Goes(r, w),
           w \in {"expire", "decide"} => req[r].key \in Keys,
           Counts(r)' => Counts(r) /\ ReqInv(r)', Allows(r)' => Allows(r),
           w \notin {"incr+ttl", "incr", "ttl", "429"}
    PROVE  Inv'
<1>1. /\ req' \in [Requests -> ReqRecs] /\ \A s \in Requests \ {r} : req'[s] = req[s]
      /\ req'[r].pc = w /\ req'[r].key = req[r].key /\ req'[r].window = req[r].window
  BY GoesTo DEF Inv
<1>2. TypeOK'
  BY <1>1 DEF Inv, TypeOK, keyVars, ReqRecs, PCs
<1>3. KeysKept
  BY DEF KeysKept, keyVars, Inv, TypeOK
<1>4. ReqInv(r)'
  BY <1>1 DEF ReqInv
<1> QED
  BY <1>1, <1>2, <1>3, <1>4, NotCounted

\* Forward and UpstreamFails
LEMMA EndInv ==
    ASSUME Inv, NEW r \in Requests, Forward(r) \/ UpstreamFails(r)
    PROVE  Inv'
<1>1. PICK w \in {"answered", "failed"} : Goes(r, w) /\ UNCHANGED keyVars /\ req[r].pc = "forward"
  BY DEF Forward, UpstreamFails
<1>2. w \in PCs
  BY DEF PCs, Outcomes
<1>3. req'[r].pc = w /\ req'[r].key = req[r].key /\ req'[r].window = req[r].window
  BY <1>1, <1>2, GoesTo DEF Inv
<1>4. (Counts(r)' => Counts(r)) /\ (Allows(r)' => Allows(r)) /\ ~Pending(r) /\ ~Pending(r)'
  BY <1>1, <1>3 DEF Counts, Pending, Allows
<1>5. ReqInv(r)'
  BY <1>1, <1>3, <1>4 DEF Inv, ReqInv, keyVars
<1> QED
  BY <1>1, <1>2, <1>4, <1>5, Onwards

LEMMA TtlInv == ASSUME Inv, NEW r \in Requests, Ttl(r) PROVE Inv'
<1> DEFINE w == IF NeedsExpire(req[r].current, timed[req[r].key]) THEN "expire" ELSE "decide"
<1>1. Goes(r, w) /\ UNCHANGED keyVars /\ req[r].pc = "ttl" /\ req[r].key \in Keys /\ Counts(r)
  BY DEF Ttl, Inv, ReqInv, Counts, Pending
<1>2. w \in PCs /\ w \in {"expire", "decide"} /\ (w = "decide" => timed[req[r].key])
  BY DEF PCs, NeedsExpire
<1> HIDE DEF w
<1>3. req'[r].pc = w /\ req'[r].key = req[r].key /\ req'[r].window = req[r].window /\ req'[r].current = req[r].current
  BY <1>1, <1>2, GoesTo DEF Inv
<1>4. Allows(r)' => Allows(r)
  BY <1>1, <1>2, <1>3 DEF Counts, Pending, Allows
<1>5. ReqInv(r)'
  BY <1>1, <1>2, <1>3 DEF Inv, ReqInv, keyVars
<1> QED
  BY <1>1, <1>2, <1>4, <1>5, Onwards

\* EXPIRE gives an end to the window the request was counted in, unless that
\* window is over.
LEMMA ExpireInv == ASSUME Inv, NEW r \in Requests, Expire(r) PROVE Inv'
<1> DEFINE k == req[r].key
<1>1. /\ req[r].pc = "expire" /\ k \in Keys /\ Counts(r)
      /\ timed' = [timed EXCEPT ![k] = count[k] > 0]
      /\ Goes(r, "decide") /\ UNCHANGED <<count, window>>
  BY DEF Expire, Inv, ReqInv, Counts, Pending
<1>2. /\ req' \in [Requests -> ReqRecs] /\ \A s \in Requests \ {r} : req'[s] = req[s]
      /\ req'[r].pc = "decide" /\ req'[r].key = k /\ req'[r].window = req[r].window
      /\ req'[r].current = req[r].current
  BY <1>1, GoesTo DEF Inv, PCs
<1> HIDE DEF k
<1>3. (count[k] > 0) \in BOOLEAN /\ timed'[k] = (count[k] > 0)
      /\ \A x \in Keys : x # k => timed'[x] = timed[x]
  BY <1>1 DEF Inv, TypeOK
<1>4. TypeOK'
  <2>1. timed' \in [Keys -> BOOLEAN] /\ \A x \in Keys : timed'[x] => count'[x] > 0
    BY <1>1, <1>3 DEF Inv, TypeOK
  <2> QED
    BY <1>1, <1>2, <2>1 DEF Inv, TypeOK, ReqRecs, PCs
<1>5. KeysKept
  BY <1>1, <1>3 DEF KeysKept, Inv, TypeOK
<1>6. Allows(r)' => Allows(r)
  BY <1>1, <1>2 DEF Allows, Counts, Pending
<1>7. ReqInv(r)'
  BY <1>1, <1>2, <1>3 DEF Inv, ReqInv, k
<1> QED
  BY <1>1, <1>2, <1>4, <1>5, <1>6, <1>7, NotCounted DEF k

LEMMA IncrementType ==
    ASSUME Inv, NEW k \in Keys, Increment(k)
    PROVE  /\ count' \in [Keys -> Nat] /\ KeysKept /\ UNCHANGED <<timed, window>>
           /\ \A x \in Keys : timed'[x] => count'[x] > 0
           /\ count'[k] > 0
<1>1. \A x \in Keys : count'[x] = IF x = k THEN count[k] + 1 ELSE count[x]
  BY DEF Increment, Inv, TypeOK
<1>2. count' \in [Keys -> Nat] /\ UNCHANGED <<timed, window>>
  BY DEF Increment, Inv, TypeOK
<1> QED
  BY <1>1, <1>2 DEF Inv, TypeOK, KeysKept

LEMMA IncrRepeatedInv == ASSUME Inv, NEW r \in Requests, IncrRepeated(r) PROVE Inv'
<1> DEFINE n == [req[r] EXCEPT !.repeats = @ + 1]
<1>0. req[r] \in ReqRecs /\ req[r].key \in Keys /\ req[r].pc = "incr" /\ Increment(req[r].key)
  BY ReqType DEF Inv, ReqInv, IncrRepeated
<1>1. n \in ReqRecs /\ n.pc = "incr" /\ n.key = req[r].key
  BY <1>0, BudgetAssumption DEF ReqRecs, IncrRepeated
<1>2. req' = [req EXCEPT ![r] = n]
  BY ReqType DEF Inv, IncrRepeated, ReqRecs
<1> HIDE DEF n
<1>3. /\ req' \in [Requests -> ReqRecs] /\ \A s \in Requests \ {r} : req'[s] = req[s] /\ req'[r] = n
  BY <1>1, <1>2, Moves DEF Inv
<1>4. KeysKept /\ TypeOK'
  BY <1>0, <1>3, IncrementType DEF Inv, TypeOK, ReqRecs, PCs
<1>5. req'[r].pc = "incr" /\ req'[r].key \in Keys
  BY <1>0, <1>1, <1>2, Moves DEF Inv
<1>6. ~Counts(r)' /\ ~Allows(r)' /\ ReqInv(r)'
  BY <1>5 DEF Counts, Pending, Allows, ReqInv
<1> QED
  BY <1>3, <1>4, <1>6, NotCounted

\* Whatever fails, the keys only gain; the request is no longer counted.
LEMMA LimiterFailsInv == ASSUME Inv, NEW r \in Requests, LimiterFails(r) PROVE Inv'
<1> DEFINE n == [req[r] EXCEPT !.pc = "decide", !.current = -1]
           k == req[r].key
<1>0. req[r] \in ReqRecs /\ k \in Keys
  BY ReqType DEF Inv, ReqInv, LimiterFails
<1>1. n \in ReqRecs /\ n.pc = "decide" /\ n.key = k /\ n.current = -1
  BY <1>0 DEF ReqRecs, PCs
<1>2. req' = [req EXCEPT ![r] = n]
  BY ReqType DEF Inv, LimiterFails, ReqRecs
<1> HIDE DEF n, k
<1>3. req' \in [Requests -> ReqRecs] /\ (\A s \in Requests \ {r} : req'[s] = req[s]) /\ req'[r] = n
  BY <1>1, <1>2, Moves DEF Inv
<1>4. KeysKept /\ TypeOK'
  <2>1. CASE UNCHANGED keyVars
    BY <1>3, <2>1 DEF keyVars, KeysKept, Inv, TypeOK, ReqRecs, PCs
  <2>2. CASE Increment(k)
    BY <1>0, <1>3, <2>2, IncrementType DEF Inv, TypeOK, ReqRecs, PCs
  <2>3. CASE count[k] > 0 /\ timed' = [timed EXCEPT ![k] = TRUE] /\ UNCHANGED <<count, window>>
    <3>1. timed' \in [Keys -> BOOLEAN] /\ \A x \in Keys : timed'[x] = (x = k \/ timed[x])
      BY <1>0, <2>3 DEF Inv, TypeOK
    <3> QED
      BY <1>3, <2>3, <3>1 DEF KeysKept, Inv, TypeOK, ReqRecs, PCs
  <2> QED
    BY <2>1, <2>2, <2>3 DEF LimiterFails, k
<1>5. ~Counts(r)' /\ ~Allows(r)' /\ ReqInv(r)'
  BY <1>0, <1>1, <1>3 DEF Counts, Pending, Allows, ReqInv
<1> QED
  BY <1>3, <1>4, <1>5, NotCounted

\* The decision forgets the count of the request, not that it was counted.
LEMMA DecideInv == ASSUME Inv, NEW r \in Requests, Decide(r) PROVE Inv'
<1> DEFINE after == IF OverBudget(req[r].current) THEN "429" ELSE "forward"
           n == [req[r] EXCEPT !.pc = after, !.current = -1, !.repeats = 0]
<1>0. req[r] \in ReqRecs /\ req[r].pc = "decide" /\ req[r].key \in Keys /\ UNCHANGED keyVars
  BY ReqType DEF Inv, ReqInv, Decide
<1>1. CASE req[r].current = -1
  <2>1. after = "forward"
    BY <1>1 DEF OverBudget
  <2>2. req' = [req EXCEPT ![r] = [NewReq EXCEPT !.pc = "forward"]]
    BY <1>1, <2>1 DEF Decide
  <2>3. [NewReq EXCEPT !.pc = "forward"] \in ReqRecs
    BY NewReqType DEF PCs
  <2> QED
    BY <1>0, <2>2, <2>3, Plain DEF NewReq
<1>2. CASE req[r].current # -1
  <2>1. req' = [req EXCEPT ![r] = n]
    BY <1>2 DEF Decide
  <2>2. after \in {"429", "forward"} /\ after \in PCs /\ (after = "forward" => req[r].current <= MaxRequests)
    BY <1>0, <1>2, BudgetAssumption DEF OverBudget, PCs, Outcomes, ReqRecs
  <2>3. n \in ReqRecs /\ n.pc = after /\ n.key = req[r].key /\ n.window = req[r].window
    <3>1. 0 \in 0 .. Repeats /\ -1 \in Nat \cup {-1}
      BY BudgetAssumption
    <3> HIDE DEF after
    <3> QED
      BY <1>0, <2>2, <3>1 DEF ReqRecs
  <2> HIDE DEF n, after
  <2>4. req' \in [Requests -> ReqRecs] /\ (\A s \in Requests \ {r} : req'[s] = req[s]) /\ req'[r] = n
    BY <2>1, <2>3, Moves DEF Inv
  <2>5. KeysKept /\ TypeOK'
    BY <1>0, <2>4 DEF KeysKept, keyVars, Inv, TypeOK, ReqRecs, PCs
  <2>6. Counts(r) /\ Pending(r) /\ ~Pending(r)'
    BY <1>0, <1>2, <2>2, <2>3, <2>4 DEF Counts, Pending
  <2>7. Allows(r)' => Allows(r)
    BY <1>0, <2>2, <2>3, <2>4, <2>6 DEF Allows
  <2>8. ReqInv(r)'
    BY <1>0, <2>3, <2>4, <2>6 DEF Inv, ReqInv, keyVars
  <2> QED
    BY <2>3, <2>4, <2>5, <2>6, <2>7, <2>8, NotCounted
<1> QED
  BY <1>1, <1>2

\* INCR, with the TTL or without.
LEMMA IncrInv == ASSUME Inv, NEW r \in Requests, Incr(r) \/ IncrAndTtl(r) PROVE Inv'
<1> DEFINE k == req[r].key
<1>0. /\ req[r] \in ReqRecs /\ k \in Keys /\ Increment(k) /\ ~Counts(r)
      /\ count[k] \in Nat /\ window[k] \in Nat
  BY ReqType DEF Inv, ReqInv, TypeOK, Incr, IncrAndTtl, Counts, Pending
<1>1. PICK w \in {"ttl", "expire", "decide"} :
        /\ req' = [req EXCEPT ![r].pc = w, ![r].current = count[k] + 1, ![r].window = window[k]]
        /\ w = "decide" => timed[k]
  <2>1. CASE Incr(r)
    BY <2>1 DEF Incr
  <2>2. CASE IncrAndTtl(r)
    BY <2>2 DEF IncrAndTtl, NeedsExpire
  <2> QED
    BY <2>1, <2>2
<1> DEFINE n == [req[r] EXCEPT !.pc = w, !.current = count[k] + 1, !.window = window[k]]
<1>2. n \in ReqRecs /\ n.pc = w /\ n.key = k /\ n.current = count[k] + 1 /\ n.window = window[k]
  <2>1. count[k] + 1 \in Nat \cup {-1} /\ w \in PCs /\ req[r].key = k
    BY <1>0 DEF PCs
  <2> HIDE DEF k
  <2> QED
    BY <1>0, <2>1 DEF ReqRecs
<1>3. req' = [req EXCEPT ![r] = n]
  BY <1>1, ReqType DEF Inv, ReqRecs
<1> HIDE DEF n, k
<1>4. req' \in [Requests -> ReqRecs] /\ (\A s \in Requests \ {r} : req'[s] = req[s]) /\ req'[r] = n
  BY <1>2, <1>3, Moves DEF Inv
<1>5. KeysKept /\ TypeOK'
  BY <1>0, <1>4, IncrementType DEF Inv, TypeOK, ReqRecs, PCs
<1>6. Pending(r)'
  BY <1>0, <1>2, <1>4 DEF Pending
<1>7. UNCHANGED <<timed, window>> /\ count'[k] > 0
  BY <1>0, IncrementType
<1>8. ReqInv(r)'
  <2>1. req'[r].pc = w /\ req'[r].key = k /\ req'[r].window = window[k]
    BY <1>2, <1>4
  <2>2. window'[k] = window[k] /\ timed'[k] = timed[k] /\ window[k] <= window[k]
    BY <1>0, <1>7
  <2> QED
    BY <1>0, <1>1, <1>7, <2>1, <2>2 DEF ReqInv
<1>9. count' = [count EXCEPT ![k] = @ + 1]
  BY <1>0 DEF Increment
<1> QED
  BY <1>0, <1>2, <1>4, <1>5, <1>6, <1>8, <1>9, Counted DEF k

\* When a window ends, nothing is counted in the next one.
LEMMA WindowEndsInv == ASSUME Inv, NEW k \in Keys, WindowEnds(k) PROVE Inv'
<1>1. /\ \A x \in Keys : x # k => count'[x] = count[x] /\ timed'[x] = timed[x] /\ window'[x] = window[x]
      /\ count'[k] = 0 /\ ~timed'[k] /\ window'[k] = window[k] + 1 /\ window[k] \in Nat
      /\ count' \in [Keys -> Nat] /\ timed' \in [Keys -> BOOLEAN] /\ window' \in [Keys -> Nat]
      /\ req' = req
  BY DEF WindowEnds, Inv, TypeOK
<1>2. TypeOK'
  BY <1>1 DEF Inv, TypeOK
<1>3. \A r \in Requests : (Counts(r)' <=> Counts(r)) /\ (Allows(r)' <=> Allows(r))
  BY <1>1 DEF Counts, Pending, Allows
<1>4. ASSUME NEW r \in Requests PROVE ReqInv(r)'
  <2>1. req[r] \in ReqRecs
    BY ReqType DEF Inv
  <2>2. Counts(r) => req[r].key \in Keys
    BY <2>1 DEF Inv, Counts, Pending, ReqInv, ReqRecs
  <2>3. req[r].window \in Nat
    BY <2>1 DEF ReqRecs
  <2>4. CASE req[r].key = k
    BY <1>1, <1>3, <2>2, <2>3, <2>4 DEF Inv, ReqInv
  <2>5. CASE req[r].key # k
    BY <1>1, <1>3, <2>2, <2>3, <2>5 DEF Inv, ReqInv
  <2> QED
    BY <2>4, <2>5
<1>5. ASSUME NEW x \in Keys, NEW w \in Nat
      PROVE  CountedIn(x, w)' = CountedIn(x, w) /\ AllowedIn(x, w)' = AllowedIn(x, w)
  BY <1>1, <1>3 DEF CountedIn, AllowedIn
<1>6. ASSUME NEW x \in Keys PROVE Cardinality(CountedIn(x, window[x])') <= count'[x]
  <2>1. PICK v \in Nat : v = window'[x]
    BY <1>1
  <2>2. CountedIn(x, window[x])' = CountedIn(x, v)
    BY <1>1, <1>3, <2>1 DEF CountedIn
  <2>3. CASE x # k
    BY <1>1, <2>1, <2>2, <2>3 DEF Inv, Budget
  <2>4. CASE x = k
    <3>1. \A r \in Requests : Counts(r) /\ req[r].key = k => req[r].window # v
      <4> SUFFICES ASSUME NEW r \in Requests, Counts(r), req[r].key = k PROVE req[r].window # v
        OBVIOUS
      <4>1. req[r].window <= window[k] /\ req[r].window \in Nat
        BY ReqType DEF Inv, ReqInv, ReqRecs
      <4> QED
        BY <1>1, <2>1, <2>4, <4>1
    <3>2. CountedIn(x, v) = {}
      BY <2>4, <3>1 DEF CountedIn
    <3> QED
      BY <1>1, <2>2, <2>4, <3>2, FS_EmptySet
  <2> QED
    BY <2>3, <2>4
<1>7. Budget'
  BY <1>5, <1>6 DEF Inv, Budget
<1> QED
  BY <1>2, <1>4, <1>7 DEF Inv

LEMMA NextInv == Inv /\ [Next]_vars => Inv'
<1> SUFFICES ASSUME Inv, [Next]_vars PROVE Inv'
  OBVIOUS
<1>1. CASE UNCHANGED vars
  <2>1. \A r \in Requests : (Counts(r)' <=> Counts(r)) /\ (Allows(r)' <=> Allows(r)) /\ ReqInv(r)'
    BY <1>1 DEF vars, Inv, ReqInv, Counts, Pending, Allows
  <2>2. \A k \in Keys : \A w : CountedIn(k, w)' = CountedIn(k, w) /\ AllowedIn(k, w)' = AllowedIn(k, w)
    BY <1>1, <2>1 DEF vars, CountedIn, AllowedIn
  <2>3. \A k \in Keys : CountedIn(k, window[k])' = CountedIn(k, window[k])
    BY <1>1, <2>1 DEF vars, CountedIn
  <2>4. Budget'
    BY <1>1, <2>2, <2>3 DEF vars, Inv, Budget
  <2> QED
    BY <1>1, <2>1, <2>4 DEF vars, Inv, TypeOK
<1> QED
  BY <1>1, ArriveInv, BadTokenInv, EndInv, TtlInv, ExpireInv, IncrRepeatedInv, LimiterFailsInv,
     DecideInv, IncrInv, WindowEndsInv DEF Next

----------------------------------------------------------------------------

LEMMA SpecInv == Spec => []Inv
BY InitInv, NextInv, PTL DEF Spec

\* Counters, windows and requests stay well formed, and no key that is absent
\* has a time to live, although EXPIRE may come after the key has gone.
THEOREM SpecTypeOK == Spec => []TypeOK
<1>1. Inv => TypeOK
  BY DEF Inv
<1> QED
  BY <1>1, SpecInv, PTL

\* Of the requests counted in one window of a key at most the maximum get to a
\* service, for any number of gateways of both kinds and any failing commands.
THEOREM SpecBudgetKept == Spec => []BudgetKept
<1>1. ASSUME Inv PROVE BudgetKept
  <2> SUFFICES ASSUME NEW k \in Keys, NEW w \in 0 .. window[k]
               PROVE  Cardinality({r \in Served : req[r].key = k /\ req[r].window = w}) <= MaxRequests
    BY DEF BudgetKept
  <2> DEFINE S == {r \in Served : req[r].key = k /\ req[r].window = w}
  <2>0. w \in Nat
    BY <1>1 DEF Inv, TypeOK
  <2>1. S \in SUBSET AllowedIn(k, w)
    BY DEF Served, AllowedIn, CountedIn, Allows, Counts, Pending
  <2>2. IsFiniteSet(AllowedIn(k, w)) /\ Cardinality(AllowedIn(k, w)) \in Nat
        /\ Cardinality(AllowedIn(k, w)) <= MaxRequests
    BY <1>1, <2>0, CountedFacts DEF Inv, Budget
  <2> HIDE DEF S
  <2>3. Cardinality(S) <= Cardinality(AllowedIn(k, w)) /\ Cardinality(S) \in Nat
    BY <2>1, <2>2, FS_Subset, FS_CardinalityType
  <2> QED
    BY <2>2, <2>3, BudgetAssumption DEF S
<1> QED
  BY <1>1, SpecInv, PTL

\* A window in which a request was counted without an error has an end, whoever
\* created the key and whatever failed, so a refusal with 429 is not for ever.
THEOREM SpecCountedWindowIsTimed == Spec => []CountedWindowIsTimed
<1>1. ASSUME Inv PROVE CountedWindowIsTimed
  <2> SUFFICES ASSUME NEW r \in Decided, req[r].window = window[req[r].key] PROVE timed[req[r].key]
    BY DEF CountedWindowIsTimed
  <2>1. r \in Requests /\ req[r].pc \in {"forward", "answered", "failed", "429"} /\ req[r].key # NoKey
    BY <1>1, KeyFacts DEF Decided, Served, Inv, ReqInv
  <2> QED
    BY <1>1, <2>1 DEF Inv, ReqInv, Counts
<1> QED
  BY <1>1, SpecInv, PTL

=============================================================================
