------------------------- MODULE CouponEngineProofs -------------------------
(***************************************************************************)
(* Theorems about CouponEngine, for any number of requests, any orders and *)
(* amounts, any balance to start with and any rate limits.                 *)
(***************************************************************************)
EXTENDS CouponEngine, FiniteSetTheorems, TLAPS

\* What a request has got so far: its kind when it has arrived, a coupon only
\* when the balance was moved, a status when it is over.
Stages == \A c \in Calls :
    /\ call[c].pc = "idle" => call[c].kind = "none" /\ call[c].status = "none"
    /\ call[c].pc \in {"expire", "decide", "record"} =>
          call[c].kind \in Kinds /\ call[c].status = "none"
    /\ call[c].pc \in {"idle", "expire", "decide"} => call[c].coupon = 0

\* Only finitely many requests have arrived, so they can be counted.
Arrived == {c \in Calls : call[c].pc # "idle"}
FinitelyMany == IsFiniteSet(Arrived)

\* The requests that were told of a coupon of type t, and those that were not
\* told what became of theirs.
ToldOf(k, t) == {c \in Calls : call[c].kind = k /\ call[c].coupon = t}
NotTold(k) == {c \in Calls : call[c].kind = k /\ call[c].status = "unavailable"}

\* BalanceAccounted of one type, as two inequalities.
Accounted(t) ==
    /\ StartBalance + Told("issue", t) - Told("claim", t) - Silent("claim") <= balance[t]
    /\ balance[t] <= StartBalance + Told("issue", t) - Told("claim", t) + Silent("issue")

Balanced == \A t \in Types : Accounted(t)

Shape == TypeOK /\ Stages /\ FinitelyMany

Inv == Shape /\ Balanced /\ BestCouponGiven /\ RecordsAreTrue /\ CounterEnds

----------------------------------------------------------------------------
(* The operators *)

\* RoundMoney of a natural number is one.
LEMMA Cents == ASSUME NEW a \in Amounts PROVE RoundMoney(a) \in Nat
BY AmountAssumption DEF RoundMoney

\* _select_issue_coupon_type gives the best type the thresholds allow.
LEMMA IssueIsBest ==
  ASSUME NEW a \in Amounts PROVE IssueType(a) = BestOf("issue", a)
<1> DEFINE cents == RoundMoney(a)
           open == {t \in Types : cents >= 3000 * t - 10000}
<1>1. cents \in Nat
  BY Cents
<1>2. BestOf("issue", a) = IF open = {} THEN 0 ELSE CHOOSE t \in open : \A x \in open : x <= t
  <2> DEFINE wide == {t \in Types : cents >= [x \in Types |-> 3000 * x - 10000][t] /\ ("issue" = "claim" => balance[t] > 0)}
  <2>1. BestOf("issue", a) = IF wide = {} THEN 0 ELSE CHOOSE t \in wide : \A x \in wide : x <= t
    BY DEF BestOf
  <2>2. wide = open
    OBVIOUS
  <2> QED
    BY <2>1, <2>2
<1>3. open = {t \in {10, 20, 30} : \/ t = 10 /\ cents >= 20000
                                   \/ t = 20 /\ cents >= 50000
                                   \/ t = 30 /\ cents >= 80000}
  BY <1>1 DEF Types
<1> HIDE DEF cents, open
<1>4. CASE cents >= 80000
  <2>1. open = {10, 20, 30}
    BY <1>1, <1>3, <1>4
  <2> QED
    BY <1>1, <1>2, <1>4, <2>1 DEF IssueType, cents
<1>5. CASE cents < 80000 /\ cents >= 50000
  <2>1. open = {10, 20}
    BY <1>1, <1>3, <1>5
  <2> QED
    BY <1>1, <1>2, <1>5, <2>1 DEF IssueType, cents
<1>6. CASE cents < 50000 /\ cents >= 20000
  <2>1. open = {10}
    BY <1>1, <1>3, <1>6
  <2> QED
    BY <1>1, <1>2, <1>6, <2>1 DEF IssueType, cents
<1>7. CASE cents < 20000
  <2>1. open = {}
    BY <1>1, <1>3, <1>7
  <2> QED
    BY <1>1, <1>2, <1>7, <2>1 DEF IssueType, cents
<1> QED
  BY <1>1, <1>4, <1>5, <1>6, <1>7

\* The loop of the script over a list finds the first type of which there is one.
LEMMA ScriptOnList ==
  ASSUME balance \in [Types -> Nat]
  PROVE  /\ ScriptResult(<<>>) = 0
         /\ ScriptResult(<<10>>) = IF balance[10] > 0 THEN 10 ELSE 0
         /\ ScriptResult(<<20, 10>>) = IF balance[20] > 0 THEN 20
                                       ELSE IF balance[10] > 0 THEN 10 ELSE 0
         /\ ScriptResult(<<30, 20, 10>>) = IF balance[30] > 0 THEN 30
                                           ELSE IF balance[20] > 0 THEN 20
                                           ELSE IF balance[10] > 0 THEN 10 ELSE 0
<1> DEFINE There(l) == {i \in 1 .. Len(l) : balance[l[i]] > 0}
           First(S) == CHOOSE i \in S : \A j \in S : i <= j
<1>1. ASSUME NEW l PROVE ScriptResult(l) = IF There(l) = {} THEN 0 ELSE l[First(There(l))]
  BY DEF ScriptResult
<1>2. ASSUME NEW S \in SUBSET (1 .. 3), NEW i \in S, \A j \in S : i <= j
      PROVE  First(S) = i
  <2>1. \E x \in S : \A j \in S : x <= j
    BY <1>2
  <2>2. First(S) \in S /\ \A j \in S : First(S) <= j
    BY <2>1, Zenon
  <2>3. First(S) <= i /\ i <= First(S) /\ First(S) \in 1 .. 3 /\ i \in 1 .. 3
    BY <1>2, <2>2
  <2> HIDE DEF First
  <2> QED
    BY <2>3
<1>3. ScriptResult(<<>>) = 0
  <2>1. There(<<>>) = {}
    OBVIOUS
  <2> QED
    BY <1>1, <2>1
<1>4. ScriptResult(<<10>>) = IF balance[10] > 0 THEN 10 ELSE 0
  <2>1. There(<<10>>) = IF balance[10] > 0 THEN {1} ELSE {}
    OBVIOUS
  <2>2. First({1}) = 1
    BY <1>2
  <2> HIDE DEF There, First
  <2> QED
    BY <1>1, <2>1, <2>2
<1>5. ScriptResult(<<20, 10>>) = IF balance[20] > 0 THEN 20
                                 ELSE IF balance[10] > 0 THEN 10 ELSE 0
  <2> DEFINE l == <<20, 10>>
  <2>1. There(l) \subseteq 1 .. 2 /\ (1 \in There(l) <=> balance[20] > 0)
                                  /\ (2 \in There(l) <=> balance[10] > 0)
    OBVIOUS
  <2>2. l[1] = 20 /\ l[2] = 10
    OBVIOUS
  <2>3. ScriptResult(l) = IF There(l) = {} THEN 0 ELSE l[First(There(l))]
    BY <1>1
  <2> HIDE DEF There, First, l
  <2>4. CASE 1 \in There(l)
    <3>1. First(There(l)) = 1
      BY <1>2, <2>1, <2>4
    <3> QED
      BY <2>1, <2>2, <2>3, <2>4, <3>1 DEF l
  <2>5. CASE 1 \notin There(l) /\ 2 \in There(l)
    <3>1. First(There(l)) = 2
      BY <1>2, <2>1, <2>5
    <3> QED
      BY <2>1, <2>2, <2>3, <2>5, <3>1 DEF l
  <2>6. CASE 1 \notin There(l) /\ 2 \notin There(l)
    <3>1. There(l) = {}
      BY <2>1, <2>6
    <3> QED
      BY <2>1, <2>3, <2>6, <3>1 DEF l
  <2> QED
    BY <2>4, <2>5, <2>6
<1>6. ScriptResult(<<30, 20, 10>>) = IF balance[30] > 0 THEN 30
                                     ELSE IF balance[20] > 0 THEN 20
                                     ELSE IF balance[10] > 0 THEN 10 ELSE 0
  <2> DEFINE l == <<30, 20, 10>>
  <2>1. /\ There(l) \subseteq 1 .. 3
        /\ 1 \in There(l) <=> balance[30] > 0
        /\ 2 \in There(l) <=> balance[20] > 0
        /\ 3 \in There(l) <=> balance[10] > 0
    OBVIOUS
  <2>2. l[1] = 30 /\ l[2] = 20 /\ l[3] = 10
    OBVIOUS
  <2>3. ScriptResult(l) = IF There(l) = {} THEN 0 ELSE l[First(There(l))]
    BY <1>1
  <2> HIDE DEF There, First, l
  <2>4. CASE 1 \in There(l)
    <3>1. First(There(l)) = 1
      BY <1>2, <2>1, <2>4
    <3> QED
      BY <2>1, <2>2, <2>3, <2>4, <3>1 DEF l
  <2>5. CASE 1 \notin There(l) /\ 2 \in There(l)
    <3>1. First(There(l)) = 2
      BY <1>2, <2>1, <2>5
    <3> QED
      BY <2>1, <2>2, <2>3, <2>5, <3>1 DEF l
  <2>6. CASE 1 \notin There(l) /\ 2 \notin There(l) /\ 3 \in There(l)
    <3>1. First(There(l)) = 3
      BY <1>2, <2>1, <2>6
    <3> QED
      BY <2>1, <2>2, <2>3, <2>6, <3>1 DEF l
  <2>7. CASE 1 \notin There(l) /\ 2 \notin There(l) /\ 3 \notin There(l)
    <3>1. There(l) = {}
      BY <2>1, <2>7
    <3> QED
      BY <2>1, <2>3, <2>7, <3>1 DEF l
  <2> QED
    BY <2>4, <2>5, <2>6, <2>7
<1> QED
  BY <1>3, <1>4, <1>5, <1>6

\* CLAIM_BEST_COUPON_LUA over _claim_allowed_coupon_types takes the best coupon
\* that the thresholds and the balance allow.
LEMMA ClaimIsBest ==
  ASSUME balance \in [Types -> Nat], NEW a \in Amounts
  PROVE  ScriptResult(ClaimTypes(a)) = BestOf("claim", a)
<1> DEFINE cents == RoundMoney(a)
           open == {t \in Types : cents >= 3000 * t /\ balance[t] > 0}
           Top == CHOOSE t \in open : \A x \in open : x <= t
           has(t) == balance[t] > 0
<1>1. cents \in Nat
  BY Cents
<1>2. BestOf("claim", a) = IF open = {} THEN 0 ELSE Top
  <2> DEFINE wide == {t \in Types : cents >= [x \in Types |-> 3000 * x][t] /\ ("claim" = "claim" => balance[t] > 0)}
  <2>1. BestOf("claim", a) = IF wide = {} THEN 0 ELSE CHOOSE t \in wide : \A x \in wide : x <= t
    BY DEF BestOf
  <2>2. wide = open
    OBVIOUS
  <2> HIDE DEF wide, open
  <2> QED
    BY <2>1, <2>2
<1>3. /\ open \subseteq {10, 20, 30}
      /\ 10 \in open <=> cents >= 30000 /\ has(10)
      /\ 20 \in open <=> cents >= 60000 /\ has(20)
      /\ 30 \in open <=> cents >= 90000 /\ has(30)
  BY <1>1 DEF Types
<1>4. ASSUME NEW t \in open, \A x \in open : x <= t PROVE Top = t
  <2>0. \E y \in open : \A x \in open : x <= y
    BY <1>4
  <2>1. Top \in open /\ \A x \in open : x <= Top
    <3> HIDE DEF open
    <3> QED
      BY <2>0, Zenon
  <2>2. Top <= t /\ t <= Top /\ Top \in {10, 20, 30} /\ t \in {10, 20, 30}
    BY <1>3, <1>4, <2>1
  <2> HIDE DEF Top
  <2> QED
    BY <2>2
<1>5. ClaimTypes(a) = IF cents >= 90000 THEN <<30, 20, 10>>
                      ELSE IF cents >= 60000 THEN <<20, 10>>
                      ELSE IF cents >= 30000 THEN <<10>> ELSE <<>>
  BY DEF ClaimTypes
<1>6. ScriptResult(ClaimTypes(a)) = IF cents >= 90000 /\ has(30) THEN 30
                                    ELSE IF cents >= 60000 /\ has(20) THEN 20
                                    ELSE IF cents >= 30000 /\ has(10) THEN 10
                                    ELSE 0
  <2> HIDE DEF cents
  <2>1. CASE cents >= 90000
    BY <1>1, <1>5, <2>1, ScriptOnList
  <2>2. CASE cents < 90000 /\ cents >= 60000
    BY <1>1, <1>5, <2>2, ScriptOnList
  <2>3. CASE cents < 60000 /\ cents >= 30000
    BY <1>1, <1>5, <2>3, ScriptOnList
  <2>4. CASE cents < 30000
    BY <1>1, <1>5, <2>4, ScriptOnList
  <2> QED
    BY <1>1, <2>1, <2>2, <2>3, <2>4
<1> HIDE DEF cents, open, Top, has
<1>7. CASE 30 \in open
  <2>1. Top = 30
    BY <1>3, <1>4, <1>7
  <2> QED
    BY <1>2, <1>3, <1>6, <1>7, <2>1
<1>8. CASE 30 \notin open /\ 20 \in open
  <2>1. Top = 20
    BY <1>3, <1>4, <1>8
  <2> QED
    BY <1>2, <1>3, <1>6, <1>8, <2>1
<1>9. CASE 30 \notin open /\ 20 \notin open /\ 10 \in open
  <2>1. Top = 10
    BY <1>3, <1>4, <1>9
  <2> QED
    BY <1>2, <1>3, <1>6, <1>9, <2>1
<1>10. CASE 30 \notin open /\ 20 \notin open /\ 10 \notin open
  <2>1. open = {}
    BY <1>3, <1>10
  <2> QED
    BY <1>2, <1>3, <1>6, <1>10, <2>1
<1> QED
  BY <1>7, <1>8, <1>9, <1>10

\* The coupon a request gets is one of the three types, of which there is one
\* when it is claimed, or none; and none when nothing is to be moved.
LEMMA ChosenFacts ==
  ASSUME TypeOK, NEW c \in Calls, call[c].kind \in Kinds
  PROVE  /\ Chosen(c) \in Types \cup {0}
         /\ Chosen(c) = BestOf(call[c].kind, amount[call[c].order])
         /\ call[c].kind = "claim" /\ Chosen(c) \in Types => balance[Chosen(c)] > 0
         /\ BelowThreshold(c) => Chosen(c) = 0
<1> DEFINE a == amount[call[c].order]
<1>1. a \in Amounts /\ balance \in [Types -> Nat]
  BY DEF TypeOK, CallRecs
<1>2. Chosen(c) = IF call[c].kind = "issue" THEN IssueType(a) ELSE ScriptResult(ClaimTypes(a))
  BY DEF Chosen
<1>3. BelowThreshold(c) = IF call[c].kind = "issue" THEN IssueType(a) = 0 ELSE ClaimTypes(a) = << >>
  BY DEF BelowThreshold
<1> HIDE DEF a
<1>4. CASE call[c].kind = "issue"
  <2>1. IssueType(a) \in Types \cup {0}
    BY DEF IssueType, Types
  <2> QED
    BY <1>1, <1>2, <1>3, <1>4, <2>1, IssueIsBest DEF a
<1>5. CASE call[c].kind = "claim"
  <2>1. ClaimTypes(a) \in {<<>>, <<10>>, <<20, 10>>, <<30, 20, 10>>}
    BY DEF ClaimTypes
  <2>2. /\ ScriptResult(ClaimTypes(a)) \in Types \cup {0}
        /\ ScriptResult(ClaimTypes(a)) \in Types => balance[ScriptResult(ClaimTypes(a))] > 0
        /\ ClaimTypes(a) = <<>> => ScriptResult(ClaimTypes(a)) = 0
    BY <1>1, <2>1, ScriptOnList DEF Types
  <2> QED
    BY <1>1, <1>2, <1>3, <1>5, <2>2, ClaimIsBest DEF a
<1> QED
  BY <1>4, <1>5 DEF Kinds

----------------------------------------------------------------------------
(* What the steps of a request change *)

\* A step of request c: its record stays of its type, the others stay as they are.
Only(c) ==
    /\ call' \in [Calls -> CallRecs]
    /\ \A d \in Calls : d # c => call'[d] = call[d]

\* Arrival: a fresh record with a kind and an order.
LEMMA CountCall ==
  ASSUME TypeOK, NEW c \in Calls, NEW k \in Kinds, NEW o \in Orders \cup {NoOrder}, Count(c, k, o)
  PROVE  /\ Only(c) /\ counter' \in [Kinds -> Nat]
         /\ call'[c].pc \in {"expire", "decide"} /\ call'[c].kind = k
         /\ call'[c].coupon = 0 /\ call'[c].status = "none"
         /\ counter'[k] = counter[k]
            \/ (counter'[k] = counter[k] + 1 /\ (counter[k] = 0 => call'[c].pc = "expire" \/ stranded'[k] = TRUE))
<1>1. PICK effect \in {0, 1}, answered \in BOOLEAN :
          /\ answered => effect = 1
          /\ counter' = [counter EXCEPT ![k] = @ + effect]
          /\ stranded' = [stranded EXCEPT ![k] = @ \/ (~answered /\ effect = 1 /\ counter[k] = 0)]
          /\ call' = [call EXCEPT ![c] =
                [NewCall EXCEPT !.kind = k, !.order = o,
                                !.count = IF answered THEN counter'[k] ELSE 0,
                                !.pc = IF answered /\ StartsWindow(counter'[k]) THEN "expire" ELSE "decide"]]
  BY DEF Count
<1>2. counter' \in [Kinds -> Nat] /\ counter'[k] = counter[k] + effect /\ counter[k] \in Nat
  BY <1>1 DEF TypeOK
<1> DEFINE n == IF answered THEN counter'[k] ELSE 0
           p == IF answered /\ StartsWindow(counter'[k]) THEN "expire" ELSE "decide"
           rec == [NewCall EXCEPT !.kind = k, !.order = o, !.count = n, !.pc = p]
<1>3. n \in Nat /\ p \in {"expire", "decide"}
  BY <1>2
<1>4. call' = [call EXCEPT ![c] = rec]
  BY <1>1
<1>6. ASSUME counter[k] = 0, effect = 1 PROVE p = "expire" \/ stranded'[k] = TRUE
  <2>1. CASE answered
    BY <1>2, <1>6, <2>1 DEF StartsWindow
  <2>2. CASE ~answered
    BY <1>1, <1>6, <2>2 DEF TypeOK
  <2> QED
    BY <2>1, <2>2
<1> HIDE DEF n, p
<1>5. rec.pc = p /\ rec.kind = k /\ rec.coupon = 0 /\ rec.status = "none"
  BY DEF NewCall
<1>7. rec \in CallRecs
  BY <1>3 DEF CallRecs, NewCall
<1> HIDE DEF rec
<1>8. Only(c) /\ call'[c] = rec
  BY <1>4, <1>7 DEF Only, TypeOK
<1>9. counter'[k] = counter[k]
      \/ (counter'[k] = counter[k] + 1 /\ (counter[k] = 0 => p = "expire" \/ stranded'[k] = TRUE))
  <2>1. effect = 0 \/ effect = 1
    BY <1>1
  <2>2. CASE effect = 0
    BY <1>2, <2>2
  <2>3. CASE effect = 1
    BY <1>2, <1>6, <2>3
  <2> QED
    BY <2>1, <2>2, <2>3
<1> QED
  BY <1>2, <1>3, <1>5, <1>8, <1>9

\* A simulated failure: refused before anything else.
LEMMA SimulatedCall ==
  ASSUME TypeOK, NEW c \in Calls, NEW o \in Orders \cup {NoOrder}, SimulatedFailure(c, o)
  PROVE  /\ Only(c)
         /\ call'[c].pc = "done" /\ call'[c].kind = "issue"
         /\ call'[c].coupon = 0 /\ call'[c].status = "refused"
<1> DEFINE rec == [NewCall EXCEPT !.pc = "done", !.kind = "issue", !.order = o, !.status = "refused"]
<1>1. call' = [call EXCEPT ![c] = rec]
  BY DEF SimulatedFailure
<1>2. rec.pc = "done" /\ rec.kind = "issue" /\ rec.coupon = 0 /\ rec.status = "refused"
  BY DEF NewCall
<1>3. rec \in CallRecs
  BY DEF CallRecs, Kinds, NewCall
<1> HIDE DEF rec
<1> QED
  BY <1>1, <1>2, <1>3 DEF Only, TypeOK

\* The steps that change neither kind, order nor coupon.
LEMMA QuietCall ==
  ASSUME TypeOK, Stages, NEW c \in Calls,
         StartWindow(c) \/ TooMany(c) \/ NothingToMove(c) \/ Answer(c)
  PROVE  /\ Only(c)
         /\ call'[c].kind = call[c].kind /\ call'[c].order = call[c].order
         /\ call'[c].coupon = call[c].coupon
         /\ StartWindow(c) => call'[c].pc = "decide" /\ call'[c].status = call[c].status
         /\ TooMany(c) => call'[c].pc = "done" /\ call'[c].status = "refused"
         /\ NothingToMove(c) => /\ call'[c].pc = "record" /\ call'[c].status = call[c].status
                                /\ call'[c].best = BestOf(call[c].kind, amount[call[c].order])
         /\ Answer(c) => call'[c].pc = "done" /\ call'[c].status = "ok"
<1>0. call[c] \in CallRecs /\ call \in [Calls -> CallRecs]
  BY DEF TypeOK
<1>1. ASSUME StartWindow(c)
      PROVE  Only(c) /\ call'[c] = [call[c] EXCEPT !.pc = "decide"]
  BY <1>0, <1>1 DEF StartWindow, Only, CallRecs
<1>2. ASSUME TooMany(c)
      PROVE  Only(c) /\ call'[c] = [call[c] EXCEPT !.pc = "done", !.count = 0, !.status = "refused"]
  BY <1>0, <1>2 DEF TooMany, Only, CallRecs
<1>3. ASSUME NothingToMove(c)
      PROVE  Only(c) /\ call'[c] = [call[c] EXCEPT !.pc = "record", !.count = 0,
                                      !.best = BestOf(call[c].kind, amount[call[c].order])]
  <2>1. call[c].kind \in Kinds
    BY <1>3 DEF NothingToMove, Stages
  <2>2. PICK b \in Types \cup {0} : b = BestOf(call[c].kind, amount[call[c].order])
    BY <2>1, ChosenFacts
  <2> QED
    BY <1>0, <1>3, <2>2 DEF NothingToMove, Only, CallRecs
<1>4. ASSUME Answer(c)
      PROVE  Only(c) /\ call'[c] = [call[c] EXCEPT !.pc = "done", !.best = 0, !.status = "ok"]
  BY <1>0, <1>4 DEF Answer, Only, CallRecs
<1>5. ASSUME StartWindow(c) PROVE ~TooMany(c) /\ ~NothingToMove(c) /\ ~Answer(c)
  BY <1>5 DEF StartWindow, TooMany, NothingToMove, Answer
<1>6. ASSUME TooMany(c) PROVE ~StartWindow(c) /\ ~NothingToMove(c) /\ ~Answer(c)
  BY <1>6 DEF StartWindow, TooMany, NothingToMove, Answer
<1>7. ASSUME NothingToMove(c) PROVE ~StartWindow(c) /\ ~TooMany(c) /\ ~Answer(c)
  BY <1>7 DEF StartWindow, TooMany, NothingToMove, Answer
<1>8. ASSUME Answer(c) PROVE ~StartWindow(c) /\ ~TooMany(c) /\ ~NothingToMove(c)
  BY <1>8 DEF StartWindow, TooMany, NothingToMove, Answer
<1>9. CASE StartWindow(c)
  BY <1>0, <1>1, <1>5, <1>9 DEF CallRecs
<1>10. CASE TooMany(c)
  BY <1>0, <1>2, <1>6, <1>10 DEF CallRecs
<1>11. CASE NothingToMove(c)
  BY <1>0, <1>3, <1>7, <1>11 DEF CallRecs
<1>12. CASE Answer(c)
  BY <1>0, <1>4, <1>8, <1>12 DEF CallRecs
<1> QED
  BY <1>9, <1>10, <1>11, <1>12

\* The balance after one coupon of type x came or went.
Moving(k, x) == [t \in Types |-> IF t = x THEN balance[t] + Moved(k) ELSE balance[t]]

\* HINCRBY or the script, told to the request or not.
LEMMA MoveCall ==
  ASSUME TypeOK, Stages, NEW c \in Calls, Move(c)
  PROVE  /\ Only(c) /\ balance' \in [Types -> Nat]
         /\ call[c].kind \in Kinds /\ call[c].coupon = 0 /\ call[c].status = "none"
         /\ call'[c].kind = call[c].kind /\ call'[c].order = call[c].order
         /\ \/ /\ call'[c].pc = "record" /\ call'[c].status = "none"
               /\ call'[c].coupon = Chosen(c) /\ call'[c].best = Chosen(c)
               /\ balance' = Moving(call[c].kind, Chosen(c))
            \/ /\ call'[c].pc = "done" /\ call'[c].status = "unavailable"
               /\ call'[c].coupon = 0
               /\ balance' = balance \/ balance' = Moving(call[c].kind, Chosen(c))
<1>0. /\ call[c] \in CallRecs /\ call \in [Calls -> CallRecs] /\ balance \in [Types -> Nat]
      /\ call[c].kind \in Kinds /\ call[c].coupon = 0 /\ call[c].status = "none"
  BY DEF TypeOK, Stages, Move
<1>1. PICK effect \in BOOLEAN, answered \in BOOLEAN :
          /\ answered => effect
          /\ balance' = [t \in Types |-> IF effect /\ t = Chosen(c) THEN balance[t] + Moved(call[c].kind)
                                         ELSE balance[t]]
          /\ call' = IF answered
                     THEN [call EXCEPT ![c].pc = "record", ![c].count = 0, ![c].coupon = Chosen(c),
                                       ![c].best = BestOf(call[c].kind, amount[call[c].order])]
                     ELSE [call EXCEPT ![c].pc = "done", ![c].count = 0, ![c].status = "unavailable"]
  BY DEF Move
<1>2. PICK x \in Types \cup {0} :
          /\ x = Chosen(c) /\ x = BestOf(call[c].kind, amount[call[c].order])
          /\ call[c].kind = "claim" /\ x \in Types => balance[x] > 0
  BY <1>0, ChosenFacts
<1>3. Moving(call[c].kind, x) \in [Types -> Nat]
  BY <1>0, <1>2 DEF Moving, Moved, Kinds
<1>4. balance' = IF effect THEN Moving(call[c].kind, x) ELSE balance
  <2>1. CASE effect
    BY <1>1, <1>2, <2>1 DEF Moving
  <2>2. CASE ~effect
    BY <1>0, <1>1, <2>2
  <2> QED
    BY <2>1, <2>2
<1>5. CASE answered
  <2>1. call' = [call EXCEPT ![c] = [call[c] EXCEPT !.pc = "record", !.count = 0, !.coupon = x, !.best = x]]
    BY <1>0, <1>1, <1>2, <1>5
  <2>2. Only(c) /\ call'[c] = [call[c] EXCEPT !.pc = "record", !.count = 0, !.coupon = x, !.best = x]
    BY <1>0, <2>1 DEF Only, CallRecs
  <2>3. balance' = Moving(call[c].kind, x)
    BY <1>1, <1>4, <1>5
  <2> QED
    BY <1>0, <1>2, <1>3, <2>2, <2>3 DEF CallRecs
<1>6. CASE ~answered
  <2>1. Only(c) /\ call'[c] = [call[c] EXCEPT !.pc = "done", !.count = 0, !.status = "unavailable"]
    BY <1>0, <1>1, <1>6 DEF Only, CallRecs
  <2> QED
    BY <1>0, <1>2, <1>3, <1>4, <2>1 DEF CallRecs
<1> QED
  BY <1>5, <1>6

\* Any step of a request: the five above together.
CallStep(c) ==
    \/ StartWindow(c) \/ TooMany(c) \/ Move(c) \/ NothingToMove(c) \/ Answer(c)
    \/ \E k \in Kinds, o \in Orders \cup {NoOrder} : Count(c, k, o)
    \/ \E o \in Orders \cup {NoOrder} : SimulatedFailure(c, o)

\* A request that has taken a step has arrived.
LEMMA StepOnly ==
  ASSUME TypeOK, Stages, NEW c \in Calls, CallStep(c)
  PROVE  Only(c) /\ call'[c].pc # "idle"
<1>1. CASE StartWindow(c) \/ TooMany(c) \/ NothingToMove(c) \/ Answer(c)
  BY <1>1, QuietCall
<1>2. CASE Move(c)
  BY <1>2, MoveCall
<1>3. ASSUME NEW k \in Kinds, NEW o \in Orders \cup {NoOrder}, Count(c, k, o)
      PROVE  Only(c) /\ call'[c].pc # "idle"
  BY <1>3, CountCall
<1>4. ASSUME NEW o \in Orders \cup {NoOrder}, SimulatedFailure(c, o)
      PROVE  Only(c) /\ call'[c].pc # "idle"
  BY <1>4, SimulatedCall
<1> QED
  BY <1>1, <1>2, <1>3, <1>4 DEF CallStep

----------------------------------------------------------------------------
(* Types and stages *)

LEMMA NextType == ASSUME TypeOK, Stages, Next PROVE TypeOK'
<1>0. /\ amount \in [Orders \cup {NoOrder} -> Amounts] /\ balance \in [Types -> Nat]
      /\ counter \in [Kinds -> Nat] /\ ticking \in [Kinds -> BOOLEAN]
      /\ record \in [Kinds -> [Orders -> Types \cup {-1, 0}]]
      /\ call \in [Calls -> CallRecs] /\ stranded \in [Kinds -> BOOLEAN]
  BY DEF TypeOK
<1>1. ASSUME NEW c \in Calls, StartWindow(c) PROVE TypeOK'
  <2>1. call' \in [Calls -> CallRecs]
    BY <1>1, QuietCall DEF Only
  <2>2. call[c].kind \in Kinds
    BY <1>1 DEF StartWindow, Stages
  <2>3. ticking' \in [Kinds -> BOOLEAN] /\ stranded' \in [Kinds -> BOOLEAN]
    BY <1>0, <1>1, <2>2 DEF StartWindow
  <2> QED
    BY <1>0, <1>1, <2>1, <2>3 DEF StartWindow, TypeOK, engineVars
<1>2. ASSUME NEW c \in Calls, TooMany(c) \/ NothingToMove(c) PROVE TypeOK'
  <2>1. call' \in [Calls -> CallRecs]
    BY <1>2, QuietCall DEF Only
  <2> QED
    BY <1>0, <1>2, <2>1 DEF TooMany, NothingToMove, TypeOK, engineVars, limitVars
<1>3. ASSUME NEW c \in Calls, Answer(c) PROVE TypeOK'
  <2>1. call' \in [Calls -> CallRecs]
    BY <1>3, QuietCall DEF Only
  <2>2. call[c].kind \in Kinds
    BY <1>3 DEF Answer, Stages
  <2>3. call[c].coupon \in Types \cup {0} /\ call[c].order \in Orders \cup {NoOrder}
    BY <1>0 DEF CallRecs
  <2>4. record' \in [Kinds -> [Orders -> Types \cup {-1, 0}]]
    <3>1. PICK k \in Kinds, o \in Orders \cup {NoOrder}, v \in Types \cup {0} :
              k = call[c].kind /\ o = call[c].order /\ v = call[c].coupon
      BY <2>2, <2>3
    <3>2. CASE o # NoOrder /\ record' = [record EXCEPT ![k][o] = v]
      BY <1>0, <3>1, <3>2
    <3>3. CASE record' = record
      BY <1>0, <3>3
    <3> QED
      BY <1>3, <3>1, <3>2, <3>3 DEF Answer, RecordValue
  <2> QED
    BY <1>0, <1>3, <2>1, <2>4 DEF Answer, TypeOK, limitVars
<1>4. ASSUME NEW c \in Calls, Move(c) PROVE TypeOK'
  <2>1. call' \in [Calls -> CallRecs] /\ balance' \in [Types -> Nat]
    BY <1>4, MoveCall DEF Only
  <2> QED
    BY <1>0, <1>4, <2>1 DEF Move, TypeOK, limitVars
<1>5. ASSUME NEW c \in Calls, NEW k \in Kinds, NEW o \in Orders \cup {NoOrder}, Count(c, k, o)
      PROVE  TypeOK'
  <2>1. call' \in [Calls -> CallRecs] /\ counter' \in [Kinds -> Nat]
    BY <1>5, CountCall DEF Only
  <2>2. stranded' \in [Kinds -> BOOLEAN]
    BY <1>0, <1>5 DEF Count
  <2> QED
    BY <1>0, <1>5, <2>1, <2>2 DEF Count, TypeOK, engineVars
<1>6. ASSUME NEW c \in Calls, NEW o \in Orders \cup {NoOrder}, SimulatedFailure(c, o) PROVE TypeOK'
  <2>1. call' \in [Calls -> CallRecs]
    BY <1>6, SimulatedCall DEF Only
  <2> QED
    BY <1>0, <1>6, <2>1 DEF SimulatedFailure, TypeOK, engineVars, limitVars
<1>7. ASSUME NEW k \in Kinds, CounterExpires(k) PROVE TypeOK'
  BY <1>0, <1>7 DEF CounterExpires, TypeOK, engineVars
<1>8. ASSUME NEW k \in Kinds, NEW o \in Orders, RecordExpires(k, o) PROVE TypeOK'
  BY <1>0, <1>8 DEF RecordExpires, TypeOK, limitVars
<1> QED
  BY <1>1, <1>2, <1>3, <1>4, <1>5, <1>6, <1>7, <1>8 DEF Next

LEMMA NextStages == ASSUME TypeOK, Stages, Next PROVE Stages'
<1> DEFINE Stage(d) ==
        /\ call'[d].pc = "idle" => call'[d].kind = "none" /\ call'[d].status = "none"
        /\ call'[d].pc \in {"expire", "decide", "record"} =>
              call'[d].kind \in Kinds /\ call'[d].status = "none"
        /\ call'[d].pc \in {"idle", "expire", "decide"} => call'[d].coupon = 0
<1>1. ASSUME NEW c \in Calls, Only(c), Stage(c) PROVE Stages'
  <2>1. ASSUME NEW d \in Calls, d # c PROVE Stage(d)
    BY <1>1, <2>1 DEF Only, Stages
  <2>2. \A d \in Calls : Stage(d)
    BY <1>1, <2>1
  <2> QED
    BY <2>2 DEF Stages
<1>2. ASSUME NEW c \in Calls, StartWindow(c) \/ TooMany(c) \/ NothingToMove(c) \/ Answer(c)
      PROVE  Stages'
  <2>1. Stage(c)
    BY <1>2, QuietCall DEF Stages, StartWindow, TooMany, NothingToMove, Answer
  <2> QED
    BY <1>1, <1>2, <2>1, QuietCall
<1>3. ASSUME NEW c \in Calls, Move(c) PROVE Stages'
  BY <1>1, <1>3, MoveCall
<1>4. ASSUME NEW c \in Calls, NEW k \in Kinds, NEW o \in Orders \cup {NoOrder}, Count(c, k, o)
      PROVE  Stages'
  BY <1>1, <1>4, CountCall
<1>5. ASSUME NEW c \in Calls, NEW o \in Orders \cup {NoOrder}, SimulatedFailure(c, o) PROVE Stages'
  BY <1>1, <1>5, SimulatedCall
<1>6. ASSUME UNCHANGED call PROVE Stages'
  BY <1>6 DEF Stages
<1> QED
  BY <1>2, <1>3, <1>4, <1>5, <1>6 DEF Next, CounterExpires, RecordExpires

----------------------------------------------------------------------------
(* Counting requests *)

LEMMA NextFinite == ASSUME TypeOK, Stages, FinitelyMany, Next PROVE FinitelyMany'
<1>1. ASSUME NEW c \in Calls, CallStep(c) PROVE FinitelyMany'
  <2>1. Arrived' \subseteq Arrived \cup {c}
    BY <1>1, StepOnly DEF Arrived, Only
  <2>2. IsFiniteSet(Arrived \cup {c})
    BY FS_AddElement DEF FinitelyMany
  <2> QED
    BY <2>1, <2>2, FS_Subset DEF FinitelyMany
<1>2. ASSUME UNCHANGED call PROVE FinitelyMany'
  BY <1>2 DEF FinitelyMany, Arrived
<1> QED
  BY <1>1, <1>2 DEF Next, CallStep, CounterExpires, RecordExpires

LEMMA CountsDefined ==
  ASSUME TypeOK, Stages, FinitelyMany, NEW k \in Kinds, NEW t
  PROVE  /\ IsFiniteSet(ToldOf(k, t)) /\ Told(k, t) = Cardinality(ToldOf(k, t)) /\ Told(k, t) \in Nat
         /\ IsFiniteSet(NotTold(k)) /\ Silent(k) = Cardinality(NotTold(k)) /\ Silent(k) \in Nat
<1>1. ToldOf(k, t) \subseteq Arrived /\ NotTold(k) \subseteq Arrived
  BY DEF ToldOf, NotTold, Arrived, Stages, Kinds
<1>2. IsFiniteSet(ToldOf(k, t)) /\ IsFiniteSet(NotTold(k))
  BY <1>1, FS_Subset DEF FinitelyMany
<1> QED
  BY <1>2, FS_CardinalityType DEF Told, Silent, ToldOf, NotTold

LEMMA AccountedDef ==
  ASSUME TypeOK, Stages, FinitelyMany
  PROVE  BalanceAccounted <=> Balanced
<1> SUFFICES ASSUME NEW t \in Types
             PROVE (LET due == StartBalance + Told("issue", t) - Told("claim", t) IN
                    ShownBalance(t) \in (due - Silent("claim")) .. (due + Silent("issue"))) <=> Accounted(t)
  BY DEF BalanceAccounted, Balanced
<1>1. balance[t] \in Nat
  BY DEF TypeOK
<1>2. Told("issue", t) \in Nat /\ Told("claim", t) \in Nat /\ Silent("issue") \in Nat /\ Silent("claim") \in Nat
  BY CountsDefined DEF Kinds
<1>3. ShownBalance(t) = balance[t]
  BY <1>1 DEF ShownBalance, Snapshot
<1> QED
  BY <1>1, <1>2, <1>3, BalanceAssumption DEF Accounted

\* How a step of request c changes the counts.
LEMMA CountsChange ==
  ASSUME TypeOK, Stages, FinitelyMany, NEW c \in Calls, Only(c), NEW k \in Kinds, NEW t \in Types
  PROVE  /\ c \notin ToldOf(k, t) /\ call'[c].kind = k /\ call'[c].coupon = t
               => Told(k, t)' = Told(k, t) + 1
         /\ (call'[c].kind = k /\ call'[c].coupon = t <=> c \in ToldOf(k, t))
               => Told(k, t)' = Told(k, t)
         /\ c \notin NotTold(k) /\ call'[c].kind = k /\ call'[c].status = "unavailable"
               => Silent(k)' = Silent(k) + 1
         /\ (call'[c].kind = k /\ call'[c].status = "unavailable" <=> c \in NotTold(k))
               => Silent(k)' = Silent(k)
<1>0. /\ IsFiniteSet(ToldOf(k, t)) /\ Told(k, t) = Cardinality(ToldOf(k, t))
      /\ IsFiniteSet(NotTold(k)) /\ Silent(k) = Cardinality(NotTold(k))
  BY CountsDefined
<1>1. Told(k, t)' = Cardinality(ToldOf(k, t)') /\ Silent(k)' = Cardinality(NotTold(k)')
  BY DEF Told, Silent, ToldOf, NotTold
<1>2. ASSUME c \notin ToldOf(k, t), call'[c].kind = k, call'[c].coupon = t
      PROVE  Told(k, t)' = Told(k, t) + 1
  <2>1. ToldOf(k, t)' = ToldOf(k, t) \cup {c}
    BY <1>2 DEF ToldOf, Only
  <2>2. Cardinality(ToldOf(k, t) \cup {c}) = Cardinality(ToldOf(k, t)) + 1
    BY <1>0, <1>2, FS_AddElement
  <2> QED
    BY <1>0, <1>1, <2>1, <2>2
<1>3. ASSUME call'[c].kind = k /\ call'[c].coupon = t <=> c \in ToldOf(k, t)
      PROVE  Told(k, t)' = Told(k, t)
  <2>1. ToldOf(k, t)' = ToldOf(k, t)
    BY <1>3 DEF ToldOf, Only
  <2> QED
    BY <1>0, <1>1, <2>1
<1>4. ASSUME c \notin NotTold(k), call'[c].kind = k, call'[c].status = "unavailable"
      PROVE  Silent(k)' = Silent(k) + 1
  <2>1. NotTold(k)' = NotTold(k) \cup {c}
    BY <1>4 DEF NotTold, Only
  <2>2. Cardinality(NotTold(k) \cup {c}) = Cardinality(NotTold(k)) + 1
    BY <1>0, <1>4, FS_AddElement
  <2> QED
    BY <1>0, <1>1, <2>1, <2>2
<1>5. ASSUME call'[c].kind = k /\ call'[c].status = "unavailable" <=> c \in NotTold(k)
      PROVE  Silent(k)' = Silent(k)
  <2>1. NotTold(k)' = NotTold(k)
    BY <1>5 DEF NotTold, Only
  <2> QED
    BY <1>0, <1>1, <2>1
<1> QED
  BY <1>2, <1>3, <1>4, <1>5

\* A step that leaves the balance alone and tells nobody of a coupon.
LEMMA NothingTold ==
  ASSUME Shape, Balanced, NEW c \in Calls, Only(c), UNCHANGED balance,
         \A k \in Kinds, t \in Types :
            call'[c].kind = k /\ call'[c].coupon = t <=> c \in ToldOf(k, t),
         \A k \in Kinds :
            call'[c].kind = k /\ call'[c].status = "unavailable" <=> c \in NotTold(k)
  PROVE  Balanced'
<1> SUFFICES ASSUME NEW t \in Types PROVE Accounted(t)'
  BY DEF Balanced
<1>1. ASSUME NEW k \in Kinds PROVE Told(k, t)' = Told(k, t) /\ Silent(k)' = Silent(k)
  BY <1>1, CountsChange DEF Shape
<1>2. /\ Told("issue", t)' = Told("issue", t) /\ Told("claim", t)' = Told("claim", t)
      /\ Silent("issue")' = Silent("issue") /\ Silent("claim")' = Silent("claim")
  BY <1>1 DEF Kinds
<1> QED
  BY <1>2 DEF Accounted, Balanced

\* A coupon that comes or goes is told to the request, or counts as silent.
LEMMA MoveBalanced ==
  ASSUME Shape, Balanced, NEW c \in Calls, Move(c) PROVE Balanced'
<1>0. TypeOK /\ Stages /\ FinitelyMany /\ Only(c)
  BY MoveCall DEF Shape
<1>1. PICK k \in Kinds, x \in Types \cup {0} :
          /\ k = call[c].kind /\ k = call'[c].kind /\ x = Chosen(c)
          /\ call[c].coupon = 0 /\ call[c].status = "none"
          /\ \/ /\ call'[c].status = "none" /\ call'[c].coupon = x /\ balance' = Moving(k, x)
             \/ /\ call'[c].status = "unavailable" /\ call'[c].coupon = 0
                /\ balance' = balance \/ balance' = Moving(k, x)
  BY <1>0, MoveCall, ChosenFacts
<1> SUFFICES ASSUME NEW t \in Types PROVE Accounted(t)'
  BY DEF Balanced
<1>2. /\ balance[t] \in Nat /\ StartBalance \in Nat
      /\ Told("issue", t) \in Nat /\ Told("claim", t) \in Nat
      /\ Silent("issue") \in Nat /\ Silent("claim") \in Nat
  BY <1>0, CountsDefined, BalanceAssumption DEF TypeOK, Kinds
<1>3. Moving(k, x)[t] = IF t = x THEN balance[t] + Moved(k) ELSE balance[t]
  BY DEF Moving
<1>4. ASSUME NEW j \in Kinds PROVE c \notin ToldOf(j, t) /\ c \notin NotTold(j)
  BY <1>1 DEF ToldOf, NotTold, Types
<1>5. Accounted(t)
  BY DEF Balanced
<1>6. CASE call'[c].status = "none"
  <2>1. ASSUME NEW j \in Kinds
        PROVE  /\ Silent(j)' = Silent(j)
               /\ Told(j, t)' = IF j = k /\ t = x THEN Told(j, t) + 1 ELSE Told(j, t)
    BY <1>0, <1>1, <1>4, <1>6, CountsChange
  <2>2. balance'[t] = IF t = x THEN balance[t] + Moved(k) ELSE balance[t]
    BY <1>1, <1>3, <1>6
  <2>3. /\ Silent("issue")' = Silent("issue") /\ Silent("claim")' = Silent("claim")
        /\ Told("issue", t)' = IF "issue" = k /\ t = x THEN Told("issue", t) + 1 ELSE Told("issue", t)
        /\ Told("claim", t)' = IF "claim" = k /\ t = x THEN Told("claim", t) + 1 ELSE Told("claim", t)
    BY <2>1 DEF Kinds
  <2>4. CASE t # x
    BY <1>2, <1>5, <2>2, <2>3, <2>4 DEF Accounted
  <2>5. CASE t = x /\ k = "issue"
    BY <1>2, <1>5, <2>2, <2>3, <2>5 DEF Accounted, Moved
  <2>6. CASE t = x /\ k = "claim"
    BY <1>2, <1>5, <2>2, <2>3, <2>6 DEF Accounted, Moved
  <2> QED
    BY <2>4, <2>5, <2>6 DEF Kinds
<1>7. CASE call'[c].status = "unavailable"
  <2>0. call'[c].coupon # t
    BY <1>1, <1>7 DEF Types
  <2>1. ASSUME NEW j \in Kinds
        PROVE  /\ Silent(j)' = IF j = k THEN Silent(j) + 1 ELSE Silent(j)
               /\ Told(j, t)' = Told(j, t)
    BY <1>0, <1>1, <1>4, <1>7, <2>0, CountsChange
  <2>2. balance'[t] = balance[t] \/ balance'[t] = balance[t] + Moved(k)
    BY <1>1, <1>3, <1>7
  <2>3. /\ Silent("issue")' = IF "issue" = k THEN Silent("issue") + 1 ELSE Silent("issue")
        /\ Silent("claim")' = IF "claim" = k THEN Silent("claim") + 1 ELSE Silent("claim")
        /\ Told("issue", t)' = Told("issue", t) /\ Told("claim", t)' = Told("claim", t)
    BY <2>1 DEF Kinds
  <2>4. CASE k = "issue"
    BY <1>2, <1>5, <2>2, <2>3, <2>4 DEF Accounted, Moved
  <2>5. CASE k = "claim"
    BY <1>2, <1>5, <2>2, <2>3, <2>5 DEF Accounted, Moved
  <2> QED
    BY <2>4, <2>5 DEF Kinds
<1> QED
  BY <1>1, <1>6, <1>7

LEMMA NextBalanced == ASSUME Shape, Balanced, Next PROVE Balanced'
<1>0. TypeOK /\ Stages
  BY DEF Shape
<1>1. ASSUME NEW c \in Calls, StartWindow(c) \/ TooMany(c) \/ NothingToMove(c) \/ Answer(c)
      PROVE  Balanced'
  <2>1. /\ Only(c) /\ call'[c].kind = call[c].kind /\ call'[c].coupon = call[c].coupon
        /\ call[c].status # "unavailable" /\ call'[c].status # "unavailable"
    BY <1>0, <1>1, QuietCall DEF StartWindow, TooMany, NothingToMove, Answer, Stages
  <2>2. UNCHANGED balance
    BY <1>1 DEF StartWindow, TooMany, NothingToMove, Answer, engineVars
  <2> QED
    BY <2>1, <2>2, NothingTold DEF ToldOf, NotTold
<1>2. ASSUME NEW c \in Calls, NEW k \in Kinds, NEW o \in Orders \cup {NoOrder}, Count(c, k, o)
      PROVE  Balanced'
  <2>1. /\ Only(c) /\ call'[c].coupon = 0 /\ call'[c].status = "none"
        /\ call[c].coupon = 0 /\ call[c].status = "none"
    <3>1. Only(c) /\ call'[c].coupon = 0 /\ call'[c].status = "none"
      BY <1>0, <1>2, CountCall
    <3>2. call[c].pc = "idle"
      BY <1>2 DEF Count
    <3>3. call[c].coupon = 0 /\ call[c].status = "none"
      BY <1>0, <3>2 DEF Stages
    <3> QED
      BY <3>1, <3>3
  <2>2. UNCHANGED balance
    BY <1>2 DEF Count, engineVars
  <2> QED
    BY <2>1, <2>2, NothingTold DEF ToldOf, NotTold, Types
<1>3. ASSUME NEW c \in Calls, NEW o \in Orders \cup {NoOrder}, SimulatedFailure(c, o) PROVE Balanced'
  <2>1. /\ Only(c) /\ call'[c].coupon = 0 /\ call'[c].status = "refused"
        /\ call[c].coupon = 0 /\ call[c].status = "none"
    BY <1>0, <1>3, SimulatedCall DEF SimulatedFailure, Stages
  <2>2. UNCHANGED balance
    BY <1>3 DEF SimulatedFailure, engineVars
  <2> QED
    BY <2>1, <2>2, NothingTold DEF ToldOf, NotTold, Types
<1>4. ASSUME UNCHANGED <<balance, call>> PROVE Balanced'
  BY <1>4 DEF Balanced, Accounted, Told, Silent
<1>5. ASSUME NEW c \in Calls, Move(c) PROVE Balanced'
  BY <1>5, MoveBalanced
<1> QED
  BY <1>1, <1>2, <1>3, <1>4, <1>5 DEF Next, CounterExpires, RecordExpires, engineVars

----------------------------------------------------------------------------
(* The answers and the records *)

LEMMA NextBest == ASSUME Shape, BestCouponGiven, Next PROVE BestCouponGiven'
<1>0. TypeOK /\ Stages
  BY DEF Shape
<1>1. ASSUME NEW c \in Calls, Only(c), call'[c].pc = "record" => call'[c].coupon = call'[c].best
      PROVE  BestCouponGiven'
  BY <1>1 DEF BestCouponGiven, Only
<1>2. ASSUME NEW c \in Calls, StartWindow(c) \/ TooMany(c) \/ Answer(c) PROVE BestCouponGiven'
  BY <1>0, <1>1, <1>2, QuietCall
<1>3. ASSUME NEW c \in Calls, NothingToMove(c) PROVE BestCouponGiven'
  <2>1. call[c].kind \in Kinds /\ call[c].coupon = 0 /\ BelowThreshold(c)
    BY <1>3, <1>0 DEF NothingToMove, Stages
  <2>2. BestOf(call[c].kind, amount[call[c].order]) = 0
    BY <1>0, <2>1, ChosenFacts
  <2>3. Only(c) /\ call'[c].coupon = call[c].coupon
        /\ call'[c].best = BestOf(call[c].kind, amount[call[c].order])
    BY <1>0, <1>3, QuietCall
  <2> QED
    BY <1>1, <2>1, <2>2, <2>3
<1>4. ASSUME NEW c \in Calls, Move(c) PROVE BestCouponGiven'
  BY <1>0, <1>1, <1>4, MoveCall
<1>5. ASSUME NEW c \in Calls, NEW k \in Kinds, NEW o \in Orders \cup {NoOrder}, Count(c, k, o)
      PROVE  BestCouponGiven'
  BY <1>0, <1>1, <1>5, CountCall
<1>6. ASSUME NEW c \in Calls, NEW o \in Orders \cup {NoOrder}, SimulatedFailure(c, o)
      PROVE  BestCouponGiven'
  BY <1>0, <1>1, <1>6, SimulatedCall
<1>7. ASSUME UNCHANGED call PROVE BestCouponGiven'
  BY <1>7 DEF BestCouponGiven
<1> QED
  BY <1>2, <1>3, <1>4, <1>5, <1>6, <1>7 DEF Next, CounterExpires, RecordExpires

\* A request that was told of a coupon keeps its kind, its order and its coupon.
LEMMA ToldForGood ==
  ASSUME Shape, NEW c \in Calls, CallStep(c), NEW d \in Calls, call[d].coupon # 0
  PROVE  /\ call'[d].kind = call[d].kind /\ call'[d].order = call[d].order
         /\ call'[d].coupon = call[d].coupon
<1>0. TypeOK /\ Stages
  BY DEF Shape
<1>1. CASE d # c
  BY <1>0, <1>1, StepOnly DEF Only
<1>2. CASE d = c
  <2>1. call[c].pc \notin {"idle", "expire", "decide"}
    BY <1>0, <1>2 DEF Stages
  <2>2. Answer(c)
    BY <2>1 DEF CallStep, StartWindow, TooMany, Move, NothingToMove, Count, SimulatedFailure
  <2> QED
    BY <1>0, <1>2, <2>2, QuietCall
<1> QED
  BY <1>1, <1>2

LEMMA NextRecords == ASSUME Shape, RecordsAreTrue, Next PROVE RecordsAreTrue'
<1>0. TypeOK /\ Stages /\ record \in [Kinds -> [Orders -> Types \cup {-1, 0}]]
  BY DEF Shape, TypeOK
<1> DEFINE Written(k, o, v) == \E d \in Calls :
               call'[d].kind = k /\ call'[d].order = o /\ call'[d].coupon = v
<1>1. ASSUME NEW k \in Kinds, NEW o \in Orders, NEW v \in Types, record[k][o] = v,
             UNCHANGED call \/ \E c \in Calls : CallStep(c)
      PROVE  Written(k, o, v)
  <2>1. PICK d \in Calls : call[d].kind = k /\ call[d].order = o /\ call[d].coupon = v
    BY <1>1 DEF RecordsAreTrue, ShownRecord, StoredRecord
  <2>2. call[d].coupon # 0
    BY <2>1 DEF Types
  <2> QED
    BY <1>1, <2>1, <2>2, ToldForGood
<1>2. ASSUME \A k \in Kinds, o \in Orders, v \in Types : record'[k][o] = v => Written(k, o, v)
      PROVE  RecordsAreTrue'
  BY <1>2 DEF RecordsAreTrue, ShownRecord, StoredRecord
<1>3. ASSUME UNCHANGED record, UNCHANGED call \/ \E c \in Calls : CallStep(c)
      PROVE  RecordsAreTrue'
  BY <1>1, <1>2, <1>3
<1>4. ASSUME NEW c \in Calls, Answer(c) PROVE RecordsAreTrue'
  <2>1. CallStep(c)
    BY <1>4 DEF CallStep
  <2>2. PICK kk \in Kinds, oo \in Orders \cup {NoOrder}, vv \in Types \cup {0} :
            kk = call[c].kind /\ oo = call[c].order /\ vv = call[c].coupon
    BY <1>0, <1>4 DEF Answer, Stages, TypeOK, CallRecs
  <2>3. call'[c].kind = kk /\ call'[c].order = oo /\ call'[c].coupon = vv
    BY <1>0, <1>4, <2>2, QuietCall
  <2>4. CASE oo # NoOrder /\ record' = [record EXCEPT ![kk][oo] = vv]
    <3> SUFFICES ASSUME NEW k \in Kinds, NEW o \in Orders, NEW v \in Types, record'[k][o] = v
                 PROVE  Written(k, o, v)
      BY <1>2
    <3>1. CASE k = kk /\ o = oo
      BY <1>0, <2>3, <2>4, <3>1
    <3>2. CASE ~(k = kk /\ o = oo)
      <4>1. record'[k][o] = record[k][o]
        BY <1>0, <2>4, <3>2
      <4> QED
        BY <1>1, <2>1, <4>1
    <3> QED
      BY <3>1, <3>2
  <2>5. CASE UNCHANGED record
    BY <1>3, <2>1, <2>5
  <2> QED
    BY <1>4, <2>2, <2>4, <2>5 DEF Answer, RecordValue
<1>5. ASSUME NEW k \in Kinds, NEW o \in Orders, RecordExpires(k, o) PROVE RecordsAreTrue'
  <2> SUFFICES ASSUME NEW k2 \in Kinds, NEW o2 \in Orders, NEW v \in Types, record'[k2][o2] = v
               PROVE  Written(k2, o2, v)
    BY <1>2
  <2>1. record' = [record EXCEPT ![k][o] = -1] /\ UNCHANGED call
    BY <1>5 DEF RecordExpires
  <2>2. record'[k2][o2] = record[k2][o2]
    <3>1. v # -1
      BY DEF Types
    <3> QED
      BY <1>0, <2>1, <3>1
  <2> QED
    BY <1>1, <2>1, <2>2
<1>6. ASSUME NEW k \in Kinds, CounterExpires(k) PROVE RecordsAreTrue'
  BY <1>3, <1>6 DEF CounterExpires, engineVars
<1>7. ASSUME NEW c \in Calls, CallStep(c), ~Answer(c) PROVE RecordsAreTrue'
  <2>1. UNCHANGED record
    BY <1>7 DEF CallStep, StartWindow, TooMany, Move, NothingToMove, Count, SimulatedFailure, engineVars
  <2> QED
    BY <1>3, <1>7, <2>1
<1> QED
  BY <1>4, <1>5, <1>6, <1>7 DEF Next, CallStep

----------------------------------------------------------------------------
(* The rate limit counters *)

\* The request that creates a counter is about to give it an end.
Ending(k) == \E c \in Calls : call[c].kind = k /\ call[c].pc = "expire"

Ends(k) == counter[k] > 0 => ticking[k] \/ stranded[k] \/ Ending(k)

\* Only EXPIRE itself takes a request out of this state.
LEMMA StillEnding ==
  ASSUME Shape, NEW c \in Calls, CallStep(c), NEW k \in Kinds, Ending(k),
         ~(StartWindow(c) /\ call[c].kind = k)
  PROVE  Ending(k)'
<1>0. TypeOK /\ Stages
  BY DEF Shape
<1>1. PICK d \in Calls : call[d].kind = k /\ call[d].pc = "expire"
  BY DEF Ending
<1>2. d # c
  BY <1>1 DEF CallStep, StartWindow, TooMany, Move, NothingToMove, Answer, Count, SimulatedFailure
<1>3. call'[d] = call[d]
  BY <1>0, <1>2, StepOnly DEF Only
<1> QED
  BY <1>1, <1>3 DEF Ending

LEMMA NextCounter == ASSUME Shape, CounterEnds, Next PROVE CounterEnds'
<1>0. /\ TypeOK /\ Stages
      /\ counter \in [Kinds -> Nat] /\ ticking \in [Kinds -> BOOLEAN] /\ stranded \in [Kinds -> BOOLEAN]
  BY DEF Shape, TypeOK
<1>1. \A k \in Kinds : Ends(k)
  BY DEF CounterEnds, Ends, Ending
<1> SUFFICES ASSUME NEW k \in Kinds PROVE Ends(k)'
  BY DEF CounterEnds, Ends, Ending
<1>2. ASSUME NEW c \in Calls, CallStep(c), ~(StartWindow(c) /\ call[c].kind = k),
             counter'[k] = counter[k], ticking'[k] = ticking[k], stranded[k] => stranded'[k]
      PROVE  Ends(k)'
  BY <1>1, <1>2, StillEnding DEF Ends
<1>3. ASSUME NEW c \in Calls, StartWindow(c) PROVE Ends(k)'
  <2>1. CallStep(c) /\ call[c].kind \in Kinds
    BY <1>0, <1>3 DEF CallStep, StartWindow, Stages
  <2>2. CASE call[c].kind = k
    <3>1. CASE ticking' = [ticking EXCEPT ![k] = counter[k] # 0]
      <4>1. counter'[k] = counter[k] /\ ticking'[k] = (counter[k] # 0)
        BY <1>0, <1>3, <3>1 DEF StartWindow
      <4>2. CASE counter[k] = 0
        BY <4>1, <4>2 DEF Ends
      <4>3. CASE counter[k] # 0
        <5>1. ticking'[k] = TRUE
          BY <4>1, <4>3
        <5> QED
          BY <5>1 DEF Ends
      <4> QED
        BY <4>2, <4>3
    <3>2. CASE stranded' = [stranded EXCEPT ![k] = TRUE]
      BY <1>0, <3>2 DEF Ends
    <3> QED
      BY <1>3, <2>2, <3>1, <3>2 DEF StartWindow
  <2>3. CASE call[c].kind # k
    BY <1>0, <1>2, <1>3, <2>1, <2>3 DEF StartWindow
  <2> QED
    BY <2>2, <2>3
<1>4. ASSUME NEW c \in Calls, NEW j \in Kinds, NEW o \in Orders \cup {NoOrder}, Count(c, j, o)
      PROVE  Ends(k)'
  <2>1. CallStep(c) /\ ~StartWindow(c) /\ UNCHANGED ticking
    BY <1>4 DEF CallStep, StartWindow, Count
  <2>2. stranded[k] => stranded'[k] = TRUE
    BY <1>0, <1>4 DEF Count
  <2>3. CASE k # j
    <3>1. counter'[k] = counter[k]
      BY <1>0, <1>4, <2>3 DEF Count
    <3> QED
      BY <1>2, <2>1, <2>2, <3>1
  <2>4. CASE k = j /\ counter'[k] = counter[k]
    BY <1>2, <2>1, <2>2, <2>4
  <2>5. CASE k = j /\ counter[k] > 0
    <3>1. ticking[k] \/ stranded[k] \/ Ending(k)
      BY <1>1, <2>5 DEF Ends
    <3> QED
      BY <2>1, <2>2, <3>1, StillEnding DEF Ends
  <2>6. CASE k = j /\ counter[k] = 0 /\ counter'[k] # counter[k]
    <3>1. /\ call'[c].kind = k
          /\ call'[c].pc = "expire" \/ stranded'[k] = TRUE
      BY <1>0, <1>4, <2>6, CountCall
    <3> QED
      BY <3>1 DEF Ends, Ending
  <2>7. counter[k] = 0 \/ counter[k] > 0
    BY <1>0
  <2> QED
    BY <2>3, <2>4, <2>5, <2>6, <2>7
<1>5. ASSUME NEW c \in Calls, CallStep(c), UNCHANGED limitVars, ~StartWindow(c) PROVE Ends(k)'
  BY <1>2, <1>5 DEF limitVars
<1>6. ASSUME NEW j \in Kinds, CounterExpires(j) PROVE Ends(k)'
  <2>1. UNCHANGED <<call, stranded>>
    BY <1>6 DEF CounterExpires
  <2>2. CASE k = j
    <3>1. counter'[k] = 0
      BY <1>0, <1>6, <2>2 DEF CounterExpires
    <3> QED
      BY <3>1 DEF Ends
  <2>3. CASE k # j
    <3>1. counter'[k] = counter[k] /\ ticking'[k] = ticking[k]
      BY <1>0, <1>6, <2>3 DEF CounterExpires
    <3> QED
      BY <1>1, <2>1, <3>1 DEF Ends, Ending
  <2> QED
    BY <2>2, <2>3
<1>7. ASSUME UNCHANGED <<limitVars, call>> PROVE Ends(k)'
  BY <1>1, <1>7 DEF Ends, Ending, limitVars
<1>8. ASSUME NEW c \in Calls, TooMany(c) \/ Move(c) \/ NothingToMove(c) \/ Answer(c) PROVE Ends(k)'
  <2>1. CallStep(c) /\ UNCHANGED limitVars /\ ~StartWindow(c)
    BY <1>8 DEF CallStep, TooMany, Move, NothingToMove, Answer, StartWindow
  <2> QED
    BY <1>5, <2>1
<1>9. ASSUME NEW c \in Calls, NEW o \in Orders \cup {NoOrder}, SimulatedFailure(c, o) PROVE Ends(k)'
  <2>1. CallStep(c) /\ UNCHANGED limitVars /\ ~StartWindow(c)
    BY <1>9 DEF CallStep, SimulatedFailure, StartWindow
  <2> QED
    BY <1>5, <2>1
<1>10. ASSUME NEW j \in Kinds, NEW o \in Orders, RecordExpires(j, o) PROVE Ends(k)'
  BY <1>7, <1>10 DEF RecordExpires
<1> QED
  BY <1>3, <1>4, <1>6, <1>8, <1>9, <1>10 DEF Next

----------------------------------------------------------------------------
(* The theorems *)

LEMMA InitInv == Init => Inv
<1> SUFFICES ASSUME Init PROVE Inv
  OBVIOUS
<1>1. NewCall \in CallRecs
  BY DEF NewCall, CallRecs
<1>2. TypeOK
  BY <1>1, BalanceAssumption DEF Init, TypeOK
<1>3. \A c \in Calls : call[c].pc = "idle" /\ call[c].kind = "none" /\ call[c].coupon = 0 /\ call[c].status = "none"
  BY DEF Init, NewCall
<1>4. Stages
  BY <1>3 DEF Stages
<1>5. Arrived = {}
  BY <1>3 DEF Arrived
<1>6. FinitelyMany
  BY <1>5, FS_EmptySet DEF FinitelyMany
<1>7. Balanced
  <2> SUFFICES ASSUME NEW t \in Types PROVE Accounted(t)
    BY DEF Balanced
  <2>1. ASSUME NEW k \in Kinds PROVE Told(k, t) = 0 /\ Silent(k) = 0
    <3>1. ToldOf(k, t) = {} /\ NotTold(k) = {}
      BY <1>3 DEF ToldOf, NotTold, Types
    <3> QED
      BY <3>1, FS_EmptySet DEF Told, Silent, ToldOf, NotTold
  <2>2. /\ Told("issue", t) = 0 /\ Told("claim", t) = 0
        /\ Silent("issue") = 0 /\ Silent("claim") = 0
    BY <2>1 DEF Kinds
  <2>3. balance[t] = StartBalance
    BY DEF Init
  <2> QED
    BY <2>2, <2>3, BalanceAssumption DEF Accounted
<1>8. BestCouponGiven
  BY <1>3 DEF BestCouponGiven
<1>9. RecordsAreTrue
  BY DEF RecordsAreTrue, ShownRecord, StoredRecord, Init, Types
<1>10. CounterEnds
  BY DEF CounterEnds, Init
<1> QED
  BY <1>2, <1>4, <1>6, <1>7, <1>8, <1>9, <1>10 DEF Inv, Shape

LEMMA NextInv == Inv /\ [Next]_vars => Inv'
<1> SUFFICES ASSUME Inv, [Next]_vars PROVE Inv'
  OBVIOUS
<1>1. CASE Next
  BY <1>1, NextType, NextStages, NextFinite, NextBalanced, NextBest, NextRecords, NextCounter
     DEF Inv, Shape
<1>2. CASE UNCHANGED vars
  <2>0. UNCHANGED <<amount, balance, record, counter, ticking, stranded, call>>
    BY <1>2 DEF vars, engineVars, limitVars
  <2>1. TypeOK' /\ Stages'
    BY <2>0 DEF Inv, Shape, TypeOK, Stages
  <2>2. FinitelyMany'
    BY <2>0 DEF Inv, Shape, FinitelyMany, Arrived
  <2>3. Balanced'
    BY <2>0 DEF Inv, Balanced, Accounted, Told, Silent
  <2>4. BestCouponGiven'
    BY <2>0 DEF Inv, BestCouponGiven
  <2>5. RecordsAreTrue'
    BY <2>0 DEF Inv, RecordsAreTrue, ShownRecord, StoredRecord
  <2>6. CounterEnds'
    BY <2>0 DEF Inv, CounterEnds
  <2> QED
    BY <2>1, <2>2, <2>3, <2>4, <2>5, <2>6 DEF Inv, Shape
<1> QED
  BY <1>1, <1>2

LEMMA SpecInv == Spec => []Inv
BY InitInv, NextInv, PTL DEF Spec

\* For any number of requests, orders, amounts and limits the engine's state
\* keeps its type: no balance becomes negative, whatever the interleaving of
\* claims, since the script tests and takes in one step.
THEOREM SpecTypeOK == Spec => []TypeOK
<1>1. Inv => TypeOK
  BY DEF Inv, Shape
<1> QED
  BY <1>1, SpecInv, PTL

\* For any number of requests the balance shown is what the answered requests
\* make of it, give or take those answered 503: coupons are neither forged nor
\* lost by issue_coupon_for_order and claim_best_coupon_for_order.
THEOREM SpecBalanceAccounted == Spec => []BalanceAccounted
<1>1. Inv => BalanceAccounted
  BY AccountedDef DEF Inv, Shape
<1> QED
  BY <1>1, SpecInv, PTL

\* For every amount and every balance the nested thresholds of the issue, and
\* the list and the loop of the claim script, give the best coupon allowed.
THEOREM SpecBestCouponGiven == Spec => []BestCouponGiven
<1>1. Inv => BestCouponGiven
  BY DEF Inv
<1> QED
  BY <1>1, SpecInv, PTL

\* For any number of requests and orders, a record names a coupon that a request
\* for its order really got, also after records have expired and were rewritten.
THEOREM SpecRecordsAreTrue == Spec => []RecordsAreTrue
<1>1. Inv => RecordsAreTrue
  BY DEF Inv
<1> QED
  BY <1>1, SpecInv, PTL

\* For any number of requests, a rate limit counter has an end or is about to be
\* given one, unless Redis failed at its INCR or its EXPIRE.
THEOREM SpecCounterEnds == Spec => []CounterEnds
<1>1. Inv => CounterEnds
  BY DEF Inv
<1> QED
  BY <1>1, SpecInv, PTL

=============================================================================
