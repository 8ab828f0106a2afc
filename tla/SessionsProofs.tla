--------------------------- MODULE SessionsProofs ---------------------------
(***************************************************************************)
(* Theorems about Sessions, for any accounts, tokens and requests, any     *)
(* resolution of the clock and any lifetime of a token.                    *)
(***************************************************************************)
EXTENDS Sessions, TLAPS

PCs == {"idle", "verify", "check", "decode", "store", "accepted", "write", "ok", "refused"}

CallRecs ==
    [pc : PCs, op : Ops \cup {"none"}, user : Users \cup {NoUser}, token : Tokens \cup {NoToken},
     row : Rows, value : {"absent", "on", "off", "none"}, ttl : Nat, late : BOOLEAN]

\* Time t is in the last second of token k, or later.
LastSecond(k, t) == t + TicksPerSecond > exp[k] * TicksPerSecond

\* A request past its first step has the token and the account it works for.
Acting(c) ==
    /\ call[c].pc \in {"check", "decode", "store"} \/ call[c].late =>
          call[c].token \in Tokens /\ exp[call[c].token] # 0
    /\ call[c].pc \in {"verify", "decode"} => call[c].user \in Users
    /\ call[c].pc = "write" /\ call[c].op # "policy" => call[c].user \in Users
    /\ call[c].pc = "decode" => call[c].op \in AuthOps
    /\ call[c].pc \in {"idle", "check", "store", "verify"} => ~call[c].late

\* A time to live computed earlier still lasts into the last second, whenever
\* the entry is stored.
TtlCovers(c) == call[c].pc = "store" =>
    LastSecond(call[c].token, now + call[c].ttl * TicksPerSecond)

\* RevokedIsRefused, for one request.
LateIsLast(c) ==
    call[c].late /\ call[c].pc \in {"decode", "accepted", "write", "ok"} => LastSecond(call[c].token, now)

\* Profile and password are only ever changed to "second": a request that has
\* read the new value, and hence leaves the column alone, still finds it.
ReadIsKept(c) == call[c].pc = "write" /\ call[c].op # "policy" =>
    /\ call[c].row.password = "second" => account[call[c].user].password = "second"
    /\ call[c].row.profile = "second" => account[call[c].user].profile = "second"

CallInv(c) == Acting(c) /\ TtlCovers(c) /\ LateIsLast(c) /\ ReadIsKept(c)

\* An issued token has a holder, and the entry of a revoked one lasts into its
\* last second, or did.
TokenInv ==
    /\ \A k \in Tokens : exp[k] # 0 => holder[k] \in Users
    /\ \A k \in revoked : exp[k] # 0 /\ LastSecond(k, black[k])

Inv == TypeOK /\ TokenInv /\ NoAccountUpdateLost /\ \A c \in Calls : CallInv(c)

----------------------------------------------------------------------------

USE DEF NewCall, rowVars, tokenVars

\* Rounding down loses less than one second.
LEMMA Rounding ==
    ASSUME NEW n \in Int, NEW d \in Nat \ {0}
    PROVE  n \div d \in Int /\ (n \div d) * d > n - d
OBVIOUS

LEMMA NatQuotient ==
    ASSUME NEW n \in Nat, NEW d \in Nat \ {0}
    PROVE  n \div d \in Nat
OBVIOUS

LEMMA ExpiryType == TypeOK => Expiry \in Nat \ {0}
<1> SUFFICES ASSUME TypeOK PROVE Expiry \in Nat \ {0}
  OBVIOUS
<1>1. now \in Nat
  BY TimeAssumption DEF TypeOK
<1>2. now \div TicksPerSecond \in Nat
  BY <1>1, TimeAssumption, NatQuotient
<1> QED
  BY <1>2, TimeAssumption DEF Expiry

LEMMA Monotone ==
    ASSUME NEW a \in Int, NEW b \in Int, a <= b, NEW d \in Nat
    PROVE  a * d <= b * d /\ a * d \in Int /\ b * d \in Int
OBVIOUS

\* The time to live lasts into the last second of the token.
LEMMA TtlLasts ==
    ASSUME TypeOK, NEW k \in Tokens
    PROVE  TtlSeconds(k) \in Nat /\ LastSecond(k, now + TtlSeconds(k) * TicksPerSecond)
<1> DEFINE end == exp[k] * TicksPerSecond
           left == (end - now) \div TicksPerSecond
<1>1. end \in Int /\ now \in Int /\ TicksPerSecond \in Nat \ {0}
  BY TimeAssumption DEF TypeOK
<1> HIDE DEF end
<1>2. left \in Int /\ left * TicksPerSecond > end - now - TicksPerSecond
  BY <1>1, Rounding
<1>3. TtlSeconds(k) = IF left > 1 THEN left ELSE 1
  BY DEF TtlSeconds, end
<1> HIDE DEF left
<1>4. TtlSeconds(k) \in Nat /\ left <= TtlSeconds(k)
  BY <1>2, <1>3
<1>5. left * TicksPerSecond <= TtlSeconds(k) * TicksPerSecond /\ TtlSeconds(k) * TicksPerSecond \in Int
      /\ left * TicksPerSecond \in Int
  BY <1>1, <1>2, <1>4, Monotone
<1>6. now + TtlSeconds(k) * TicksPerSecond + TicksPerSecond > end
  BY <1>1, <1>2, <1>5
<1> QED
  BY <1>4, <1>6 DEF LastSecond, end

LEMMA CallType == TypeOK => call \in [Calls -> CallRecs]
BY DEF TypeOK, CallRecs, PCs

\* What the two ways of writing call[c] leave.
LEMMA GoesOn ==
    ASSUME TypeOK, NEW c \in Calls, NEW w \in PCs, Goes(c, w)
    PROVE  /\ call' \in [Calls -> CallRecs]
           /\ \A d \in Calls \ {c} : call'[d] = call[d]
           /\ call'[c] = [call[c] EXCEPT !.pc = w]
BY CallType DEF Goes, CallRecs

LEMMA Begins ==
    ASSUME TypeOK, NEW c \in Calls, NEW r \in CallRecs, call' = [call EXCEPT ![c] = r]
    PROVE  /\ call' \in [Calls -> CallRecs]
           /\ \A d \in Calls \ {c} : call'[d] = call[d]
           /\ call'[c] = r
BY CallType

\* What no step ever takes back.
Persists ==
    /\ now' >= now
    /\ \A k \in Tokens : exp[k] # 0 => exp'[k] = exp[k]
    /\ \A u \in Users :
          /\ account[u].password = "second" => account'[u].password = "second"
          /\ account[u].profile = "second" => account'[u].profile = "second"

\* A request that does not move keeps its invariant.
LEMMA Undisturbed ==
    ASSUME TypeOK, TypeOK', NEW d \in Calls, CallInv(d), call'[d] = call[d], Persists
    PROVE  CallInv(d)'
<1> DEFINE k == call[d].token
<1>0. call[d] \in CallRecs
  BY CallType
<1>1. Acting(d)'
  BY DEF CallInv, Acting, Persists
<1>2. ASSUME NEW t \in Int, NEW s \in Int, s >= t, k \in Tokens, exp[k] # 0, LastSecond(k, t)
     PROVE  s + TicksPerSecond > exp'[k] * TicksPerSecond
  <2>1. exp'[k] = exp[k] /\ exp[k] * TicksPerSecond \in Int /\ TicksPerSecond \in Int
    BY <1>2, TimeAssumption DEF Persists, TypeOK
  <2> HIDE DEF k
  <2> QED
    BY <1>2, <2>1 DEF LastSecond
<1>3. now \in Int /\ now' \in Int /\ call[d].ttl * TicksPerSecond \in Int
  BY <1>0, TimeAssumption DEF TypeOK, CallRecs
<1>4. TtlCovers(d)'
  BY <1>2, <1>3 DEF CallInv, Acting, TtlCovers, Persists, LastSecond
<1>5. LateIsLast(d)'
  BY <1>2, <1>3 DEF CallInv, Acting, LateIsLast, Persists, LastSecond
<1>6. ReadIsKept(d)'
  BY DEF CallInv, Acting, ReadIsKept, Persists
<1> QED
  BY <1>1, <1>4, <1>5, <1>6 DEF CallInv

LEMMA InitInv == Init => Inv
<1> SUFFICES ASSUME Init PROVE Inv
  OBVIOUS
<1>1. TypeOK
  BY UserAssumption, TokenAssumption, TimeAssumption DEF Init, TypeOK, Rows, NewRow, Ops, AuthOps
<1>2. TokenInv /\ NoAccountUpdateLost
  BY DEF Init, TokenInv, NoAccountUpdateLost
<1>3. \A c \in Calls : CallInv(c)
  BY DEF Init, CallInv, Acting, TtlCovers, LateIsLast, ReadIsKept
<1> QED
  BY <1>1, <1>2, <1>3 DEF Inv

\* Requests that only read: nothing but call changes.
LEMMA OnlyCalls ==
    ASSUME Inv, UNCHANGED <<now, rowVars, tokenVars>>, NEW c \in Calls,
           call' \in [Calls -> CallRecs], \A d \in Calls \ {c} : call'[d] = call[d], CallInv(c)'
    PROVE  Inv'
<1>1. TypeOK'
  BY DEF Inv, TypeOK, CallRecs, PCs
<1>2. Persists
  BY DEF Persists, Inv, TypeOK
<1>3. \A d \in Calls : CallInv(d)'
  BY <1>1, <1>2, Undisturbed DEF Inv
<1> QED
  BY <1>1, <1>3 DEF Inv, TokenInv, NoAccountUpdateLost, LastSecond

\* A request that ends, or is refused, has nothing left to keep.
LEMMA Ends ==
    ASSUME Inv, NEW c \in Calls, NEW w \in {"ok", "refused"}, Goes(c, w),
           call[c].late => w = "refused" \/ LastSecond(call[c].token, now)',
           Persists
    PROVE  CallInv(c)'
<1>1. call'[c] = [call[c] EXCEPT !.pc = w] /\ call[c] \in CallRecs
  BY GoesOn, CallType DEF Inv, PCs
<1>2. call'[c].pc = w /\ call'[c].late = call[c].late /\ call'[c].token = call[c].token
  BY <1>1 DEF CallRecs
<1>3. Acting(c)
  BY DEF Inv, CallInv
<1>4. Acting(c)'
  BY <1>2, <1>3 DEF Acting, Persists
<1>5. LateIsLast(c)'
  BY <1>2 DEF LateIsLast
<1>6. TtlCovers(c)' /\ ReadIsKept(c)'
  BY <1>2 DEF TtlCovers, ReadIsKept
<1> QED
  BY <1>4, <1>5, <1>6 DEF CallInv

\* Refusing a request changes nothing else.
LEMMA Refuses ==
    ASSUME Inv, NEW c \in Calls, Goes(c, "refused"), UNCHANGED <<now, rowVars, tokenVars>>
    PROVE  Inv'
<1>1. Persists
  BY DEF Persists, Inv, TypeOK
<1>2. CallInv(c)'
  BY <1>1, Ends
<1> QED
  BY <1>2, GoesOn, OnlyCalls DEF Inv, PCs

LEMMA TickInv == Inv /\ Tick => Inv'
<1> SUFFICES ASSUME Inv, Tick PROVE Inv'
  OBVIOUS
<1>1. TypeOK'
  BY TimeAssumption DEF Inv, Tick, TypeOK
<1>2. Persists
  BY TimeAssumption DEF Persists, Inv, TypeOK, Tick
<1>3. \A d \in Calls : CallInv(d)'
  BY <1>1, <1>2, Undisturbed DEF Inv, Tick
<1> QED
  BY <1>1, <1>3 DEF Inv, TokenInv, NoAccountUpdateLost, LastSecond, Tick

LEMMA LoginReadInv == ASSUME Inv, NEW c \in Calls, NEW u \in Users, LoginRead(c, u) PROVE Inv'
<1> DEFINE r == [NewCall EXCEPT !.pc = "verify", !.op = "login", !.user = u, !.row = account[u], !.value = policy]
<1>1. CASE call' = [call EXCEPT ![c] = r]
  <2>1. r \in CallRecs
    BY DEF CallRecs, PCs, Ops, Inv, TypeOK
  <2>2. CallInv(c)'
    BY <1>1, <2>1, Begins DEF CallInv, Acting, TtlCovers, LateIsLast, ReadIsKept, Inv
  <2> QED
    BY <1>1, <2>1, <2>2, Begins, OnlyCalls DEF LoginRead, Inv
<1> QED
  BY <1>1, Refuses DEF LoginRead

LEMMA ReadAccountInv == ASSUME Inv, NEW c \in Calls, NEW u \in Users, ReadAccount(c, u) PROVE Inv'
<1> DEFINE r == [NewCall EXCEPT !.pc = "write", !.op = "account", !.user = u, !.row = account[u]]
<1>1. CASE call' = [call EXCEPT ![c] = r]
  <2>1. r \in CallRecs
    BY DEF CallRecs, PCs, Ops, Inv, TypeOK
  <2>2. CallInv(c)'
    BY <1>1, <2>1, Begins DEF CallInv, Acting, TtlCovers, LateIsLast, ReadIsKept, Inv, ReadAccount
  <2> QED
    BY <1>1, <2>1, <2>2, Begins, OnlyCalls DEF ReadAccount, Inv
<1> QED
  BY <1>1, Refuses DEF ReadAccount

LEMMA ReadPolicyInv == ASSUME Inv, NEW c \in Calls, ReadPolicy(c) PROVE Inv'
<1> DEFINE r == [NewCall EXCEPT !.pc = "write", !.op = "policy", !.value = policy]
<1>1. r \in CallRecs
  BY DEF CallRecs, PCs, Ops, Inv, TypeOK, Rows, NewRow
<1>2. CallInv(c)'
  BY <1>1, Begins DEF CallInv, Acting, TtlCovers, LateIsLast, ReadIsKept, Inv, ReadPolicy
<1> QED
  BY <1>1, <1>2, Begins, OnlyCalls DEF ReadPolicy, Inv

LEMMA LogoutDecodeInv == ASSUME Inv, NEW c \in Calls, NEW k \in Tokens, LogoutDecode(c, k) PROVE Inv'
<1> DEFINE r == [NewCall EXCEPT !.pc = "check", !.op = "logout", !.token = k]
<1>1. CASE Alive(k)
  <2>1. r \in CallRecs
    BY DEF CallRecs, PCs, Ops, Rows, NewRow
  <2>2. call'[c] = r /\ UNCHANGED exp /\ exp[k] # 0
    BY <1>1, <2>1, Begins DEF Inv, LogoutDecode, Alive
  <2>3. CallInv(c)'
    BY <2>2 DEF CallInv, Acting, TtlCovers, LateIsLast, ReadIsKept
  <2> QED
    BY <1>1, <2>1, <2>3, Begins, OnlyCalls DEF LogoutDecode, Inv
<1> QED
  BY <1>1, Refuses DEF LogoutDecode

\* A late request that gets past the blacklist comes when the entry has ended.
LEMMA CheckBlacklistInv ==
    ASSUME Inv, NEW c \in Calls, NEW op \in AuthOps, NEW k \in Tokens, CheckBlacklist(c, op, k)
    PROVE  Inv'
<1> PICK answered \in BOOLEAN :
        call' = [call EXCEPT ![c] =
              [NewCall EXCEPT !.pc = IF answered /\ Blacklisted(k) THEN "refused" ELSE "decode",
                              !.op = op, !.token = k, !.user = holder[k],
                              !.late = answered /\ k \in revoked]]
  BY DEF CheckBlacklist
<1> DEFINE r == [NewCall EXCEPT !.pc = IF answered /\ Blacklisted(k) THEN "refused" ELSE "decode",
                                !.op = op, !.token = k, !.user = holder[k],
                                !.late = answered /\ k \in revoked]
<1>1. r \in CallRecs
  BY DEF CallRecs, PCs, Ops, Rows, NewRow, Inv, TypeOK
<1>2. r.late /\ r.pc = "decode" => LastSecond(k, now)
  <2> SUFFICES ASSUME k \in revoked, ~Blacklisted(k) PROVE LastSecond(k, now)
    OBVIOUS
  <2>1. LastSecond(k, black[k])
    BY DEF Inv, TokenInv
  <2>2. now \in Int /\ black[k] \in Int /\ TicksPerSecond \in Int /\ exp[k] * TicksPerSecond \in Int
    BY TimeAssumption DEF Inv, TypeOK
  <2> QED
    BY <2>1, <2>2 DEF LastSecond, Blacklisted
<1>3. call'[c] = r
  BY <1>1, Begins DEF Inv
<1>4. r.token = k /\ r.pc \in {"refused", "decode"} /\ r.op = op /\ r.user = holder[k]
  OBVIOUS
<1> HIDE DEF r
<1>5. UNCHANGED <<now, exp>> /\ exp[k] # 0 /\ holder[k] \in Users
  BY DEF CheckBlacklist, Inv, TokenInv
<1>6. CallInv(c)'
  <2>1. Acting(c)'
    BY <1>3, <1>4, <1>5 DEF Acting
  <2>2. LateIsLast(c)'
    BY <1>2, <1>3, <1>4, <1>5 DEF LateIsLast, LastSecond
  <2>3. TtlCovers(c)' /\ ReadIsKept(c)'
    BY <1>3, <1>4 DEF TtlCovers, ReadIsKept
  <2> QED
    BY <2>1, <2>2, <2>3 DEF CallInv
<1> QED
  BY <1>1, <1>6, Begins, OnlyCalls DEF CheckBlacklist, Inv, r

LEMMA DecodeInv == ASSUME Inv, NEW c \in Calls, Decode(c) PROVE Inv'
<1> DEFINE s == [call[c] EXCEPT !.pc = "write", !.row = account[call[c].user]]
<1>0. call[c] \in CallRecs /\ call[c].user \in Users /\ call[c].pc = "decode"
  BY CallType DEF Inv, CallInv, Acting, Decode
<1>1. CASE Goes(c, "refused")
  BY <1>1, Refuses DEF Decode
<1>2. CASE Goes(c, "accepted")
  <2>1. call'[c] = [call[c] EXCEPT !.pc = "accepted"] /\ UNCHANGED <<now, exp>>
    BY <1>2, GoesOn DEF Inv, PCs, Decode
  <2>2. CallInv(c)'
    BY <1>0, <2>1 DEF Inv, CallInv, Acting, TtlCovers, LateIsLast, ReadIsKept, LastSecond, CallRecs
  <2> QED
    BY <1>2, <2>2, GoesOn, OnlyCalls DEF Inv, PCs, Decode
<1>3. CASE call' = [call EXCEPT ![c].pc = "write", ![c].row = account[call[c].user]]
  <2>1. s \in CallRecs
    BY <1>0 DEF Inv, TypeOK, CallRecs, PCs
  <2>2. call' = [call EXCEPT ![c] = s]
    BY <1>3, CallType DEF Inv, CallRecs
  <2>3. call'[c] = s /\ UNCHANGED <<now, exp, account>>
    BY <2>1, <2>2, Begins DEF Inv, Decode
  <2>4. CallInv(c)'
    BY <1>0, <2>3 DEF Inv, CallInv, Acting, TtlCovers, LateIsLast, ReadIsKept, LastSecond, CallRecs
  <2> QED
    BY <2>1, <2>2, <2>4, Begins, OnlyCalls DEF Inv, Decode
<1> QED
  BY <1>1, <1>2, <1>3 DEF Decode

LEMMA LogoutCheckInv == ASSUME Inv, NEW c \in Calls, LogoutCheck(c) PROVE Inv'
<1> DEFINE k == call[c].token
           s == [call[c] EXCEPT !.pc = "store", !.ttl = TtlSeconds(k)]
<1>0. call[c] \in CallRecs /\ k \in Tokens /\ exp[k] # 0 /\ ~call[c].late
  BY CallType DEF Inv, CallInv, Acting, LogoutCheck
<1>1. CASE Goes(c, "refused")
  BY <1>1, Refuses DEF LogoutCheck
<1>2. CASE call' = [call EXCEPT ![c].pc = "store", ![c].ttl = TtlSeconds(k)]
  <2>1. TtlSeconds(k) \in Nat /\ LastSecond(k, now + TtlSeconds(k) * TicksPerSecond)
    BY <1>0, TtlLasts DEF Inv
  <2>2. s \in CallRecs
    BY <1>0, <2>1 DEF CallRecs, PCs
  <2>3. call' = [call EXCEPT ![c] = s]
    BY <1>2, CallType DEF Inv, CallRecs
  <2>4. call'[c] = s /\ UNCHANGED <<now, exp>>
    BY <2>2, <2>3, Begins DEF Inv, LogoutCheck
  <2>5. s.pc = "store" /\ s.token = k /\ s.late = call[c].late /\ s.ttl = TtlSeconds(k)
    BY <1>0 DEF CallRecs
  <2>6. CallInv(c)'
    BY <1>0, <2>1, <2>4, <2>5 DEF CallInv, Acting, TtlCovers, LateIsLast, ReadIsKept, LastSecond
  <2> QED
    BY <2>2, <2>3, <2>6, Begins, OnlyCalls DEF Inv, LogoutCheck
<1> QED
  BY <1>1, <1>2 DEF LogoutCheck

\* A token is issued only once, so no expiry that a request relies on changes.
LEMMA LoginDecideInv == ASSUME Inv, NEW c \in Calls, NEW k \in Tokens, LoginDecide(c, k) PROVE Inv'
<1>0. call[c].pc = "verify" /\ call[c].user \in Users /\ ~call[c].late
  BY DEF Inv, CallInv, Acting, LoginDecide
<1>1. CASE ~MayLogin(call[c].user, call[c].row, call[c].value)
  BY <1>1, Refuses DEF LoginDecide
<1>2. CASE MayLogin(call[c].user, call[c].row, call[c].value)
  <2>1. /\ exp[k] = 0 /\ exp' = [exp EXCEPT ![k] = Expiry]
        /\ holder' = [holder EXCEPT ![k] = call[c].user]
        /\ Goes(c, "ok") /\ UNCHANGED <<now, rowVars, black, revoked>>
    BY <1>2 DEF LoginDecide
  <2>2. call' \in [Calls -> CallRecs] /\ \A d \in Calls \ {c} : call'[d] = call[d]
    BY <2>1, GoesOn DEF Inv, PCs
  <2>3. exp' \in [Tokens -> Nat] /\ holder' \in [Tokens -> Users \cup {NoUser}]
    BY <1>0, <2>1, ExpiryType DEF Inv, TypeOK
  <2>4. TypeOK'
    BY <2>1, <2>2, <2>3 DEF Inv, TypeOK, CallRecs, PCs
  <2>5. Persists
    BY <2>1 DEF Persists, Inv, TypeOK
  <2>6. CallInv(c)'
    BY <1>0, <2>1, <2>5, Ends
  <2>7. \A d \in Calls : CallInv(d)'
    BY <2>2, <2>4, <2>5, <2>6, Undisturbed DEF Inv
  <2>8. TokenInv'
    <3>1. \A x \in Tokens : x # k => exp'[x] = exp[x] /\ holder'[x] = holder[x]
      BY <2>1 DEF Inv, TypeOK
    <3>2. holder'[k] = call[c].user
      BY <2>1 DEF Inv, TypeOK
    <3>3. k \notin revoked /\ revoked \subseteq Tokens
      BY <2>1 DEF Inv, TokenInv, TypeOK
    <3> QED
      BY <1>0, <2>1, <3>1, <3>2, <3>3 DEF Inv, TokenInv, LastSecond
  <2> QED
    BY <2>1, <2>4, <2>7, <2>8 DEF Inv, NoAccountUpdateLost
<1> QED
  BY <1>1, <1>2

\* The entry is stored later than its time to live was computed; it can only
\* last longer than was meant.
LEMMA LogoutStoreInv == ASSUME Inv, NEW c \in Calls, LogoutStore(c) PROVE Inv'
<1> DEFINE k == call[c].token
           end == now + call[c].ttl * TicksPerSecond
<1>0. k \in Tokens /\ exp[k] # 0 /\ ~call[c].late /\ LastSecond(k, end)
  BY DEF Inv, CallInv, Acting, TtlCovers, LogoutStore
<1>1. Goes(c, "ok") /\ UNCHANGED <<now, rowVars, exp, holder>>
  BY DEF LogoutStore
<1>2. call' \in [Calls -> CallRecs] /\ \A d \in Calls \ {c} : call'[d] = call[d]
  BY <1>1, GoesOn DEF Inv, PCs
<1>3. Persists
  BY <1>1 DEF Persists, Inv, TypeOK
<1>4. CallInv(c)'
  BY <1>0, <1>1, <1>3, Ends
<1>5. end \in Nat
  <2>1. now \in Nat /\ TicksPerSecond \in Nat
    BY TimeAssumption DEF Inv, TypeOK
  <2>2. call[c].ttl \in Nat
    <3>1. call[c] \in CallRecs
      BY CallType DEF Inv
    <3> QED
      BY <3>1 DEF CallRecs
  <2> QED
    BY <2>1, <2>2
<1> HIDE DEF k, end
<1>6. CASE black' = [black EXCEPT ![k] = end] /\ revoked' = revoked \cup {k}
  <2>1. TypeOK'
    BY <1>0, <1>1, <1>2, <1>5, <1>6 DEF Inv, TypeOK, CallRecs, PCs
  <2>2. TokenInv'
    BY <1>0, <1>1, <1>6 DEF Inv, TypeOK, TokenInv, LastSecond
  <2> QED
    BY <1>1, <1>2, <1>3, <1>4, <2>1, <2>2, Undisturbed DEF Inv, NoAccountUpdateLost
<1>7. CASE UNCHANGED <<black, revoked>>
  BY <1>1, <1>2, <1>4, <1>7, OnlyCalls
<1> QED
  BY <1>6, <1>7 DEF LogoutStore, k, end

\* Two requests that change different columns of one row: each UPDATE carries
\* its own column only. new is the row as the request leaves it in memory.
LEMMA CommitInv ==
    ASSUME Inv, NEW c \in Calls, call[c].pc = "write", call[c].op # "policy",
           NEW new \in Rows, NEW meant, Commit(c, new, meant),
           new.password = call[c].row.password \/ new.password = "second",
           new.profile = call[c].row.profile \/ new.profile = "second",
           meant = Flush(call[c].user, call[c].row, new)
    PROVE  Inv'
<1> DEFINE u == call[c].user
           row == call[c].row
<1>0. u \in Users /\ call[c] \in CallRecs /\ account[u] \in Rows /\ row \in Rows
  BY CallType DEF Inv, TypeOK, CallInv, Acting, CallRecs
<1>1. /\ account' = [account EXCEPT ![u] = Flush(u, row, new)]
      /\ wanted' = [wanted EXCEPT ![u] = meant]
      /\ Goes(c, "ok")
      /\ UNCHANGED <<now, policy, tokenVars>>
  BY DEF Commit
<1>2. call' \in [Calls -> CallRecs] /\ \A d \in Calls \ {c} : call'[d] = call[d]
  BY <1>1, GoesOn DEF Inv, PCs
<1>3. /\ row.password = "second" => account[u].password = "second"
      /\ row.profile = "second" => account[u].profile = "second"
  BY DEF Inv, CallInv, ReadIsKept
<1>4. Flush(u, row, new) \in Rows
  BY <1>0 DEF Flush, Rows
<1>5. /\ account[u].password = "second" => Flush(u, row, new).password = "second"
      /\ account[u].profile = "second" => Flush(u, row, new).profile = "second"
  BY <1>0, <1>3 DEF Flush, Rows
<1>6. TypeOK'
  BY <1>0, <1>1, <1>2, <1>4 DEF Inv, TypeOK, CallRecs, PCs
<1>7. Persists
  <2>1. \A x \in Users : account'[x] = IF x = u THEN Flush(u, row, new) ELSE account[x]
    BY <1>1 DEF Inv, TypeOK
  <2> QED
    BY <1>1, <1>5, <2>1 DEF Persists, Inv, TypeOK
<1>8. call[c].late => LastSecond(call[c].token, now)'
  <2>0. "ok" \in PCs /\ TypeOK /\ UNCHANGED <<now, exp>>
    BY <1>1 DEF Inv, PCs
  <2>1. call'[c].token = call[c].token
    <3>1. call'[c] = [call[c] EXCEPT !.pc = "ok"]
      BY <1>1, <2>0, GoesOn
    <3>2. call[c] \in CallRecs
      BY <2>0, CallType
    <3> QED
      BY <3>1, <3>2 DEF CallRecs
  <2> QED
    BY <2>0, <2>1 DEF Inv, CallInv, LateIsLast, LastSecond
<1>9. CallInv(c)'
  BY <1>1, <1>7, <1>8, Ends
<1>10. NoAccountUpdateLost'
  BY <1>1 DEF Inv, NoAccountUpdateLost
<1>11. TokenInv'
  BY <1>1 DEF Inv, TokenInv, LastSecond
<1> QED
  BY <1>2, <1>6, <1>7, <1>9, <1>10, <1>11, Undisturbed DEF Inv

\* The row and the account of a request that is about to write.
LEMMA Writing ==
    ASSUME Inv, NEW c \in Calls, call[c].pc = "write", call[c].op # "policy"
    PROVE  /\ call[c].row \in Rows
           /\ wanted[call[c].user] \in Rows
           /\ account[call[c].user] = wanted[call[c].user]
           /\ call[c].row.password = "second" => wanted[call[c].user].password = "second"
           /\ call[c].row.profile = "second" => wanted[call[c].user].profile = "second"
<1>1. call[c].user \in Users /\ call[c] \in CallRecs
  BY CallType DEF Inv, CallInv, Acting
<1>2. call[c].row \in Rows
  BY <1>1 DEF CallRecs
<1>3. wanted[call[c].user] \in Rows /\ account = wanted
  BY <1>1 DEF Inv, TypeOK, NoAccountUpdateLost
<1> QED
  BY <1>2, <1>3 DEF Inv, CallInv, ReadIsKept

LEMMA SaveProfileInv == ASSUME Inv, NEW c \in Calls, SaveProfile(c) PROVE Inv'
<1> DEFINE row == call[c].row
           new == [row EXCEPT !.profile = "second"]
           meant == [wanted[call[c].user] EXCEPT !.profile = "second"]
<1>1. new \in Rows /\ new.password = row.password /\ new.profile = "second" /\ meant = Flush(call[c].user, row, new)
  BY Writing DEF SaveProfile, Flush, Rows
<1> QED
  BY <1>1, CommitInv DEF SaveProfile

LEMMA SavePasswordInv == ASSUME Inv, NEW c \in Calls, SavePassword(c) PROVE Inv'
<1> DEFINE row == call[c].row
           new == [row EXCEPT !.password = "second"]
           meant == [wanted[call[c].user] EXCEPT !.password = "second"]
<1>1. new \in Rows /\ new.profile = row.profile /\ new.password = "second" /\ meant = Flush(call[c].user, row, new)
  BY Writing DEF SavePassword, Flush, Rows
<1> QED
  BY <1>1, CommitInv, Refuses DEF SavePassword

LEMMA SaveAccountInv == ASSUME Inv, NEW c \in Calls, NEW b \in BOOLEAN, SaveAccount(c, b) PROVE Inv'
<1> DEFINE row == call[c].row
           new == [row EXCEPT !.enabled = b]
           meant == IF b # row.enabled THEN [wanted[call[c].user] EXCEPT !.enabled = b] ELSE wanted[call[c].user]
<1>1. new \in Rows /\ new.profile = row.profile /\ new.password = row.password /\ meant = Flush(call[c].user, row, new)
  BY Writing DEF SaveAccount, Flush, Rows
<1> QED
  BY <1>1, CommitInv DEF SaveAccount

LEMMA SavePolicyInv == ASSUME Inv, NEW c \in Calls, NEW b \in BOOLEAN, SavePolicy(c, b) PROVE Inv'
<1>1. PICK w \in {"ok", "refused"} : Goes(c, w) /\ UNCHANGED <<now, account, wanted, tokenVars>>
  BY DEF SavePolicy
<1>2. policy' \in {"absent", "on", "off"}
  BY DEF SavePolicy, Switched, Inv, TypeOK
<1>3. call' \in [Calls -> CallRecs] /\ \A d \in Calls \ {c} : call'[d] = call[d]
  BY <1>1, GoesOn DEF Inv, PCs
<1>4. TypeOK'
  BY <1>1, <1>2, <1>3 DEF Inv, TypeOK, CallRecs, PCs
<1>5. Persists
  BY <1>1 DEF Persists, Inv, TypeOK
<1>6. call[c].late => LastSecond(call[c].token, now)'
  <2>0. w \in PCs /\ TypeOK /\ UNCHANGED <<now, exp>>
    BY <1>1 DEF Inv, PCs
  <2>1. call'[c].token = call[c].token
    <3>1. call'[c] = [call[c] EXCEPT !.pc = w]
      BY <1>1, <2>0, GoesOn
    <3>2. call[c] \in CallRecs
      BY <2>0, CallType
    <3> QED
      BY <3>1, <3>2 DEF CallRecs
  <2> QED
    BY <2>0, <2>1 DEF SavePolicy, Inv, CallInv, LateIsLast, LastSecond
<1>7. CallInv(c)'
  BY <1>1, <1>5, <1>6, Ends
<1> QED
  BY <1>1, <1>3, <1>4, <1>5, <1>7, Undisturbed DEF Inv, TokenInv, NoAccountUpdateLost, LastSecond

LEMMA NextInv == Inv /\ [Next]_vars => Inv'
<1> SUFFICES ASSUME Inv, [Next]_vars PROVE Inv'
  OBVIOUS
<1>1. CASE UNCHANGED vars
  BY <1>1 DEF vars, Inv, TypeOK, TokenInv, NoAccountUpdateLost, CallInv, Acting, TtlCovers, LateIsLast,
              ReadIsKept, LastSecond
<1> QED
  BY <1>1, TickInv, LoginReadInv, ReadAccountInv, LoginDecideInv, LogoutDecodeInv, CheckBlacklistInv,
     DecodeInv, LogoutCheckInv, LogoutStoreInv, SaveProfileInv, SavePasswordInv, ReadPolicyInv,
     SaveAccountInv, SavePolicyInv DEF Next

----------------------------------------------------------------------------

LEMMA SpecInv == Spec => []Inv
BY InitInv, NextInv, PTL DEF Spec

\* The clock, the rows, the tokens and the requests stay well formed: every time
\* to live and every expiry is a number of seconds that Redis and the token's
\* claims can hold.
THEOREM SpecTypeOK == Spec => []TypeOK
<1>1. Inv => TypeOK
  BY DEF Inv
<1> QED
  BY <1>1, SpecInv, PTL

\* After a logout that reached Redis, a request whose blacklist look-up is
\* answered passes only in the last second of the token's life, although the
\* time to live is rounded down, is computed before the entry is stored, and a
\* second logout may overwrite the entry.
THEOREM SpecRevokedIsRefused == Spec => []RevokedIsRefused
<1>1. Inv => RevokedIsRefused
  BY DEF Inv, CallInv, LateIsLast, LastSecond, RevokedIsRefused
<1> QED
  BY <1>1, SpecInv, PTL

\* Requests that have read the same row and save different columns of it do not
\* undo each other: every account is what the requests that ended meant it to be.
THEOREM SpecNoAccountUpdateLost == Spec => []NoAccountUpdateLost
<1>1. Inv => NoAccountUpdateLost
  BY DEF Inv
<1> QED
  BY <1>1, SpecInv, PTL

=============================================================================
