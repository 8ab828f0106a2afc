------------------------------ MODULE Sessions ------------------------------
(***************************************************************************)
(* user-service: accounts, the login policy, access tokens and the         *)
(* blacklist in Redis that ends a token before its time. The gateways run  *)
(* the same two checks of a token as user-service itself: blacklist first, *)
(* then signature and expiry.                                              *)
(*                                                                         *)
(* A request is a process that runs once. Expiry times are whole seconds,  *)
(* the clock is finer: rounding is part of the model. All hosts share one  *)
(* clock. Names, hashes and signatures are left out, and t_user.version,   *)
(* which is written and never read.                                        *)
(***************************************************************************)
EXTENDS Integers

CONSTANTS
    Users,           \* accounts
    Admins,          \* those of role ADMIN
    NoUser,          \* no account
    Tokens,          \* access tokens that may be issued
    NoToken,         \* no token
    Calls,           \* requests; each runs once
    TicksPerSecond,  \* resolution of the clock
    LifeSeconds,     \* jwt_expire_minutes, in seconds
    MaxTime,         \* bound: the clock stops there
    RedisFails       \* whether a Redis command may fail

ASSUME UserAssumption == Admins \subseteq Users /\ NoUser \notin Users
ASSUME TokenAssumption == NoToken \notin Tokens
ASSUME TimeAssumption ==
    /\ TicksPerSecond \in Nat \ {0}
    /\ LifeSeconds \in Nat \ {0}
    /\ MaxTime \in Nat
ASSUME SwitchAssumption == RedisFails \in BOOLEAN

VARIABLES
    now,      \* the time, in ticks
    account,  \* t_user: the columns the requests write
    policy,   \* the USER_LOGIN_ENABLED row of t_system_config, or "absent"
    exp,      \* exp[k]: the second at which token k expires, 0 before its issue
    holder,   \* holder[k]: the user_id in its claims
    black,    \* black[k]: the tick at which the blacklist entry of k ends, 0 for none
    call,     \* call[c]: where the request is and what it has read
    revoked,  \* history: tokens whose blacklist entry was stored
    wanted    \* history: for each column, what the requests meant for it have left

rowVars == <<account, policy, wanted>>
tokenVars == <<exp, holder, black, revoked>>
vars == <<now, rowVars, tokenVars, call>>

Rows == [enabled : BOOLEAN, password : {"first", "second"}, profile : {"first", "second"}]
NewRow == [enabled |-> TRUE, password |-> "first", profile |-> "first"]

\* The requests that start with get_current_claims.
AuthOps == {"me", "profile", "password"}
Ops == AuthOps \cup {"login", "logout", "account", "policy"}

NewCall == [pc |-> "idle", op |-> "none", user |-> NoUser, token |-> NoToken,
            row |-> NewRow, value |-> "none", ttl |-> 0, late |-> FALSE]

\* Accounts, tokens, blacklist and requests keep their types.
TypeOK ==
    /\ now \in 0 .. MaxTime
    /\ account \in [Users -> Rows]
    /\ policy \in {"absent", "on", "off"}
    /\ exp \in [Tokens -> Nat]
    /\ holder \in [Tokens -> Users \cup {NoUser}]
    /\ black \in [Tokens -> Nat]
    /\ call \in [Calls ->
          [pc : {"idle", "verify", "check", "decode", "store", "accepted", "write", "ok", "refused"},
           op : Ops \cup {"none"}, user : Users \cup {NoUser}, token : Tokens \cup {NoToken},
           row : Rows, value : {"absent", "on", "off", "none"}, ttl : Nat, late : BOOLEAN]]
    /\ revoked \in SUBSET Tokens
    /\ wanted \in [Users -> Rows]

\* The seed data switches the policy on; a database without it has no row.
Init ==
    /\ now = 0
    /\ account = [u \in Users |-> NewRow]
    /\ policy \in {"absent", "on"}
    /\ exp = [k \in Tokens |-> 0]
    /\ holder = [k \in Tokens |-> NoUser]
    /\ black = [k \in Tokens |-> 0]
    /\ call = [c \in Calls |-> NewCall]
    /\ revoked = {}
    /\ wanted = [u \in Users |-> NewRow]

\* Definitions named Bug... are seeded defects. No action uses them: each
\* replaces the definition after it to show that a property can fail.

Goes(c, where) == call' = [call EXCEPT ![c].pc = where]

Switched(b) == IF b THEN "on" ELSE "off"

Tick ==
    /\ now < MaxTime
    /\ now' = now + 1
    /\ UNCHANGED <<rowVars, tokenVars, call>>

----------------------------------------------------------------------------
(* Tokens *)

\* datetime.now() plus the lifetime; the encoding drops the fraction.
Expiry == now \div TicksPerSecond + LifeSeconds

\* jwt.decode, and jwt.Parse in the Go gateway: valid strictly before its expiry.
Alive(k) == exp[k] # 0 /\ now < exp[k] * TicksPerSecond

\* The entry Redis still has.
Blacklisted(k) == now < black[k]

BugTtlUnbounded(k) == (exp[k] * TicksPerSecond - now) \div TicksPerSecond

BugTtlShort(k) ==
    LET left == (exp[k] * TicksPerSecond - now) \div TicksPerSecond - 1 IN
    IF left > 1 THEN left ELSE 1

\* max(1, int(exp_timestamp - time.time()))
TtlSeconds(k) ==
    LET left == (exp[k] * TicksPerSecond - now) \div TicksPerSecond IN
    IF left > 1 THEN left ELSE 1

----------------------------------------------------------------------------
(* login *)

\* The account and the policy are read in one transaction and hence in one
\* snapshot. 401 for an unknown name or a wrong password.
LoginRead(c, u) ==
    /\ call[c].pc = "idle"
    /\ \/ call' = [call EXCEPT ![c] = [NewCall EXCEPT !.pc = "verify", !.op = "login", !.user = u,
                                                      !.row = account[u], !.value = policy]]
       \/ Goes(c, "refused")
    /\ UNCHANGED <<now, rowVars, tokenVars>>

\* get_user_login_enabled: no row means enabled.
PolicyAllows(value) == value # "off"

\* The switch of the policy is for role USER only.
MayLogin(u, row, value) == (u \in Admins \/ PolicyAllows(value)) /\ row.enabled

\* The checks and create_access_token.
LoginDecide(c, k) ==
    /\ call[c].pc = "verify"
    /\ IF MayLogin(call[c].user, call[c].row, call[c].value)
       THEN /\ exp[k] = 0
            /\ exp' = [exp EXCEPT ![k] = Expiry]
            /\ holder' = [holder EXCEPT ![k] = call[c].user]
            /\ Goes(c, "ok")
       ELSE UNCHANGED <<exp, holder>> /\ Goes(c, "refused")
    /\ UNCHANGED <<now, rowVars, black, revoked>>

----------------------------------------------------------------------------
(* Checks of a token *)

\* get_current_claims, and decode_token of the gateways: the blacklist first.
\* A Redis error counts as "not blacklisted".
CheckBlacklist(c, op, k) ==
    /\ call[c].pc = "idle"
    /\ exp[k] # 0
    /\ \E answered \in IF RedisFails THEN BOOLEAN ELSE {TRUE} :
          call' = [call EXCEPT ![c] =
              [NewCall EXCEPT !.pc = IF answered /\ Blacklisted(k) THEN "refused" ELSE "decode",
                              !.op = op, !.token = k, !.user = holder[k],
                              !.late = answered /\ k \in revoked]]
    /\ UNCHANGED <<now, rowVars, tokenVars>>

\* Then signature and expiry. An accepted request reads its account.
Decode(c) ==
    /\ call[c].pc = "decode"
    /\ IF ~Alive(call[c].token) THEN Goes(c, "refused")
       ELSE IF call[c].op = "me" THEN Goes(c, "accepted")
       ELSE call' = [call EXCEPT ![c].pc = "write", ![c].row = account[call[c].user]]
    /\ UNCHANGED <<now, rowVars, tokenVars>>

\* get_current_token_with_claims of logout takes the two checks the other way
\* round: here its decode, in the next action the rest.
LogoutDecode(c, k) ==
    /\ call[c].pc = "idle"
    /\ IF Alive(k)
       THEN call' = [call EXCEPT ![c] = [NewCall EXCEPT !.pc = "check", !.op = "logout", !.token = k]]
       ELSE Goes(c, "refused")
    /\ UNCHANGED <<now, rowVars, tokenVars>>

\* The blacklist, and the time to live that revoke_token computes.
LogoutCheck(c) ==
    /\ call[c].pc = "check"
    /\ LET k == call[c].token IN
       \/ Blacklisted(k) /\ Goes(c, "refused")
       \/ /\ ~Blacklisted(k) \/ RedisFails
          /\ call' = [call EXCEPT ![c].pc = "store", ![c].ttl = TtlSeconds(k)]
    /\ UNCHANGED <<now, rowVars, tokenVars>>

\* setex, when it reaches Redis. A failure is swallowed and the user is told
\* "signed out" all the same.
LogoutStore(c) ==
    /\ call[c].pc = "store"
    /\ LET k == call[c].token IN
       \/ /\ black' = [black EXCEPT ![k] = now + call[c].ttl * TicksPerSecond]
          /\ revoked' = revoked \cup {k}
       \/ RedisFails /\ UNCHANGED <<black, revoked>>
    /\ Goes(c, "ok")
    /\ UNCHANGED <<now, rowVars, exp, holder>>

----------------------------------------------------------------------------
(* Accounts and the policy *)

BugWholeRow(u, old, new) == new

\* The UPDATE SQLAlchemy flushes: the columns that differ from the row read.
Flush(u, old, new) ==
    [enabled  |-> IF new.enabled # old.enabled THEN new.enabled ELSE account[u].enabled,
     password |-> IF new.password # old.password THEN new.password ELSE account[u].password,
     profile  |-> IF new.profile # old.profile THEN new.profile ELSE account[u].profile]

Commit(c, new, meant) ==
    /\ account' = [account EXCEPT ![call[c].user] = Flush(call[c].user, call[c].row, new)]
    /\ wanted' = [wanted EXCEPT ![call[c].user] = meant]
    /\ Goes(c, "ok")
    /\ UNCHANGED <<now, policy, tokenVars>>

\* update_profile
SaveProfile(c) ==
    /\ call[c].pc = "write" /\ call[c].op = "profile"
    /\ Commit(c, [call[c].row EXCEPT !.profile = "second"],
              [wanted[call[c].user] EXCEPT !.profile = "second"])

\* change_password: 400 when the old password is not the one read.
SavePassword(c) ==
    /\ call[c].pc = "write" /\ call[c].op = "password"
    /\ \/ Commit(c, [call[c].row EXCEPT !.password = "second"],
                 [wanted[call[c].user] EXCEPT !.password = "second"])
       \/ Goes(c, "refused") /\ UNCHANGED <<now, rowVars, tokenVars>>

\* Only USER accounts can be enabled or disabled.
Switchable(u) == u \notin Admins

\* set_user_login_enabled_by_admin, called by an admin (403 for others), reads
\* the account: 400 for an admin's.
ReadAccount(c, u) ==
    /\ call[c].pc = "idle"
    /\ IF Switchable(u)
       THEN call' = [call EXCEPT ![c] = [NewCall EXCEPT !.pc = "write", !.op = "account",
                                                        !.user = u, !.row = account[u]]]
       ELSE Goes(c, "refused")
    /\ UNCHANGED <<now, rowVars, tokenVars>>

\* A request that finds the switch as it wants it writes nothing.
SaveAccount(c, b) ==
    /\ call[c].pc = "write" /\ call[c].op = "account"
    /\ Commit(c, [call[c].row EXCEPT !.enabled = b],
              IF b # call[c].row.enabled THEN [wanted[call[c].user] EXCEPT !.enabled = b]
              ELSE wanted[call[c].user])

\* set_user_login_enabled
ReadPolicy(c) ==
    /\ call[c].pc = "idle"
    /\ call' = [call EXCEPT ![c] = [NewCall EXCEPT !.pc = "write", !.op = "policy", !.value = policy]]
    /\ UNCHANGED <<now, rowVars, tokenVars>>

\* An INSERT when no row was read, which the primary key refuses when another
\* request has inserted it; an UPDATE when the value read differs.
SavePolicy(c, b) ==
    /\ call[c].pc = "write" /\ call[c].op = "policy"
    /\ LET read == call[c].value IN
       IF read = "absent" /\ policy # "absent"
       THEN UNCHANGED policy /\ Goes(c, "refused")
       ELSE /\ policy' = IF read # Switched(b) THEN Switched(b) ELSE policy
            /\ Goes(c, "ok")
    /\ UNCHANGED <<now, account, wanted, tokenVars>>

----------------------------------------------------------------------------

Next ==
    \/ Tick
    \/ \E c \in Calls :
          \/ \E u \in Users : LoginRead(c, u) \/ ReadAccount(c, u)
          \/ \E k \in Tokens : LoginDecide(c, k) \/ LogoutDecode(c, k)
          \/ \E op \in AuthOps, k \in Tokens : CheckBlacklist(c, op, k)
          \/ Decode(c) \/ LogoutCheck(c) \/ LogoutStore(c)
          \/ SaveProfile(c) \/ SavePassword(c) \/ ReadPolicy(c)
          \/ \E b \in BOOLEAN : SaveAccount(c, b) \/ SavePolicy(c, b)

Spec == Init /\ [][Next]_vars

----------------------------------------------------------------------------
(* Properties *)

\* Logout holds: a request that comes after the blacklist entry of its token was
\* stored, and that Redis answers, gets past the blacklist only in the last
\* second of the token's life. The time to live is rounded down and computed
\* before the command that carries it reaches Redis, and a second logout may
\* overwrite the entry; neither opens a wider gap.
RevokedIsRefused == \A c \in Calls :
    call[c].late /\ call[c].pc \in {"decode", "accepted", "write", "ok"} =>
        now + TicksPerSecond > exp[call[c].token] * TicksPerSecond

\* Profile, password and account switch of one user may be saved at the same
\* time by requests that have read the same row: none undoes another.
NoAccountUpdateLost == account = wanted

=============================================================================
