--------------------------- MODULE ProductCatalog ---------------------------
(***************************************************************************)
(* product-service: one row of t_product, the codes of the rows that       *)
(* admins add to it, and the Redis cache in front of the table. Order-     *)
(* service reserves and releases stock with single UPDATE statements;      *)
(* admins edit the row by read-modify-write, create rows and import files  *)
(* of rows; readers go through the cache, whose keys carry a shared        *)
(* catalog version that every writer bumps after its commit.               *)
(*                                                                         *)
(* Each request is one process that runs once. What a reader gets is       *)
(* identified by the number of commits it reflects; names and prices are   *)
(* left out. A cached payload is never empty, so a hit is a hit.           *)
(***************************************************************************)
EXTENDS Integers, FiniteSets, Functions

CONSTANTS
    Readers,       \* GET requests of the product or of a list
    Writers,       \* requests that change the table
    InitialStock,  \* stock of the row at the start
    Edits,         \* stock values an admin may send
    Quantity,      \* units reserved or released by one request
    Codes,         \* product codes besides that of the row
    Seed,          \* who added the rows of the seed data
    Bad,           \* a line of a file that does not become a valid product
    MaxLines,      \* bound: data lines in a file
    MaxVersion,    \* bound: catalog versions beyond it are not reached
    RedisFails     \* whether a Redis command may fail

ASSUME StockAssumption == InitialStock \in Nat /\ Edits \subseteq Int /\ Quantity \in Nat \ {0}
ASSUME CodeAssumption == Seed \notin Writers /\ Bad \notin Codes
ASSUME BoundAssumption == MaxVersion \in Nat /\ MaxLines \in Nat
ASSUME SwitchAssumption == RedisFails \in BOOLEAN

VARIABLES
    row,      \* t_product: stock, on sale or not, version of the row
    added,    \* t_product: the code of each other row and who added it
    commits,  \* history: commits so far; it names the committed state
    catalog,  \* product-service:catalog:version
    cache,    \* cache[v]: the payload under the key of catalog version v
    reader,   \* reader[r]: where the request is, its key and what it got
    writer,   \* writer[w]: where the request is and what it has read
    settled,  \* history: commits so far when the version was last bumped
    ledger    \* history: the stock the accepted reservations and edits leave

tableVars == <<row, added, commits, ledger>>
redisVars == <<catalog, cache, settled>>
vars == <<tableVars, redisVars, reader, writer>>

Rows == [stock : Nat, sale : BOOLEAN, version : Nat]
NoRow == [stock |-> 0, sale |-> TRUE, version |-> 0]

Versions == 0 .. MaxVersion
Miss == -1

\* The data lines of a CSV file: a valid product with its code, or not.
Files == UNION {[1 .. n -> Codes \cup {Bad}] : n \in 0 .. MaxLines}
\* The lines of a file that are left, by their numbers; a form is one line.
Lines == UNION {[left -> Codes] : left \in SUBSET (1 .. MaxLines + 1)}

\* blind is a history: the read of the version failed.
NewReader == [pc |-> "idle", key |-> 0, got |-> Miss, since |-> 0, blind |-> FALSE]

\* adds: the lines that passed validation and lookup, and once the request is
\* answered those it reports as imported or created.
NewWriter == [pc |-> "idle", read |-> NoRow, adds |-> <<>>]

\* Row, cache, readers and writers keep their types; the stock is never negative.
TypeOK ==
    /\ row \in Rows
    /\ added \in SUBSET (Codes \X (Writers \cup {Seed}))
    /\ commits \in Nat
    /\ catalog \in Versions
    /\ cache \in [Versions -> Nat \cup {Miss}]
    /\ reader \in [Readers -> [pc : {"idle", "lookup", "query", "store", "done"}, key : Versions,
                               got : Nat \cup {Miss}, since : Nat, blind : BOOLEAN]]
    /\ writer \in [Writers -> [pc : {"idle", "edit", "insert", "bump", "done"},
                               read : Rows, adds : Lines]]
    /\ settled \in Nat
    /\ ledger \in Int

Init ==
    /\ row = [stock |-> InitialStock, sale |-> TRUE, version |-> 0]
    /\ \E seeded \in SUBSET Codes : added = seeded \X {Seed}
    /\ commits = 0
    /\ catalog = 0
    /\ cache = [v \in Versions |-> Miss]
    /\ reader = [r \in Readers |-> NewReader]
    /\ writer = [w \in Writers |-> NewWriter]
    /\ settled = 0
    /\ ledger = InitialStock

\* Definitions named Bug... are seeded defects. No action uses them: each
\* replaces the definition after it to show that a property can fail.

----------------------------------------------------------------------------
(* Writers *)

\* A request that changes nothing: 403 without the role, 400 or 422 for a file or
\* a form that is not valid, 404, 409, or an error at the commit.
Refuse(w) ==
    /\ writer' = [writer EXCEPT ![w] = [NewWriter EXCEPT !.pc = "done"]]
    /\ UNCHANGED <<tableVars, redisVars, reader>>

Rejected(w) == writer[w].pc = "idle" /\ Refuse(w)

\* The commit of a change of the row.
CommitRow(w, new, left) ==
    /\ row' = new
    /\ ledger' = left
    /\ commits' = commits + 1
    /\ writer' = [writer EXCEPT ![w].pc = "bump", ![w].read = NoRow]
    /\ UNCHANGED <<added, redisVars, reader>>

BugReserveUnguarded == row.sale

\* WHERE status = 1 AND stock >= quantity
Reservable == row.sale /\ row.stock >= Quantity

\* reserve_stock, 409 when no row matched
Reserve(w) ==
    /\ writer[w].pc = "idle"
    /\ IF Reservable
       THEN CommitRow(w, [row EXCEPT !.stock = @ - Quantity, !.version = @ + 1], ledger - Quantity)
       ELSE Refuse(w)

\* release_stock
Release(w) ==
    /\ writer[w].pc = "idle"
    /\ CommitRow(w, [row EXCEPT !.stock = @ + Quantity, !.version = @ + 1], ledger + Quantity)

Taken(code) == \E by \in Writers \cup {Seed} : <<code, by>> \in added

\* create_product: 409 when the lookup finds the code.
CreateLookup(w, code) ==
    /\ writer[w].pc = "idle"
    /\ IF Taken(code) THEN Refuse(w)
       ELSE /\ writer' = [writer EXCEPT ![w].pc = "insert", ![w].adds = <<code>>]
            /\ UNCHANGED <<tableVars, redisVars, reader>>

\* import_products_from_csv up to its commit: lines that are not valid and codes
\* that exist are listed in the answer and skipped. All lookups see one
\* snapshot of the table, and with autoflush off not the rows that this request
\* is about to add.
ImportLookup(w, file) ==
    /\ writer[w].pc = "idle"
    /\ LET new == {n \in DOMAIN file : file[n] # Bad /\ ~Taken(file[n])} IN
       writer' = [writer EXCEPT ![w].pc = "insert", ![w].adds = Restrict(file, new)]
    /\ UNCHANGED <<tableVars, redisVars, reader>>

BugNoUniqueKey(lines) == TRUE

\* uk_product_code, for all the INSERTs of one flush: a code that another request
\* has added since the lookup, or that the file has twice, fails the flush.
KeysFree(lines) ==
    /\ \A n \in DOMAIN lines : ~Taken(lines[n])
    /\ IsInjective(lines)

\* The commit of a creation or an import, all lines or none: an IntegrityError,
\* which nobody catches, is answered with 500. An import without a line left
\* commits and bumps all the same.
Insert(w) ==
    /\ writer[w].pc = "insert"
    /\ IF KeysFree(writer[w].adds)
       THEN /\ added' = added \cup (Range(writer[w].adds) \X {w})
            /\ commits' = commits + 1
            /\ writer' = [writer EXCEPT ![w].pc = "bump"]
            /\ UNCHANGED <<row, ledger, redisVars, reader>>
       ELSE Refuse(w)

\* get_product_or_404 of an edit: the row is read in the edit's own session.
ReadForEdit(w) ==
    /\ writer[w].pc = "idle"
    /\ writer' = [writer EXCEPT ![w].pc = "edit", ![w].read = row]
    /\ UNCHANGED <<tableVars, redisVars, reader>>

BugWholeRow(old, new) == new

\* The UPDATE SQLAlchemy flushes: only the attributes that differ from the row
\* it has read; the version is always one of them.
Flush(old, new) ==
    [stock   |-> IF new.stock # old.stock THEN new.stock ELSE row.stock,
     sale    |-> IF new.sale # old.sale THEN new.sale ELSE row.sale,
     version |-> new.version]

\* The schemas of the forms: stock >= 0.
ValidStock(n) == n >= 0

\* update_product, update_product_stock, update_product_status: the form gives
\* a stock, a status or both; the others stay as they were read.
Edit(w) ==
    /\ writer[w].pc = "edit"
    /\ LET old == writer[w].read IN
       \E n \in {m \in Edits : ValidStock(m)} \cup {old.stock}, b \in BOOLEAN :
          CommitRow(w, Flush(old, [stock |-> n, sale |-> b, version |-> old.version + 1]),
                    IF n # old.stock THEN n ELSE ledger)

\* INCR of the catalog version: no payload is under its new key yet.
Incr == catalog < MaxVersion /\ catalog' = catalog + 1 /\ settled' = commits

\* bump_catalog_version, after the commit. _safe_execute swallows a failure,
\* before or after the command took effect.
Bump(w) ==
    /\ writer[w].pc = "bump"
    /\ Incr \/ (RedisFails /\ UNCHANGED <<catalog, settled>>)
    /\ writer' = [writer EXCEPT ![w].pc = "done"]
    /\ UNCHANGED <<tableVars, cache, reader>>

----------------------------------------------------------------------------
(* Readers *)

\* get_catalog_version, for the key: the version is read first, before the cache
\* and before the row. A failure counts as version 0, and so does an absent key.
ReadVersion(r) ==
    /\ reader[r].pc = "idle"
    /\ \E failed \in IF RedisFails THEN BOOLEAN ELSE {FALSE} :
          reader' = [reader EXCEPT ![r] = [NewReader EXCEPT !.pc = "lookup",
                                                            !.key = IF failed THEN 0 ELSE catalog,
                                                            !.since = settled, !.blind = failed]]
    /\ UNCHANGED <<tableVars, redisVars, writer>>

\* get_cached_json; a failure counts as a miss.
Lookup(r) ==
    /\ reader[r].pc = "lookup"
    /\ \E hit \in {cache[reader[r].key]} \cup (IF RedisFails THEN {Miss} ELSE {}) :
          reader' = [reader EXCEPT ![r].pc = IF hit = Miss THEN "query" ELSE "done",
                                   ![r].got = hit]
    /\ UNCHANGED <<tableVars, redisVars, writer>>

\* get_product_or_404 or paginate_products
Query(r) ==
    /\ reader[r].pc = "query"
    /\ reader' = [reader EXCEPT ![r].pc = "store", ![r].got = commits]
    /\ UNCHANGED <<tableVars, redisVars, writer>>

BugKeyOfNow(r) == catalog

\* The key set_cached_json stores under is the one the lookup used.
StoreKey(r) == reader[r].key

\* set_cached_json, then the answer; a failure is swallowed.
Store(r) ==
    /\ reader[r].pc = "store"
    /\ \/ cache' = [cache EXCEPT ![StoreKey(r)] = reader[r].got]
       \/ RedisFails /\ UNCHANGED cache
    /\ reader' = [reader EXCEPT ![r].pc = "done"]
    /\ UNCHANGED <<tableVars, catalog, settled, writer>>

\* The time to live that setex gave a key runs out.
Expire(v) ==
    /\ cache[v] # Miss
    /\ cache' = [cache EXCEPT ![v] = Miss]
    /\ UNCHANGED <<tableVars, catalog, settled, reader, writer>>

----------------------------------------------------------------------------

Write(w) ==
    \/ Rejected(w) \/ Reserve(w) \/ Release(w)
    \/ \E code \in Codes : CreateLookup(w, code)
    \/ \E file \in Files : ImportLookup(w, file)
    \/ Insert(w)
    \/ ReadForEdit(w) \/ Edit(w)
    \/ Bump(w)

Read(r) == ReadVersion(r) \/ Lookup(r) \/ Query(r) \/ Store(r)

Next ==
    \/ \E w \in Writers : Write(w)
    \/ \E r \in Readers : Read(r)
    \/ \E v \in Versions : Expire(v)

Spec == Init /\ [][Next]_vars

----------------------------------------------------------------------------
(* Properties *)

\* A reader whose version command was answered gets every commit that some
\* bump has followed: the version is read before the row and bumped after the
\* commit, so what is stored under a key is at least as new as the bump that
\* made the key. A bump that fails delays this until the next writer's; lookups
\* and stores that fail, and readers that fell back to version 0 and stored
\* under its key, do not disturb it.
FreshAfterWrite == \A r \in Readers :
    reader[r].pc = "done" /\ ~reader[r].blind => reader[r].got >= reader[r].since

\* An edit of another attribute that interleaves with reservations loses none:
\* the stock is what the accepted reservations, releases and stock edits leave.
NoReservationLost == row.stock = ledger

\* What create and import report is what they have added, neither more nor
\* less: with a code twice in one file or added by another request between
\* lookup and commit the request is answered with an error and has left
\* nothing. No code has two rows.
AnswersAreTrue ==
    /\ \A w \in Writers : writer[w].pc \in {"bump", "done"} =>
          /\ {code \in Codes : <<code, w>> \in added} = Range(writer[w].adds)
          /\ Cardinality(DOMAIN writer[w].adds) = Cardinality(Range(writer[w].adds))
    /\ \A one, two \in added : one[1] = two[1] => one = two

=============================================================================
