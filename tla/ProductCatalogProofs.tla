------------------------ MODULE ProductCatalogProofs ------------------------
(***************************************************************************)
(* Theorems about ProductCatalog, for any readers, writers and codes, any  *)
(* stock, any quantity and any forms and files.                            *)
(***************************************************************************)
EXTENDS ProductCatalog, FiniteSetTheorems, TLAPS

WriterRecs == [pc : {"idle", "edit", "insert", "bump", "done"}, read : Rows, adds : Lines]
ReaderRecs == [pc : {"idle", "lookup", "query", "store", "done"}, key : Versions,
               got : Nat \cup {Miss}, since : Nat, blind : BOOLEAN]

Authors == Writers \cup {Seed}

\* The rows a request has added: none before its commit, then those it reports.
AddsInv(w) ==
    /\ writer[w].pc \in {"idle", "edit"} => writer[w].adds = <<>>
    /\ writer[w].pc \in {"idle", "edit", "insert"} => \A code \in Codes : <<code, w>> \notin added
    /\ writer[w].pc \in {"bump", "done"} =>
          /\ IsInjective(writer[w].adds)
          /\ \A code \in Codes : <<code, w>> \in added <=> code \in Range(writer[w].adds)

OneRowPerCode == \A code \in Codes, a, b \in Authors :
    <<code, a>> \in added /\ <<code, b>> \in added => a = b

TableInv == NoReservationLost /\ OneRowPerCode /\ \A w \in Writers : AddsInv(w)

\* Nothing is ahead of the catalog version, and nothing of its last bump. What
\* is under the key of the version, or is about to be stored there, is as new
\* as the bump that made the version.
Current ==
    /\ settled <= commits
    /\ \A v \in Versions : v > catalog => cache[v] = Miss
    /\ cache[catalog] # Miss => cache[catalog] >= settled
    /\ \A s \in Readers :
          /\ reader[s].key <= catalog /\ reader[s].since <= settled
          /\ reader[s].pc = "store" => reader[s].got # Miss
          /\ reader[s].pc = "store" /\ reader[s].key = catalog => reader[s].got >= settled

\* Nor does anything older come to a key while a request that read its version
\* still looks there; that holds of stores by requests that fell back to version
\* 0 as well.
KeyIsFresh(r) == reader[r].pc # "idle" /\ ~reader[r].blind =>
    /\ cache[reader[r].key] # Miss => cache[reader[r].key] >= reader[r].since
    /\ \A s \in Readers : reader[s].pc = "store" /\ reader[s].key = reader[r].key =>
          reader[s].got >= reader[r].since
    /\ reader[r].pc = "done" => reader[r].got >= reader[r].since

CacheInv == Current /\ \A r \in Readers : KeyIsFresh(r)

Inv == TypeOK /\ TableInv /\ CacheInv

----------------------------------------------------------------------------

USE DEF tableVars, redisVars

LEMMA WriterType == TypeOK => writer \in [Writers -> WriterRecs]
BY DEF TypeOK, WriterRecs

LEMMA ReaderType == TypeOK => reader \in [Readers -> ReaderRecs]
BY DEF TypeOK, ReaderRecs

LEMMA WriterTo ==
    ASSUME TypeOK, NEW w \in Writers, NEW n \in WriterRecs, writer' = [writer EXCEPT ![w] = n]
    PROVE  /\ writer' \in [Writers -> WriterRecs]
           /\ \A x \in Writers \ {w} : writer'[x] = writer[x]
           /\ writer'[w] = n
BY WriterType

LEMMA ReaderTo ==
    ASSUME TypeOK, NEW r \in Readers, NEW n \in ReaderRecs, reader' = [reader EXCEPT ![r] = n]
    PROVE  /\ reader' \in [Readers -> ReaderRecs]
           /\ \A s \in Readers \ {r} : reader'[s] = reader[s]
           /\ reader'[r] = n
BY ReaderType

\* Which functions are lines of a file.
LEMMA LineFacts ==
    /\ <<>> \in Lines /\ IsInjective(<<>>) /\ Range(<<>>) = {}
    /\ \A code \in Codes : <<code>> \in Lines
    /\ \A f \in Lines : Range(f) \subseteq Codes /\ IsFiniteSet(DOMAIN f)
    /\ \A file \in Files : \A left \in SUBSET DOMAIN file :
          (\A n \in left : file[n] # Bad) => Restrict(file, left) \in Lines
<1>1. <<>> \in Lines /\ IsInjective(<<>>) /\ Range(<<>>) = {}
  <2>1. <<>> \in [{} -> Codes] /\ DOMAIN <<>> = {}
    OBVIOUS
  <2>2. {} \in SUBSET (1 .. MaxLines + 1)
    OBVIOUS
  <2> QED
    BY <2>1, <2>2 DEF Lines, IsInjective, Range
<1>2. ASSUME NEW code \in Codes PROVE <<code>> \in Lines
  <2>1. <<code>> \in [{1} -> Codes]
    OBVIOUS
  <2>2. {1} \in SUBSET (1 .. MaxLines + 1)
    BY BoundAssumption
  <2> QED
    BY <2>1, <2>2 DEF Lines
<1>3. ASSUME NEW f \in Lines PROVE Range(f) \subseteq Codes /\ IsFiniteSet(DOMAIN f)
  <2>1. PICK left \in SUBSET (1 .. MaxLines + 1) : f \in [left -> Codes]
    BY DEF Lines
  <2>2. IsFiniteSet(1 .. MaxLines + 1)
    BY BoundAssumption, FS_Interval
  <2> QED
    BY <2>1, <2>2, FS_Subset DEF Range
<1>4. ASSUME NEW file \in Files, NEW left \in SUBSET DOMAIN file, \A n \in left : file[n] # Bad
      PROVE  Restrict(file, left) \in Lines
  <2>1. PICK n \in 0 .. MaxLines : file \in [1 .. n -> Codes \cup {Bad}]
    BY DEF Files
  <2>2. Restrict(file, left) \in [left -> Codes]
    BY <1>4, <2>1 DEF Restrict
  <2>3. left \in SUBSET (1 .. MaxLines + 1)
    BY <2>1, BoundAssumption
  <2> QED
    BY <2>2, <2>3 DEF Lines
<1> QED
  BY <1>1, <1>2, <1>3, <1>4

LEMMA InitInv == Init => Inv
<1> SUFFICES ASSUME Init PROVE Inv
  OBVIOUS
<1>1. PICK seeded \in SUBSET Codes : added = seeded \X {Seed}
  BY DEF Init
<1>2. TypeOK
  <2>1. row \in Rows /\ ledger \in Int /\ added \in SUBSET (Codes \X (Writers \cup {Seed}))
    BY <1>1, StockAssumption DEF Init, Rows
  <2>2. catalog \in Versions /\ cache \in [Versions -> Nat \cup {Miss}]
    BY BoundAssumption DEF Init, Versions
  <2>3. NewReader \in ReaderRecs
    BY <2>2 DEF Init, NewReader, ReaderRecs
  <2>4. NewWriter \in WriterRecs
    BY LineFacts DEF NewWriter, WriterRecs, NoRow, Rows
  <2> QED
    BY <2>1, <2>2, <2>3, <2>4 DEF Init, TypeOK, ReaderRecs, WriterRecs
<1>3. NoReservationLost /\ OneRowPerCode
  BY <1>1 DEF Init, NoReservationLost, OneRowPerCode
<1>4. ASSUME NEW w \in Writers PROVE AddsInv(w)
  <2>1. writer[w].pc = "idle" /\ writer[w].adds = <<>>
    BY DEF Init, NewWriter
  <2>2. \A code \in Codes : <<code, w>> \notin added
    BY <1>1, CodeAssumption
  <2> QED
    BY <2>1, <2>2 DEF AddsInv
<1>5. Current
  BY <1>2 DEF Init, Current, NewReader, TypeOK
<1>6. \A r \in Readers : KeyIsFresh(r)
  BY DEF Init, KeyIsFresh, NewReader
<1> QED
  BY <1>2, <1>3, <1>4, <1>5, <1>6 DEF Inv, TableInv, CacheInv

----------------------------------------------------------------------------
(* Writers *)

\* A step of a writer that adds no row and does not bump.
LEMMA WriterStep ==
    ASSUME Inv, NEW w \in Writers, NEW n \in WriterRecs, writer' = [writer EXCEPT ![w] = n],
           UNCHANGED <<added, redisVars, reader>>,
           row' \in Rows, ledger' \in Int, row'.stock = ledger', commits' \in Nat, commits' >= commits,
           AddsInv(w)'
    PROVE  Inv'
<1>1. writer' \in [Writers -> WriterRecs] /\ (\A x \in Writers \ {w} : writer'[x] = writer[x])
  BY WriterTo DEF Inv
<1>2. TypeOK'
  BY <1>1 DEF Inv, TypeOK, WriterRecs
<1>3. \A x \in Writers : AddsInv(x)'
  BY <1>1 DEF Inv, TableInv, AddsInv
<1>4. NoReservationLost' /\ OneRowPerCode'
  BY DEF Inv, TableInv, NoReservationLost, OneRowPerCode
<1>5. settled \in Nat /\ commits \in Nat
  BY DEF Inv, TypeOK
<1>6. Current'
  BY <1>5 DEF Inv, CacheInv, Current
<1>7. \A r \in Readers : KeyIsFresh(r)'
  BY DEF Inv, CacheInv, KeyIsFresh
<1> QED
  BY <1>2, <1>3, <1>4, <1>6, <1>7 DEF Inv, TableInv, CacheInv

\* The row, before the step.
LEMMA RowFacts ==
    ASSUME Inv
    PROVE  /\ row \in Rows /\ ledger \in Int /\ commits \in Nat
           /\ row.stock \in Nat /\ row.version \in Nat /\ row.sale \in BOOLEAN /\ row.stock = ledger
BY DEF Inv, TypeOK, TableInv, NoReservationLost, Rows

\* A step that changes no row at all.
LEMMA WriterMoves ==
    ASSUME Inv, NEW w \in Writers, NEW n \in WriterRecs, writer' = [writer EXCEPT ![w] = n],
           UNCHANGED <<tableVars, redisVars, reader>>, AddsInv(w)'
    PROVE  Inv'
<1>1. row' = row /\ ledger' = ledger /\ commits' = commits /\ UNCHANGED <<added, redisVars, reader>>
  OBVIOUS
<1>2. row' \in Rows /\ ledger' \in Int /\ row'.stock = ledger' /\ commits' \in Nat /\ commits' >= commits
  BY <1>1, RowFacts
<1> QED
  BY <1>1, <1>2, WriterStep

LEMMA RefuseInv ==
    ASSUME Inv, NEW w \in Writers, writer[w].pc \in {"idle", "insert"}, Refuse(w)
    PROVE  Inv'
<1> DEFINE n == [NewWriter EXCEPT !.pc = "done"]
<1>1. n \in WriterRecs /\ n.pc = "done" /\ n.adds = <<>>
  BY LineFacts DEF NewWriter, WriterRecs, NoRow, Rows
<1>2. writer' = [writer EXCEPT ![w] = n] /\ UNCHANGED <<tableVars, redisVars, reader>>
  BY DEF Refuse
<1> HIDE DEF n
<1>3. writer'[w] = n
  BY <1>1, <1>2, WriterTo DEF Inv
<1>4. AddsInv(w)'
  BY <1>1, <1>2, <1>3, LineFacts DEF Inv, TableInv, AddsInv
<1> QED
  BY <1>1, <1>2, <1>4, WriterMoves

LEMMA CommitRowInv ==
    ASSUME Inv, NEW w \in Writers, writer[w].pc \in {"idle", "edit"},
           NEW new \in Rows, NEW left, left = new.stock, CommitRow(w, new, left)
    PROVE  Inv'
<1> DEFINE n == [writer[w] EXCEPT !.pc = "bump", !.read = NoRow]
<1>0. writer[w] \in WriterRecs /\ writer[w].adds = <<>> /\ \A code \in Codes : <<code, w>> \notin added
  BY WriterType DEF Inv, TableInv, AddsInv
<1>1. n \in WriterRecs /\ n.pc = "bump" /\ n.adds = <<>>
  BY <1>0 DEF WriterRecs, NoRow, Rows
<1>2. writer' = [writer EXCEPT ![w] = n]
  BY <1>0, WriterType DEF Inv, CommitRow, WriterRecs
<1> HIDE DEF n
<1>3. writer'[w] = n
  BY <1>1, <1>2, WriterTo DEF Inv
<1>4. row' = new /\ ledger' = left /\ commits' = commits + 1 /\ UNCHANGED <<added, redisVars, reader>>
  BY DEF CommitRow
<1>5. AddsInv(w)'
  BY <1>0, <1>1, <1>3, <1>4, LineFacts DEF AddsInv
<1>6. new.stock \in Int /\ commits' \in Nat /\ commits' >= commits
  BY <1>4, RowFacts DEF Rows
<1> QED
  BY <1>1, <1>2, <1>4, <1>5, <1>6, WriterStep

LEMMA ReserveInv == ASSUME Inv, NEW w \in Writers, Reserve(w) PROVE Inv'
<1> DEFINE new == [row EXCEPT !.stock = @ - Quantity, !.version = @ + 1]
<1>1. CASE Reservable
  <2>0. row.stock - Quantity \in Nat /\ row.version + 1 \in Nat
    BY <1>1, RowFacts, StockAssumption DEF Reservable
  <2>1. new \in Rows /\ new.stock = ledger - Quantity
    BY <2>0, RowFacts DEF Rows
  <2> QED
    BY <1>1, <2>1, CommitRowInv DEF Reserve
<1> QED
  BY <1>1, RefuseInv DEF Reserve

LEMMA ReleaseInv == ASSUME Inv, NEW w \in Writers, Release(w) PROVE Inv'
<1> DEFINE new == [row EXCEPT !.stock = @ + Quantity, !.version = @ + 1]
<1>0. row.stock + Quantity \in Nat /\ row.version + 1 \in Nat
  BY RowFacts, StockAssumption
<1>1. new \in Rows /\ new.stock = ledger + Quantity
  BY <1>0, RowFacts DEF Rows
<1> QED
  BY <1>1, CommitRowInv DEF Release

\* The columns that an edit leaves out keep what reservations made of them.
LEMMA EditInv == ASSUME Inv, NEW w \in Writers, Edit(w) PROVE Inv'
<1> DEFINE old == writer[w].read
<1>0. old \in Rows
  BY WriterType DEF Inv, WriterRecs
<1>1. PICK m \in {m \in Edits : ValidStock(m)} \cup {old.stock}, b \in BOOLEAN :
        CommitRow(w, Flush(old, [stock |-> m, sale |-> b, version |-> old.version + 1]),
                  IF m # old.stock THEN m ELSE ledger)
  BY DEF Edit
<1> DEFINE new == Flush(old, [stock |-> m, sale |-> b, version |-> old.version + 1])
<1>2. m \in Nat /\ old.stock \in Nat /\ old.version \in Nat /\ old.sale \in BOOLEAN
  BY <1>0, StockAssumption DEF ValidStock, Rows
<1>3. new \in Rows /\ new.stock = IF m # old.stock THEN m ELSE ledger
  BY <1>2, RowFacts DEF Flush, Rows
<1> QED
  BY <1>1, <1>3, CommitRowInv DEF Edit

LEMMA ReadForEditInv == ASSUME Inv, NEW w \in Writers, ReadForEdit(w) PROVE Inv'
<1> DEFINE n == [writer[w] EXCEPT !.pc = "edit", !.read = row]
<1>0. writer[w] \in WriterRecs /\ writer[w].adds = <<>> /\ \A code \in Codes : <<code, w>> \notin added
  BY WriterType DEF Inv, TableInv, AddsInv, ReadForEdit
<1>1. n \in WriterRecs /\ n.pc = "edit" /\ n.adds = <<>>
  BY <1>0, RowFacts DEF WriterRecs
<1>2. writer' = [writer EXCEPT ![w] = n] /\ UNCHANGED <<tableVars, redisVars, reader>>
  BY <1>0, WriterType DEF Inv, ReadForEdit, WriterRecs
<1> HIDE DEF n
<1>3. writer'[w] = n
  BY <1>1, <1>2, WriterTo DEF Inv
<1>4. AddsInv(w)'
  BY <1>0, <1>1, <1>2, <1>3 DEF AddsInv
<1> QED
  BY <1>1, <1>2, <1>4, WriterMoves

\* CreateLookup and ImportLookup
LEMMA LookupInv ==
    ASSUME Inv, NEW w \in Writers, writer[w].pc = "idle", NEW lines \in Lines,
           writer' = [writer EXCEPT ![w].pc = "insert", ![w].adds = lines],
           UNCHANGED <<tableVars, redisVars, reader>>
    PROVE  Inv'
<1> DEFINE n == [writer[w] EXCEPT !.pc = "insert", !.adds = lines]
<1>0. writer[w] \in WriterRecs /\ \A code \in Codes : <<code, w>> \notin added
  BY WriterType DEF Inv, TableInv, AddsInv
<1>1. n \in WriterRecs /\ n.pc = "insert"
  BY <1>0 DEF WriterRecs
<1>2. writer' = [writer EXCEPT ![w] = n]
  BY <1>0, WriterType DEF Inv, WriterRecs
<1> HIDE DEF n
<1>3. writer'[w] = n
  BY <1>1, <1>2, WriterTo DEF Inv
<1>4. AddsInv(w)'
  BY <1>0, <1>1, <1>3 DEF AddsInv
<1> QED
  BY <1>1, <1>2, <1>4, WriterMoves

LEMMA CreateLookupInv == ASSUME Inv, NEW w \in Writers, NEW code \in Codes, CreateLookup(w, code) PROVE Inv'
<1>1. <<code>> \in Lines
  BY LineFacts
<1> QED
  BY <1>1, RefuseInv, LookupInv DEF CreateLookup

LEMMA ImportLookupInv == ASSUME Inv, NEW w \in Writers, NEW file \in Files, ImportLookup(w, file) PROVE Inv'
<1> DEFINE new == {n \in DOMAIN file : file[n] # Bad /\ ~Taken(file[n])}
<1>1. Restrict(file, new) \in Lines
  BY LineFacts
<1> QED
  BY <1>1, LookupInv DEF ImportLookup

\* The unique key: of two requests that looked for the same code one fails, and
\* so does a file that has a code twice.
LEMMA InsertInv == ASSUME Inv, NEW w \in Writers, Insert(w) PROVE Inv'
<1> DEFINE lines == writer[w].adds
           n == [writer[w] EXCEPT !.pc = "bump"]
<1>0. /\ writer[w] \in WriterRecs /\ writer[w].pc = "insert" /\ lines \in Lines
      /\ \A code \in Codes : <<code, w>> \notin added
  BY WriterType DEF Inv, TableInv, AddsInv, Insert, WriterRecs
<1>1. CASE ~KeysFree(lines)
  BY <1>0, <1>1, RefuseInv DEF Insert
<1>2. CASE KeysFree(lines)
  <2>1. n \in WriterRecs /\ n.pc = "bump" /\ n.adds = lines
    BY <1>0 DEF WriterRecs
  <2>2. /\ writer' = [writer EXCEPT ![w] = n]
        /\ added' = added \cup (Range(lines) \X {w}) /\ commits' = commits + 1
        /\ UNCHANGED <<row, ledger, redisVars, reader>>
    BY <1>0, <1>2, WriterType DEF Inv, Insert, WriterRecs
  <2>3. Range(lines) \subseteq Codes /\ IsInjective(lines) /\ \A code \in Range(lines) : ~Taken(code)
    BY <1>0, <1>2, LineFacts DEF KeysFree, Range
  <2> HIDE DEF n, lines
  <2>4. writer' \in [Writers -> WriterRecs] /\ (\A x \in Writers \ {w} : writer'[x] = writer[x]) /\ writer'[w] = n
    BY <2>1, <2>2, WriterTo DEF Inv
  <2>5. \A code \in Codes, a \in Authors :
          <<code, a>> \in added' <=> <<code, a>> \in added \/ (code \in Range(lines) /\ a = w)
    BY <2>2
  <2>6. TypeOK'
    <3>1. added' \in SUBSET (Codes \X (Writers \cup {Seed}))
      BY <2>2, <2>3 DEF Inv, TypeOK
    <3> QED
      BY <2>2, <2>4, <3>1 DEF Inv, TypeOK, WriterRecs
  <2>7. AddsInv(w)'
    BY <1>0, <2>1, <2>3, <2>4, <2>5 DEF AddsInv, Authors
  <2>8. \A x \in Writers : AddsInv(x)'
    BY <2>4, <2>5, <2>7 DEF Inv, TableInv, AddsInv, Authors
  <2>9. OneRowPerCode'
    <3>1. \A code \in Range(lines), a \in Authors : <<code, a>> \notin added
      BY <2>3 DEF Taken, Authors
    <3> QED
      BY <2>5, <3>1 DEF Inv, TableInv, OneRowPerCode
  <2>10. NoReservationLost'
    BY <2>2 DEF Inv, TableInv, NoReservationLost
  <2>11. Current' /\ \A r \in Readers : KeyIsFresh(r)'
    <3>1. settled \in Nat /\ commits \in Nat
      BY DEF Inv, TypeOK
    <3> QED
      BY <2>2, <3>1 DEF Inv, CacheInv, Current, KeyIsFresh
  <2> QED
    BY <2>6, <2>8, <2>9, <2>10, <2>11 DEF Inv, TableInv, CacheInv
<1> QED
  BY <1>1, <1>2

\* A new version: its key is empty and no reader has it.
LEMMA BumpInv == ASSUME Inv, NEW w \in Writers, Bump(w) PROVE Inv'
<1> DEFINE n == [writer[w] EXCEPT !.pc = "done"]
<1>0. writer[w] \in WriterRecs /\ writer[w].pc = "bump"
  BY WriterType DEF Inv, Bump
<1>1. n \in WriterRecs /\ n.pc = "done" /\ n.adds = writer[w].adds
  BY <1>0 DEF WriterRecs
<1>2. writer' = [writer EXCEPT ![w] = n] /\ UNCHANGED <<tableVars, cache, reader>>
  BY <1>0, WriterType DEF Inv, Bump, WriterRecs
<1> HIDE DEF n
<1>3. writer' \in [Writers -> WriterRecs] /\ (\A x \in Writers \ {w} : writer'[x] = writer[x]) /\ writer'[w] = n
  BY <1>1, <1>2, WriterTo DEF Inv
<1>4. AddsInv(w)'
  BY <1>0, <1>1, <1>2, <1>3 DEF Inv, TableInv, AddsInv
<1>5. CASE UNCHANGED <<catalog, settled>>
  BY <1>1, <1>2, <1>4, <1>5, WriterMoves
<1>6. CASE Incr
  <2>1. catalog' = catalog + 1 /\ catalog' \in Versions /\ settled' = commits /\ catalog \in Versions
    BY <1>6, BoundAssumption DEF Incr, Inv, TypeOK, Versions
  <2>2. TypeOK'
    BY <1>2, <1>3, <2>1 DEF Inv, TypeOK, WriterRecs
  <2>3. TableInv'
    BY <1>2, <1>3, <1>4 DEF Inv, TableInv, AddsInv, OneRowPerCode, NoReservationLost
  <2>4. ASSUME NEW s \in Readers
        PROVE  /\ reader'[s] = reader[s] /\ reader[s].key <= catalog /\ reader[s].since <= settled
               /\ reader[s].key \in Versions /\ reader[s].since \in Nat
               /\ reader[s].pc = "store" => reader[s].got # Miss
    BY <1>2, ReaderType DEF Inv, CacheInv, Current, ReaderRecs
  <2>5. settled \in Nat /\ commits \in Nat /\ settled <= commits
    BY DEF Inv, TypeOK, CacheInv, Current
  <2>6. \A v \in Versions : v > catalog => cache'[v] = Miss
    BY <1>2 DEF Inv, CacheInv, Current
  <2>7. catalog' > catalog /\ catalog \in Nat /\ \A v \in Versions : v \in Nat
    BY <2>1 DEF Versions
  <2>8. Current'
    <3>1. \A v \in Versions : v > catalog' => v > catalog
      BY <2>1, <2>7
    <3>2. cache'[catalog'] = Miss
      BY <2>1, <2>6, <2>7
    <3>3. \A s \in Readers : reader[s].key # catalog' /\ reader[s].key <= catalog' /\ reader[s].since <= commits
      <4> SUFFICES ASSUME NEW s \in Readers
                   PROVE  reader[s].key # catalog' /\ reader[s].key <= catalog' /\ reader[s].since <= commits
        OBVIOUS
      <4>1. reader[s].key \in Nat /\ reader[s].key <= catalog
        BY <2>4, <2>7
      <4>2. reader[s].since \in Nat /\ reader[s].since <= settled
        BY <2>4
      <4> QED
        BY <2>1, <2>5, <2>7, <4>1, <4>2
    <3> QED
      BY <1>2, <2>1, <2>4, <2>5, <2>6, <3>1, <3>2, <3>3 DEF Current
  <2>9. \A r \in Readers : KeyIsFresh(r)'
    BY <1>2 DEF Inv, CacheInv, KeyIsFresh
  <2> QED
    BY <2>2, <2>3, <2>8, <2>9 DEF Inv, CacheInv
<1> QED
  BY <1>5, <1>6 DEF Bump

----------------------------------------------------------------------------
(* Readers *)

\* A step of a reader that does not store; what it takes to the store is the row
\* as it is now.
LEMMA ReaderStep ==
    ASSUME Inv, NEW r \in Readers, NEW n \in ReaderRecs, reader' = [reader EXCEPT ![r] = n],
           UNCHANGED <<tableVars, redisVars, writer>>,
           n.key <= catalog, n.since <= settled, n.pc = "store" => n.got = commits,
           n.pc # "idle" /\ ~n.blind =>
              /\ cache[n.key] # Miss => cache[n.key] >= n.since
              /\ \A s \in Readers : reader[s].pc = "store" /\ reader[s].key = n.key => reader[s].got >= n.since
              /\ n.pc = "done" => n.got >= n.since
    PROVE  Inv'
<1>1. reader' \in [Readers -> ReaderRecs] /\ (\A s \in Readers \ {r} : reader'[s] = reader[s]) /\ reader'[r] = n
  BY ReaderTo DEF Inv
<1>2. TypeOK'
  BY <1>1 DEF Inv, TypeOK, ReaderRecs
<1>3. TableInv'
  BY DEF Inv, TableInv, AddsInv, OneRowPerCode, NoReservationLost
<1>4. /\ settled \in Nat /\ commits \in Nat /\ settled <= commits /\ n.since \in Nat
      /\ commits # Miss /\ commits >= n.since
  BY DEF Inv, TypeOK, CacheInv, Current, ReaderRecs, Miss
<1>5. \A s \in Readers : reader[s].since \in Nat /\ reader[s].since <= settled /\ commits >= reader[s].since
  BY <1>4, ReaderType DEF Inv, CacheInv, Current, ReaderRecs
<1>6. Current'
  BY <1>1, <1>4 DEF Inv, CacheInv, Current
<1>7. KeyIsFresh(r)'
  BY <1>1, <1>4 DEF KeyIsFresh
<1>8. ASSUME NEW s \in Readers \ {r} PROVE KeyIsFresh(s)'
  BY <1>1, <1>5 DEF Inv, CacheInv, KeyIsFresh
<1> QED
  BY <1>2, <1>3, <1>6, <1>7, <1>8 DEF Inv, CacheInv

LEMMA ReadVersionInv == ASSUME Inv, NEW r \in Readers, ReadVersion(r) PROVE Inv'
<1>1. PICK failed \in BOOLEAN :
        reader' = [reader EXCEPT ![r] = [NewReader EXCEPT !.pc = "lookup",
                                                          !.key = IF failed THEN 0 ELSE catalog,
                                                          !.since = settled, !.blind = failed]]
  BY DEF ReadVersion
<1> DEFINE n == [NewReader EXCEPT !.pc = "lookup", !.key = IF failed THEN 0 ELSE catalog,
                                  !.since = settled, !.blind = failed]
<1>2. catalog \in Versions /\ 0 \in Versions /\ settled \in Nat /\ catalog \in Nat
  BY BoundAssumption DEF Inv, TypeOK, Versions
<1>3. /\ n \in ReaderRecs /\ n.pc = "lookup" /\ n.since = settled /\ n.blind = failed
      /\ n.key = IF failed THEN 0 ELSE catalog
  BY <1>2 DEF NewReader, ReaderRecs
<1>4. reader' = [reader EXCEPT ![r] = n] /\ UNCHANGED <<tableVars, redisVars, writer>>
  BY <1>1 DEF ReadVersion
<1> HIDE DEF n
<1>5. n.key <= catalog /\ n.since <= settled
  BY <1>2, <1>3
<1>6. ~n.blind => /\ cache[n.key] # Miss => cache[n.key] >= n.since
                  /\ \A s \in Readers : reader[s].pc = "store" /\ reader[s].key = n.key => reader[s].got >= n.since
  BY <1>3 DEF Inv, CacheInv, Current
<1> QED
  BY <1>3, <1>4, <1>5, <1>6, ReaderStep

LEMMA LookupReadInv == ASSUME Inv, NEW r \in Readers, Lookup(r) PROVE Inv'
<1>0. reader[r] \in ReaderRecs /\ reader[r].pc = "lookup"
  BY ReaderType DEF Inv, Lookup
<1>1. PICK hit \in {cache[reader[r].key], Miss} :
        reader' = [reader EXCEPT ![r].pc = IF hit = Miss THEN "query" ELSE "done", ![r].got = hit]
  BY DEF Lookup
<1> DEFINE n == [reader[r] EXCEPT !.pc = IF hit = Miss THEN "query" ELSE "done", !.got = hit]
<1>2. hit \in Nat \cup {Miss}
  BY <1>0 DEF Inv, TypeOK, ReaderRecs
<1>3. /\ n \in ReaderRecs /\ n.key = reader[r].key /\ n.since = reader[r].since /\ n.blind = reader[r].blind
      /\ n.got = hit /\ n.pc \in {"query", "done"} /\ (n.pc = "done" => hit # Miss)
  BY <1>0, <1>2 DEF ReaderRecs
<1>4. reader' = [reader EXCEPT ![r] = n] /\ UNCHANGED <<tableVars, redisVars, writer>>
  BY <1>0, <1>1, ReaderType DEF Inv, Lookup, ReaderRecs
<1> HIDE DEF n
<1>5. KeyIsFresh(r) /\ reader[r].key <= catalog /\ reader[r].since <= settled
  BY DEF Inv, CacheInv, Current
<1>6. n.pc # "idle" /\ ~n.blind =>
              /\ cache[n.key] # Miss => cache[n.key] >= n.since
              /\ \A s \in Readers : reader[s].pc = "store" /\ reader[s].key = n.key => reader[s].got >= n.since
              /\ n.pc = "done" => n.got >= n.since
  BY <1>0, <1>1, <1>3, <1>5 DEF KeyIsFresh
<1> QED
  BY <1>3, <1>4, <1>5, <1>6, ReaderStep

LEMMA QueryInv == ASSUME Inv, NEW r \in Readers, Query(r) PROVE Inv'
<1> DEFINE n == [reader[r] EXCEPT !.pc = "store", !.got = commits]
<1>0. reader[r] \in ReaderRecs /\ reader[r].pc = "query" /\ commits \in Nat
  BY ReaderType DEF Inv, Query, TypeOK
<1>1. /\ n \in ReaderRecs /\ n.key = reader[r].key /\ n.since = reader[r].since /\ n.blind = reader[r].blind
      /\ n.got = commits /\ n.pc = "store"
  BY <1>0 DEF ReaderRecs
<1>2. reader' = [reader EXCEPT ![r] = n] /\ UNCHANGED <<tableVars, redisVars, writer>>
  BY <1>0, ReaderType DEF Inv, Query, ReaderRecs
<1> HIDE DEF n
<1>3. KeyIsFresh(r) /\ reader[r].key <= catalog /\ reader[r].since <= settled
  BY DEF Inv, CacheInv, Current
<1>4. n.pc # "idle" /\ ~n.blind =>
              /\ cache[n.key] # Miss => cache[n.key] >= n.since
              /\ \A s \in Readers : reader[s].pc = "store" /\ reader[s].key = n.key => reader[s].got >= n.since
              /\ n.pc = "done" => n.got >= n.since
  BY <1>0, <1>1, <1>3 DEF KeyIsFresh
<1> QED
  BY <1>1, <1>2, <1>3, <1>4, ReaderStep

\* What is stored is at least as new as what the readers of its key may have.
LEMMA StoreInv == ASSUME Inv, NEW r \in Readers, Store(r) PROVE Inv'
<1> DEFINE n == [reader[r] EXCEPT !.pc = "done"]
           key == reader[r].key
           got == reader[r].got
<1>0. /\ reader[r] \in ReaderRecs /\ reader[r].pc = "store" /\ key \in Versions /\ got \in Nat
      /\ UNCHANGED <<tableVars, catalog, settled, writer>>
  BY ReaderType DEF Inv, Store, CacheInv, Current, ReaderRecs
<1>1. /\ n \in ReaderRecs /\ n.key = key /\ n.since = reader[r].since /\ n.blind = reader[r].blind
      /\ n.got = got /\ n.pc = "done"
  BY <1>0 DEF ReaderRecs
<1>2. reader' = [reader EXCEPT ![r] = n]
  BY <1>0, ReaderType DEF Inv, Store, ReaderRecs
<1> HIDE DEF n
<1>3. reader' \in [Readers -> ReaderRecs] /\ (\A s \in Readers \ {r} : reader'[s] = reader[s]) /\ reader'[r] = n
  BY <1>1, <1>2, ReaderTo DEF Inv
<1>4. cache' \in [Versions -> Nat \cup {Miss}] /\ \A v \in Versions : cache'[v] = cache[v] \/ (v = key /\ cache'[v] = got)
  BY <1>0 DEF Store, StoreKey, Inv, TypeOK
<1>5. /\ key <= catalog /\ (key = catalog => got >= settled) /\ catalog \in Versions
      /\ \A s \in Readers : reader[s].pc # "idle" /\ ~reader[s].blind /\ reader[s].key = key => got >= reader[s].since
  BY <1>0 DEF Inv, TypeOK, CacheInv, Current, KeyIsFresh
<1>6. TypeOK'
  BY <1>0, <1>3, <1>4 DEF Inv, TypeOK, ReaderRecs
<1>7. TableInv'
  BY <1>0 DEF Inv, TableInv, AddsInv, OneRowPerCode, NoReservationLost
<1>8. \A s \in Readers : reader'[s].key = reader[s].key /\ reader'[s].since = reader[s].since
        /\ reader'[s].blind = reader[s].blind /\ (s # r => reader'[s] = reader[s]) /\ reader[s].key \in Versions
  BY <1>1, <1>3, ReaderType DEF Inv, ReaderRecs
<1>9. Current'
  <2>1. settled' <= commits'
    BY <1>0 DEF Inv, CacheInv, Current
  <2>2. \A v \in Versions : v > catalog' => cache'[v] = Miss
    <3>1. \A v \in Versions : v > catalog => v # key
      BY <1>0, <1>5, BoundAssumption DEF Versions
    <3> QED
      BY <1>0, <1>4, <3>1 DEF Inv, CacheInv, Current
  <2>3. cache'[catalog'] # Miss => cache'[catalog'] >= settled'
    BY <1>0, <1>4, <1>5 DEF Inv, CacheInv, Current
  <2>4. ASSUME NEW s \in Readers
        PROVE  /\ reader'[s].key <= catalog' /\ reader'[s].since <= settled'
               /\ reader'[s].pc = "store" => reader'[s].got # Miss
               /\ reader'[s].pc = "store" /\ reader'[s].key = catalog' => reader'[s].got >= settled'
    BY <1>0, <1>1, <1>3, <1>8 DEF Inv, CacheInv, Current
  <2> QED
    BY <2>1, <2>2, <2>3, <2>4 DEF Current
<1>10. ASSUME NEW s \in Readers PROVE KeyIsFresh(s)'
  <2> SUFFICES ASSUME reader'[s].pc # "idle", ~reader'[s].blind
               PROVE  /\ cache'[reader'[s].key] # Miss => cache'[reader'[s].key] >= reader'[s].since
                      /\ \A x \in Readers : reader'[x].pc = "store" /\ reader'[x].key = reader'[s].key =>
                            reader'[x].got >= reader'[s].since
                      /\ reader'[s].pc = "done" => reader'[s].got >= reader'[s].since
    BY DEF KeyIsFresh
  <2>1. reader[s].pc # "idle" /\ ~reader[s].blind /\ KeyIsFresh(s)
    BY <1>0, <1>8 DEF Inv, CacheInv
  <2>2. cache'[reader'[s].key] # Miss => cache'[reader'[s].key] >= reader'[s].since
    BY <1>4, <1>5, <1>8, <2>1 DEF KeyIsFresh
  <2>3. \A x \in Readers : reader'[x].pc = "store" => x # r
    BY <1>1, <1>3
  <2>4. \A x \in Readers : reader'[x].pc = "store" /\ reader'[x].key = reader'[s].key => reader'[x].got >= reader'[s].since
    BY <1>8, <2>1, <2>3 DEF KeyIsFresh
  <2>5. reader'[s].pc = "done" => reader'[s].got >= reader'[s].since
    <3>1. CASE s = r
      BY <1>1, <1>3, <1>5, <2>1, <3>1
    <3>2. CASE s # r
      BY <1>3, <2>1, <3>2 DEF KeyIsFresh
    <3> QED
      BY <3>1, <3>2
  <2> QED
    BY <2>2, <2>4, <2>5
<1> QED
  BY <1>6, <1>7, <1>9, <1>10 DEF Inv, CacheInv

LEMMA ExpireInv == ASSUME Inv, NEW v \in Versions, Expire(v) PROVE Inv'
<1>1. cache' \in [Versions -> Nat \cup {Miss}] /\ \A x \in Versions : cache'[x] = IF x = v THEN Miss ELSE cache[x]
  BY DEF Expire, Inv, TypeOK
<1>2. UNCHANGED <<tableVars, catalog, settled, reader, writer>>
  BY DEF Expire
<1>3. TypeOK'
  BY <1>1, <1>2 DEF Inv, TypeOK
<1>4. TableInv'
  BY <1>2 DEF Inv, TableInv, AddsInv, OneRowPerCode, NoReservationLost
<1>5. catalog \in Versions /\ \A s \in Readers : reader[s].key \in Versions
  BY ReaderType DEF Inv, TypeOK, ReaderRecs
<1>6. Current'
  BY <1>1, <1>2, <1>5 DEF Inv, CacheInv, Current
<1>7. \A r \in Readers : KeyIsFresh(r)'
  BY <1>1, <1>2, <1>5 DEF Inv, CacheInv, KeyIsFresh
<1> QED
  BY <1>3, <1>4, <1>6, <1>7 DEF Inv, CacheInv

LEMMA NextInv == Inv /\ [Next]_vars => Inv'
<1> SUFFICES ASSUME Inv, [Next]_vars PROVE Inv'
  OBVIOUS
<1>1. CASE UNCHANGED vars
  BY <1>1 DEF vars, Inv, TypeOK, TableInv, AddsInv, OneRowPerCode, NoReservationLost, CacheInv, Current, KeyIsFresh
<1>2. ASSUME NEW w \in Writers, Rejected(w) PROVE Inv'
  BY <1>2, RefuseInv DEF Rejected
<1>3. ASSUME NEW w \in Writers, Write(w) PROVE Inv'
  BY <1>2, <1>3, ReserveInv, ReleaseInv, CreateLookupInv, ImportLookupInv, InsertInv, ReadForEditInv, EditInv,
     BumpInv DEF Write
<1>4. ASSUME NEW r \in Readers, Read(r) PROVE Inv'
  BY <1>4, ReadVersionInv, LookupReadInv, QueryInv, StoreInv DEF Read
<1> QED
  BY <1>1, <1>3, <1>4, ExpireInv DEF Next

----------------------------------------------------------------------------

LEMMA SpecInv == Spec => []Inv
BY InitInv, NextInv, PTL DEF Spec

\* The stock never falls below zero, although reservations, releases and edits
\* of a row read earlier interleave, and no payload is cached under a version
\* that does not exist.
THEOREM SpecTypeOK == Spec => []TypeOK
<1>1. Inv => TypeOK
  BY DEF Inv
<1> QED
  BY <1>1, SpecInv, PTL

\* A reader whose version command was answered gets every commit that a bump
\* has followed, whatever other readers store and whichever commands fail.
THEOREM SpecFreshAfterWrite == Spec => []FreshAfterWrite
<1>1. Inv => FreshAfterWrite
  BY DEF Inv, CacheInv, KeyIsFresh, FreshAfterWrite
<1> QED
  BY <1>1, SpecInv, PTL

\* The stock is what the accepted reservations, releases and stock edits leave:
\* an edit of another column undoes none of them.
THEOREM SpecNoReservationLost == Spec => []NoReservationLost
<1>1. Inv => NoReservationLost
  BY DEF Inv, TableInv
<1> QED
  BY <1>1, SpecInv, PTL

\* What create and import report is what they have added, and no code has two
\* rows, with any requests and any files.
THEOREM SpecAnswersAreTrue == Spec => []AnswersAreTrue
<1>1. ASSUME Inv PROVE AnswersAreTrue
  <2>1. ASSUME NEW w \in Writers, writer[w].pc \in {"bump", "done"}
        PROVE  /\ {code \in Codes : <<code, w>> \in added} = Range(writer[w].adds)
               /\ Cardinality(DOMAIN writer[w].adds) = Cardinality(Range(writer[w].adds))
    <3> DEFINE f == writer[w].adds
    <3>1. f \in Lines /\ IsInjective(f)
      BY <1>1, <2>1, WriterType DEF Inv, TableInv, AddsInv, WriterRecs
    <3>2. Range(f) \subseteq Codes /\ IsFiniteSet(DOMAIN f)
      BY <3>1, LineFacts
    <3>3. {code \in Codes : <<code, w>> \in added} = Range(f)
      BY <1>1, <2>1, <3>2 DEF Inv, TableInv, AddsInv
    <3>4. PICK left \in SUBSET (1 .. MaxLines + 1) : f \in [left -> Codes]
      BY <3>1 DEF Lines
    <3> HIDE DEF f
    <3>5. f \in Surjection(DOMAIN f, Range(f)) /\ f \in Injection(DOMAIN f, Range(f))
      BY <3>1, <3>4 DEF Surjection, Injection, Range, IsInjective
    <3>6. Cardinality(DOMAIN f) = Cardinality(Range(f))
      BY <3>2, <3>5, FS_Surjection
    <3> QED
      BY <3>3, <3>6 DEF f
  <2>2. ASSUME NEW one \in added, NEW two \in added, one[1] = two[1] PROVE one = two
    <3>1. one \in Codes \X Authors /\ two \in Codes \X Authors
      BY <1>1 DEF Inv, TypeOK, Authors
    <3>2. one = <<one[1], one[2]>> /\ two = <<two[1], two[2]>> /\ one[1] \in Codes /\ one[2] \in Authors /\ two[2] \in Authors
      BY <3>1
    <3> QED
      BY <1>1, <2>2, <3>2 DEF Inv, TableInv, OneRowPerCode
  <2> QED
    BY <2>1, <2>2 DEF AnswersAreTrue
<1> QED
  BY <1>1, SpecInv, PTL

=============================================================================
