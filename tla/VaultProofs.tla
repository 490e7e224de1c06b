----------------------------- MODULE VaultProofs ----------------------------
(***************************************************************************)
(* Proofs about the save vault, for any number of clients, files and rows: *)
(* an import is stored once and whole, the account's limits hold and its   *)
(* titles are its only ones, and no client's change undoes another's.      *)
(***************************************************************************)
EXTENDS SaveVault, FiniteSetTheorems, WellFoundedInduction, TLAPS

-----------------------------------------------------------------------------
(* Imports: the one that waits has no file stored yet, and the next one    *)
(* has a name of its own.                                                  *)

IsRow(r) ==
    r = [id |-> r.id, uid |-> r.uid, rev |-> r.rev, file |-> r.file, title |-> r.title, batch |-> r.batch]

ImportInv ==
    /\ batches \in Nat /\ pending \in 0 .. batches
    /\ rows = [t \in Tables |-> rows[t]]
    /\ \A t \in Tables : \A r \in rows[t] : IsRow(r)
    /\ \A r \in Saves : r.batch \in 0 .. batches
    /\ \A r \in Saves : r.batch # 0 => r.batch # pending
    /\ ImportsOnce

Pages ==
    /\ page = [c \in Clients |-> page[c]]
    /\ \A c \in Clients : \A p \in page[c] : p.table \in Tables

\* A row that takes another's place is of the same import and file.
LEMMA RowUpdated ==
    ASSUME ImportInv, NEW t \in Tables, NEW r \in rows[t], NEW new, Updates(t, r, new),
           IsRow(new), new.batch = r.batch, new.file = r.file, UNCHANGED <<pending, batches>>
    PROVE  ImportInv'
<1> DEFINE put == [new EXCEPT !.rev = r.rev + 1]
<1>1. rows' = [rows EXCEPT ![t] = (@ \ {r}) \cup {put}]
    BY DEF Updates
<1>2. IsRow(put) /\ put.batch = r.batch /\ put.file = r.file
    BY DEF IsRow
<1> HIDE DEF put
<1>3. \A u \in Tables : rows'[u] = IF u = t THEN (rows[t] \ {r}) \cup {put} ELSE rows[u]
    BY <1>1 DEF ImportInv
<1>4. rows' = [u \in Tables |-> rows'[u]]
    BY <1>1 DEF ImportInv
<1>5. \A q \in Saves' : \E p \in Saves : q.batch = p.batch /\ q.file = p.file /\ (q = p \/ (q = put /\ p = r))
    BY <1>2, <1>3 DEF Saves, Tables
<1>6. \A q \in Saves' : q = put \/ (q \in Saves /\ q # r) \/ t # "saves"
    BY <1>3 DEF Saves, Tables
<1>7. ImportsOnce'
    <2>1. CASE t = "saves"
        BY <1>2, <1>5, <1>6, <2>1 DEF ImportInv, ImportsOnce, Saves
    <2>2. CASE t # "saves"
        BY <1>3, <2>2 DEF ImportInv, ImportsOnce, Saves, Tables
    <2> QED
        BY <2>1, <2>2
<1>8. \A u \in Tables : \A q \in rows'[u] : IsRow(q)
    BY <1>2, <1>3 DEF ImportInv
<1> QED
    BY <1>4, <1>5, <1>7, <1>8 DEF ImportInv

\* Rows that are stored are of no import, or those of the one that waited.
LEMMA RowsStored ==
    ASSUME ImportInv, NEW t \in Tables, NEW new, Stores(t, new),
           \A r \in new : IsRow(r) /\ r.batch \in {0, pending},
           \A q, r \in new : q.batch # 0 /\ q.batch = r.batch /\ q.file = r.file => q = r,
           UNCHANGED batches, pending' \in {0, pending},
           pending' = pending => \A r \in new : r.batch = 0
    PROVE  ImportInv'
<1>1. \A u \in Tables : rows'[u] = IF u = t THEN rows[t] \cup new ELSE rows[u]
    BY DEF Stores, ImportInv
<1>2. rows' = [u \in Tables |-> rows'[u]]
    BY DEF Stores, ImportInv
<1>3. \A q \in Saves' : q \in Saves \/ q \in new
    BY <1>1 DEF Saves, Tables
<1>4. ImportsOnce'
    BY <1>3 DEF ImportInv, ImportsOnce
<1>5. \A q \in Saves' : q.batch \in 0 .. batches /\ (q.batch # 0 => q.batch # pending')
    BY <1>3 DEF ImportInv
<1>6. pending' \in 0 .. batches
    BY DEF ImportInv
<1>7. \A u \in Tables : \A q \in rows'[u] : IsRow(q)
    BY <1>1 DEF ImportInv
<1> QED
    BY <1>2, <1>4, <1>5, <1>6, <1>7 DEF ImportInv

LEMMA RowsAreRows ==
    ASSUME NEW t, NEW i, NEW file, NEW base, NEW batch
    PROVE  IsRow(Row(t, i, file, base, batch)) /\ Row(t, i, file, base, batch).batch = batch
           /\ Row(t, i, file, base, batch).file = file
BY DEF Row, IsRow

LEMMA RowsMarked ==
    ASSUME NEW r, IsRow(r), NEW batch
    PROVE  /\ IsRow([r EXCEPT !.batch = batch]) /\ [r EXCEPT !.batch = batch].batch = batch
           /\ [r EXCEPT !.batch = batch].file = r.file
BY DEF IsRow

\* A page is of a table, or gone.
LEMMA PagesKept ==
    ASSUME Pages, [VaultNext]_vaultVars
    PROVE  Pages'
<1>1. ASSUME NEW c \in Clients, page' = [page EXCEPT ![c] = {}]
      PROVE  Pages'
    BY <1>1 DEF Pages
<1>2. ASSUME NEW c \in Clients, NEW t \in Tables, NEW r,
             page' = [page EXCEPT ![c] = {[table |-> t, row |-> r]}]
      PROVE  Pages'
    <2>1. page' = [d \in Clients |-> page'[d]]
        BY <1>2 DEF Pages
    <2>2. \A d \in Clients : page'[d] = IF d = c THEN {[table |-> t, row |-> r]} ELSE page[d]
        BY <1>2 DEF Pages
    <2>3. \A d \in Clients : \A p \in page'[d] : p.table \in Tables
        BY <2>2 DEF Pages
    <2> QED
        BY <2>1, <2>3 DEF Pages
<1>3. ASSUME UNCHANGED page
      PROVE  Pages'
    BY <1>3 DEF Pages
<1>4. ASSUME NEW c \in Clients, Opens(c)
      PROVE  Pages'
    BY <1>2, <1>4 DEF Opens
<1>5. ASSUME NEW c \in Clients,
             Edit(c) \/ Delete(c) \/ Replace(c) \/ ReplaceByName(c) \/ Import(c) \/ Review(c)
      PROVE  Pages'
    BY <1>1, <1>5 DEF Edit, Delete, Replace, ReplaceByName, Import, Review, Answered, Ticks
<1>6. ASSUME UNCHANGED vaultVars \/ Upload \/ Archive \/ (\E c \in Clients : Confirm(c) \/ DropImport(c))
      PROVE  Pages'
    BY <1>3, <1>6 DEF vaultVars, Upload, Archive, Confirm, DropImport
<1> QED
    BY <1>4, <1>5, <1>6 DEF VaultNext

LEMMA VaultStepKept ==
    ASSUME ImportInv, Pages, [VaultNext]_vaultVars
    PROVE  ImportInv'
<1>1. CASE Upload
    <2>1. PICK file, base \in Files : Stores("saves", {Row("saves", 1, file, base, 0)})
        BY <1>1 DEF Upload
    <2> QED
        BY <1>1, <2>1, RowsStored, RowsAreRows DEF Upload, Tables
<1>2. CASE Archive
    <2>1. Stores("archives", {Row("archives", 1, Card, Card, 0)})
        BY <1>2 DEF Archive
    <2> QED
        BY <1>2, <2>1, RowsStored, RowsAreRows DEF Archive, Tables
<1>3. ASSUME NEW t \in Tables, NEW shown, NEW r \in rows[t], Retitles(t, shown, r),
             UNCHANGED <<pending, batches>>
      PROVE  ImportInv'
    <2>1. IsRow(r)
        BY DEF ImportInv
    <2>2. CASE Updates(t, r, r)
        BY <1>3, <2>1, <2>2, RowUpdated
    <2>3. ASSUME NEW title, Updates(t, r, [r EXCEPT !.title = title])
          PROVE  ImportInv'
        <3>1. IsRow([r EXCEPT !.title = title]) /\ [r EXCEPT !.title = title].batch = r.batch
              /\ [r EXCEPT !.title = title].file = r.file
            BY <2>1 DEF IsRow
        <3> QED
            BY <1>3, <2>3, <3>1, RowUpdated
    <2> QED
        BY <1>3, <2>2, <2>3 DEF Retitles
<1>4. ASSUME NEW t \in Tables, NEW shown, NEW r \in rows[t], Overwrites(t, shown, r),
             UNCHANGED <<pending, batches>>
      PROVE  ImportInv'
    BY <1>4, RowUpdated DEF Overwrites, ImportInv
<1>5. ASSUME NEW t \in Tables, NEW shown, NEW r \in rows[t], Removes(t, shown, r),
             UNCHANGED <<pending, batches>>
      PROVE  ImportInv'
    BY <1>5 DEF Removes, ImportInv, ImportsOnce, Saves, Tables
<1>6. ASSUME NEW c \in Clients, Edit(c) \/ Delete(c) \/ Replace(c)
      PROVE  ImportInv'
    <2>1. \A p \in page[c] : p.table \in Tables
        BY DEF Pages
    <2>2. UNCHANGED <<pending, batches>>
        BY <1>6 DEF Edit, Delete, Replace, Answered
    <2>3. ASSUME NEW p \in page[c], NEW r \in rows[p.table],
                 Retitles(p.table, p.row, r) \/ Removes(p.table, p.row, r) \/ Overwrites(p.table, p.row, r)
          PROVE  ImportInv'
        BY <1>3, <1>4, <1>5, <2>1, <2>2, <2>3
    <2> QED
        BY <1>6, <2>3 DEF Edit, Delete, Replace, Met
<1>7. ASSUME NEW c \in Clients, ReplaceByName(c)
      PROVE  ImportInv'
    BY <1>4, <1>7 DEF ReplaceByName, Answered, Saves, Tables
<1>8. ASSUME NEW c \in Clients, Import(c)
      PROVE  ImportInv'
    <2>1. rows' = rows /\ batches' = batches + 1 /\ pending' = batches'
        BY <1>8 DEF Import
    <2>2. Saves' = Saves /\ (ImportsOnce => ImportsOnce')
        BY <2>1 DEF Saves, ImportsOnce
    <2> QED
        BY <2>1, <2>2 DEF ImportInv
<1>9. ASSUME NEW c \in Clients, Confirm(c)
      PROVE  ImportInv'
    <2>7. PICK v \in review[c] :
            /\ Stores("saves", Imported(pending, v.ticked))
            /\ v.batch = pending /\ pending' = 0 /\ UNCHANGED batches
        BY <1>9 DEF Confirm, Claims
    <2> DEFINE files == v.ticked
               Of(f) == [Row("saves", Cardinality({g \in files : g <= f}), f, f, 0) EXCEPT !.batch = pending]
    <2>1. /\ Stores("saves", Imported(pending, files))
          /\ pending' = 0 /\ UNCHANGED batches
        BY <2>7
    <2>4. Imported(pending, files) = {Of(f) : f \in files}
        BY DEF Imported, ImportedFrom
    <2>5. \A f \in files : IsRow(Of(f)) /\ Of(f).batch = pending /\ Of(f).file = f
        BY RowsAreRows, RowsMarked
    <2> HIDE DEF Of, files
    <2>2. \A r \in Imported(pending, files) : IsRow(r) /\ r.batch = pending
        BY <2>4, <2>5
    <2>3. \A q, r \in Imported(pending, files) : q.file = r.file => q = r
        BY <2>4, <2>5
    <2>6. "saves" \in Tables /\ (pending' = pending => pending = 0)
        BY <2>1 DEF Tables
    <2> QED
        BY <2>1, <2>2, <2>3, <2>6, RowsStored
<1>10. ASSUME NEW c \in Clients, DropImport(c)
       PROVE  ImportInv'
    BY <1>10 DEF DropImport, ImportInv, ImportsOnce, Saves
<1>11. ASSUME UNCHANGED <<rows, pending, batches>>
       PROVE  ImportInv'
    BY <1>11 DEF ImportInv, ImportsOnce, Saves
<1>12. ASSUME UNCHANGED vaultVars \/ (\E c \in Clients : Opens(c) \/ Review(c))
       PROVE  ImportInv'
    BY <1>11, <1>12 DEF vaultVars, Opens, Review
<1> QED
    BY <1>1, <1>2, <1>6, <1>7, <1>8, <1>9, <1>10, <1>12 DEF VaultNext

\* However many pages of an import are confirmed, of it or of an older one,
\* no file of it is stored twice.
THEOREM ImportsStoreOnce == VaultSpec => []ImportsOnce
<1>1. VaultInit => ImportInv /\ Pages
    BY DEF VaultInit, ImportInv, Pages, ImportsOnce, Saves, Tables
<1>2. ImportInv /\ Pages /\ [VaultNext]_vaultVars => ImportInv' /\ Pages'
    BY VaultStepKept, PagesKept
<1>3. ImportInv => ImportsOnce
    BY DEF ImportInv
<1> QED
    BY <1>1, <1>2, <1>3, PTL DEF VaultSpec

-----------------------------------------------------------------------------
(* Limits and titles: there are no more rows than were ever stored, so a   *)
(* number is left for the title of the next.                               *)

TitlesDiffer == \A q, r \in Saves : q.title = r.title => q = r

RowsSound ==
    /\ stored \in Nat
    /\ \A t \in Tables : IsFiniteSet(rows[t]) /\ Cardinality(rows[t]) <= MaxRows[t]
    /\ Cardinality(Saves) <= stored
    /\ \A r \in Saves : r.uid \in Nat /\ r.uid <= stored
    /\ TitlesDiffer

Reviews ==
    /\ review = [c \in Clients |-> review[c]]
    /\ \A c \in Clients : \A v \in review[c] : v.ticked \in SUBSET Files

LEMMA RowCounts ==
    ASSUME RowsSound, NEW t \in Tables
    PROVE  Cardinality(rows[t]) \in Nat /\ Cardinality(Saves) \in Nat /\ MaxRows[t] \in Nat
BY FS_CardinalityType, VaultAssumption DEF RowsSound, Saves, Tables

\* A non-empty set of numbers has a least one.
LEMMA LeastNumber ==
    ASSUME NEW S, S \subseteq Nat, S # {}
    PROVE  \E n \in S : \A m \in S : n <= m
<1> DEFINE R == OpToRel(<, Nat)
<1>1. \E x \in S : \A y \in S : ~ (<<y, x>> \in R)
    <2>1. IsWellFoundedOn(R, Nat)
        BY NatLessThanWellFounded
    <2> HIDE DEF R
    <2> QED
        BY <2>1, WFMin
<1>2. PICK n \in S : \A y \in S : ~ (<<y, n>> \in R)
    BY <1>1
<1>3. \A y \in S : ~ (y < n)
    BY <1>2 DEF OpToRel
<1> QED
    BY <1>3

\* The search for a title's number finds one.
LEMMA TitleIsFree ==
    ASSUME RowsSound, stored < MaxStored, NEW base
    PROVE  /\ \A r \in Saves : r.title # Numbered(base)
           /\ Numbered(base).base = base
<1> DEFINE K == 1 .. MaxStored + 1
           title(n) == [base |-> base, number |-> n]
           free == {n \in K : \A r \in Saves : r.title # title(n)}
           g == [k \in K |-> CHOOSE r \in Saves : r.title = title(k)]
<1>1. free # {}
    <2> SUFFICES ASSUME \A k \in K : \E r \in Saves : r.title = title(k)
                 PROVE  FALSE
        OBVIOUS
    <2>1. \A k \in K : g[k] \in Saves /\ g[k].title = title(k)
        OBVIOUS
    <2>2. \A j, k : title(j) = title(k) => j = k
        <3>1. \A k : title(k).number = k
            OBVIOUS
        <3> QED
            BY <3>1
    <2>3. g \in Injection(K, Saves)
        <3>1. g \in [K -> Saves]
            BY <2>1
        <3>2. \A j, k \in K : g[j] = g[k] => j = k
            BY <2>1, <2>2
        <3> HIDE DEF g, K
        <3> QED
            BY <3>1, <3>2 DEF Injection, IsInjective
    <2>4. Cardinality(K) = MaxStored + 1 /\ stored \in Nat /\ MaxStored \in Nat
        <3>1. MaxStored \in Nat /\ stored \in Nat /\ 1 \in Int /\ MaxStored + 1 \in Int
            BY VaultAssumption DEF RowsSound
        <3>2. Cardinality(1 .. MaxStored + 1) = IF 1 > MaxStored + 1 THEN 0 ELSE MaxStored + 1 - 1 + 1
            BY <3>1, FS_Interval
        <3> QED
            BY <3>1, <3>2
    <2>5. IsFiniteSet(Saves) /\ Cardinality(Saves) \in Nat /\ Cardinality(Saves) <= stored
        BY RowCounts DEF RowsSound, Saves, Tables
    <2> HIDE DEF g, K
    <2>6. Cardinality(K) <= Cardinality(Saves)
        BY <2>3, <2>5, FS_Injection
    <2> QED
        BY <2>4, <2>5, <2>6
<1>2. Min(free) \in free
    <2>1. free \subseteq Nat /\ free # {}
        BY <1>1, VaultAssumption
    <2> HIDE DEF free
    <2>2. \E n \in free : \A m \in free : n <= m
        BY <2>1, LeastNumber
    <2> QED
        BY <2>2 DEF Min
<1>3. Numbered(base) = title(Min(free))
    BY DEF Numbered
<1> HIDE DEF title
<1>4. \A r \in Saves : r.title # Numbered(base)
    BY <1>2, <1>3
<1> QED
    BY <1>3, <1>4 DEF title

\* A row that takes another's place takes no room.
LEMMA UpdateFits ==
    ASSUME ImportInv, RowsSound, NEW t \in Tables, NEW r \in rows[t], NEW new, Updates(t, r, new),
           IsRow(new), new.uid = r.uid, t = "saves" => \A q \in Saves \ {r} : q.title # new.title
    PROVE  RowsSound'
<1> DEFINE put == [new EXCEPT !.rev = r.rev + 1]
<1>1. rows' = [rows EXCEPT ![t] = (@ \ {r}) \cup {put}] /\ stored' = stored
    BY DEF Updates
<1>2. put.uid = new.uid /\ put.title = new.title
    BY DEF IsRow
<1> HIDE DEF put
<1>3. \A u \in Tables : rows'[u] = IF u = t THEN (rows[t] \ {r}) \cup {put} ELSE rows[u]
    BY <1>1 DEF ImportInv
<1>4. IsFiniteSet(rows'[t]) /\ Cardinality(rows'[t]) <= Cardinality(rows[t]) /\ Cardinality(rows'[t]) \in Nat
    <2>1. IsFiniteSet(rows[t]) /\ Cardinality(rows[t]) \in Nat
        BY RowCounts DEF RowsSound
    <2>2. IsFiniteSet(rows[t] \ {r}) /\ Cardinality(rows[t] \ {r}) = Cardinality(rows[t]) - 1
        BY <2>1, FS_RemoveElement
    <2>3. /\ IsFiniteSet((rows[t] \ {r}) \cup {put})
          /\ Cardinality((rows[t] \ {r}) \cup {put}) <= Cardinality(rows[t])
        <3> DEFINE S == rows[t] \ {r}
        <3>1. IsFiniteSet(S \cup {put}) /\ Cardinality(S \cup {put}) = IF put \in S THEN Cardinality(S) ELSE Cardinality(S) + 1
            BY <2>2, FS_AddElement
        <3> QED
            BY <2>1, <2>2, <3>1
    <2> QED
        BY <1>3, <2>3, FS_CardinalityType
<1>5. \A u \in Tables : IsFiniteSet(rows'[u]) /\ Cardinality(rows'[u]) <= MaxRows[u]
    BY <1>3, <1>4, RowCounts DEF RowsSound
<1>6. Cardinality(Saves') <= stored'
    <2>1. CASE t = "saves"
        BY <1>1, <1>4, <2>1, RowCounts DEF RowsSound, Saves
    <2>2. CASE t # "saves"
        BY <1>1, <1>3, <2>2 DEF RowsSound, Saves, Tables
    <2> QED
        BY <2>1, <2>2
<1>7. \A q \in Saves' : q \in Saves \ {r} \/ (t = "saves" /\ q = put) \/ (t # "saves" /\ q \in Saves)
    BY <1>3 DEF Saves, Tables
<1>8. \A q \in Saves' : q.uid \in Nat /\ q.uid <= stored'
    BY <1>1, <1>2, <1>7 DEF RowsSound, Saves
<1>9. TitlesDiffer'
    BY <1>2, <1>7 DEF RowsSound, TitlesDiffer
<1> QED
    BY <1>1, <1>5, <1>6, <1>8, <1>9 DEF RowsSound

\* Rows that are stored fit, with uids and titles that are new.
LEMMA StoresFit ==
    ASSUME ImportInv, RowsSound, NEW t \in Tables, NEW new, Stores(t, new), IsFiniteSet(new),
           t = "saves" => /\ \A r \in new : r.uid \in Nat /\ r.uid <= stored + Cardinality(new)
                          /\ \A r \in new : \A q \in Saves : q.title # r.title
                          /\ \A q, r \in new : q.title = r.title => q = r
    PROVE  RowsSound'
<1>1. \A u \in Tables : rows'[u] = IF u = t THEN rows[t] \cup new ELSE rows[u]
    BY DEF Stores, ImportInv
<1>2. Cardinality(new) \in Nat /\ stored' = stored + Cardinality(new) /\ stored \in Nat
    BY FS_CardinalityType DEF Stores, RowsSound
<1>3. IsFiniteSet(rows[t] \cup new) /\ Cardinality(rows[t] \cup new) <= Cardinality(rows[t]) + Cardinality(new)
    <2>1. IsFiniteSet(rows[t]) /\ Cardinality(rows[t]) \in Nat
        BY RowCounts DEF RowsSound
    <2>2. Cardinality(rows[t] \cap new) \in Nat
        BY <2>1, FS_Intersection, FS_CardinalityType
    <2> QED
        <3>1. /\ IsFiniteSet(rows[t] \cup new)
              /\ Cardinality(rows[t] \cup new) = Cardinality(rows[t]) + Cardinality(new) - Cardinality(rows[t] \cap new)
            BY <2>1, FS_Union
        <3> QED
            BY <1>2, <2>1, <2>2, <3>1
<1>4. Cardinality(rows[t] \cup new) \in Nat
    BY <1>3, FS_CardinalityType
<1>5. \A u \in Tables : IsFiniteSet(rows'[u]) /\ Cardinality(rows'[u]) <= MaxRows[u]
    <2>1. Cardinality(rows[t]) + Cardinality(new) <= MaxRows[t]
        BY DEF Stores, RoomFor
    <2>2. Cardinality(rows[t] \cup new) <= MaxRows[t]
        BY <1>2, <1>3, <1>4, <2>1, RowCounts
    <2> QED
        BY <1>1, <1>3, <2>2 DEF RowsSound
<1>6. Cardinality(Saves') <= stored'
    <2>1. CASE t = "saves"
        <3>1. Saves' = rows[t] \cup new /\ Saves = rows[t]
            BY <1>1, <2>1 DEF Saves
        <3> QED
            BY <1>2, <1>3, <1>4, <3>1, RowCounts DEF RowsSound
    <2>2. CASE t # "saves"
        <3>1. Saves' = Saves
            BY <1>1, <2>2 DEF Saves, Tables
        <3> QED
            BY <1>2, <3>1, RowCounts DEF RowsSound
    <2> QED
        BY <2>1, <2>2
<1>7. \A q \in Saves' : q \in Saves \/ (t = "saves" /\ q \in new)
    BY <1>1 DEF Saves, Tables
<1>8. \A q \in Saves' : q.uid \in Nat /\ q.uid <= stored'
    BY <1>2, <1>7 DEF RowsSound
<1>9. TitlesDiffer'
    BY <1>7 DEF RowsSound, TitlesDiffer
<1> QED
    BY <1>2, <1>5, <1>6, <1>8, <1>9 DEF RowsSound

LEMMA RemovalFits ==
    ASSUME ImportInv, RowsSound, NEW t \in Tables, NEW shown, NEW r \in rows[t], Removes(t, shown, r)
    PROVE  RowsSound'
<1>1. stored' = stored /\ \A u \in Tables : rows'[u] = IF u = t THEN rows[t] \ {r} ELSE rows[u]
    BY DEF Removes, ImportInv
<1>2. \A u \in Tables : /\ rows'[u] \subseteq rows[u] /\ IsFiniteSet(rows'[u])
                        /\ Cardinality(rows'[u]) <= Cardinality(rows[u]) /\ Cardinality(rows'[u]) \in Nat
    BY <1>1, FS_Subset, FS_CardinalityType DEF RowsSound
<1>3. \A u \in Tables : IsFiniteSet(rows'[u]) /\ Cardinality(rows'[u]) <= MaxRows[u]
    BY <1>2, RowCounts DEF RowsSound
<1>4. Cardinality(Saves') <= stored'
    BY <1>1, <1>2, RowCounts DEF RowsSound, Saves, Tables
<1>5. Saves' \subseteq Saves
    BY <1>2 DEF Saves, Tables
<1> QED
    BY <1>1, <1>3, <1>4, <1>5 DEF RowsSound, TitlesDiffer

\* The rows an import stores: as many as it has files, with uids above all
\* that were stored.
LEMMA ImportedRows ==
    ASSUME NEW files \in SUBSET Files, NEW batch, stored \in Nat
    PROVE  /\ IsFiniteSet(Imported(batch, files))
           /\ Cardinality(Imported(batch, files)) = Cardinality(files)
           /\ {r.file : r \in Imported(batch, files)} = files
           /\ \A r \in Imported(batch, files) :
                /\ r.uid \in Nat /\ r.uid > stored /\ r.uid <= stored + Cardinality(files)
                /\ r.batch = batch /\ r.file \in files /\ r.title = Numbered(r.file)
           /\ \A q, r \in Imported(batch, files) : q.file = r.file => q = r
<1> DEFINE n(f) == Cardinality({g \in files : g <= f})
           Of(f) == [Row("saves", n(f), f, f, 0) EXCEPT !.batch = batch]
           F == [f \in files |-> Of(f)]
<1>1. Imported(batch, files) = {Of(f) : f \in files}
    BY DEF Imported, ImportedFrom
<1>2. IsFiniteSet(files) /\ Cardinality(files) \in Nat
    BY VaultAssumption, FS_Subset, FS_CardinalityType
<1>3. \A f \in files : n(f) \in Nat /\ n(f) >= 1 /\ n(f) <= Cardinality(files)
    <2>1. ASSUME NEW f \in files
          PROVE  n(f) \in Nat /\ n(f) >= 1 /\ n(f) <= Cardinality(files)
        <3> DEFINE below == {g \in files : g <= f}
        <3>1. f \in below
            BY VaultAssumption
        <3>2. below \in SUBSET files
            OBVIOUS
        <3> HIDE DEF below
        <3>3. IsFiniteSet(below) /\ Cardinality(below) <= Cardinality(files) /\ Cardinality(below) \in Nat
            BY <1>2, <3>2, FS_Subset, FS_CardinalityType
        <3>4. Cardinality(below) # 0
            BY <3>1, <3>3, FS_EmptySet
        <3> QED
            BY <3>3, <3>4 DEF below
    <2> QED
        BY <2>1
<1> HIDE DEF n
<1>4. \A f \in files : /\ Of(f).uid = stored + n(f) /\ Of(f).file = f /\ Of(f).batch = batch
                       /\ Of(f).title = Numbered(f)
    BY DEF Row, Title
<1> HIDE DEF Of
<1>5. F \in Bijection(files, Imported(batch, files))
    <2>1. F \in [files -> Imported(batch, files)] /\ \A y \in Imported(batch, files) : \E f \in files : F[f] = y
        BY <1>1
    <2>2. \A f, g \in files : F[f] = F[g] => f = g
        <3>1. \A f \in files : F[f].file = f
            BY <1>4
        <3> QED
            BY <3>1
    <2> HIDE DEF F
    <2> QED
        BY <2>1, <2>2 DEF Bijection, Injection, Surjection, IsInjective
<1>6. IsFiniteSet(Imported(batch, files)) /\ Cardinality(Imported(batch, files)) = Cardinality(files)
    BY <1>2, <1>5, FS_Bijection DEF ExistsBijection
<1>7. {r.file : r \in Imported(batch, files)} = files
    BY <1>1, <1>4
<1>8. \A r \in Imported(batch, files) :
        /\ r.uid \in Nat /\ r.uid > stored /\ r.uid <= stored + Cardinality(files)
        /\ r.batch = batch /\ r.file \in files /\ r.title = Numbered(r.file)
    BY <1>1, <1>2, <1>3, <1>4
<1>9. \A q, r \in Imported(batch, files) : q.file = r.file => q = r
    BY <1>1, <1>4
<1> QED
    BY <1>6, <1>7, <1>8, <1>9

LEMMA ReviewsKept ==
    ASSUME Reviews, [VaultNext]_vaultVars
    PROVE  Reviews'
<1>1. ASSUME NEW c \in Clients, NEW seen, review' = [review EXCEPT ![c] = seen],
             \A v \in seen : v.ticked \in SUBSET Files
      PROVE  Reviews'
    <2>1. \A d \in Clients : review'[d] = IF d = c THEN seen ELSE review[d]
        BY <1>1 DEF Reviews
    <2>2. review' = [d \in Clients |-> review'[d]]
        BY <1>1 DEF Reviews
    <2> QED
        BY <1>1, <2>1, <2>2 DEF Reviews
<1>2. ASSUME NEW c \in Clients, Opens(c) \/ Confirm(c)
      PROVE  Reviews'
    BY <1>1, <1>2 DEF Opens, Confirm
<1>3. ASSUME NEW c \in Clients, Import(c) \/ Review(c)
      PROVE  Reviews'
    <2>1. PICK batch : Ticks(c, batch)
        BY <1>3 DEF Import, Review
    <2>2. PICK ticked \in SUBSET Files : review' = [review EXCEPT ![c] = {[batch |-> batch, ticked |-> ticked]}]
        BY <2>1 DEF Ticks
    <2>3. \A v \in {[batch |-> batch, ticked |-> ticked]} : v.ticked \in SUBSET Files
        OBVIOUS
    <2> QED
        BY <1>1, <2>2, <2>3
<1>4. ASSUME NEW c \in Clients, DropImport(c)
      PROVE  Reviews'
    BY <1>1, <1>4 DEF DropImport, Reviews
<1>5. ASSUME UNCHANGED review
      PROVE  Reviews'
    BY <1>5 DEF Reviews
<1>6. ASSUME \/ UNCHANGED vaultVars \/ Upload \/ Archive
             \/ \E c \in Clients : Edit(c) \/ Delete(c) \/ Replace(c) \/ ReplaceByName(c)
      PROVE  Reviews'
    BY <1>5, <1>6 DEF vaultVars, Upload, Archive, Edit, Delete, Replace, ReplaceByName, Answered
<1> QED
    BY <1>2, <1>3, <1>4, <1>6 DEF VaultNext

\* What a client does on the row it sees.
LEMMA RowStepFits ==
    ASSUME ImportInv, RowsSound, NEW t \in Tables, NEW shown, NEW r \in rows[t],
           Retitles(t, shown, r) \/ Overwrites(t, shown, r) \/ Removes(t, shown, r)
    PROVE  RowsSound'
<1>1. IsRow(r)
    BY DEF ImportInv
<1>2. CASE Updates(t, r, r)
    <2>1. t = "saves" => \A q \in Saves \ {r} : q.title # r.title
        BY DEF RowsSound, TitlesDiffer, Saves
    <2> QED
        BY <1>1, <1>2, <2>1, UpdateFits
<1>3. ASSUME NEW title, \A q \in Saves \ {r} : q.title # title, Updates(t, r, [r EXCEPT !.title = title])
      PROVE  RowsSound'
    <2>1. IsRow([r EXCEPT !.title = title]) /\ [r EXCEPT !.title = title].uid = r.uid
          /\ [r EXCEPT !.title = title].title = title
        BY <1>1 DEF IsRow
    <2> QED
        BY <1>3, <2>1, UpdateFits
<1>4. CASE Retitles(t, shown, r)
    BY <1>2, <1>3, <1>4 DEF Retitles
<1>5. CASE Overwrites(t, shown, r)
    BY <1>2, <1>5 DEF Overwrites
<1>6. CASE Removes(t, shown, r)
    BY <1>6, RemovalFits
<1> QED
    BY <1>4, <1>5, <1>6

\* A step of one row, of a page's table.
LEMMA PageStep ==
    ASSUME Pages, NEW c \in Clients, Edit(c) \/ Delete(c) \/ Replace(c) \/ ReplaceByName(c)
    PROVE  /\ UNCHANGED <<review, pending, batches>> /\ page' = [page EXCEPT ![c] = {}]
           /\ \E p \in page[c] : \E r \in rows[p.table] :
                /\ p.table \in Tables /\ r.rev = p.row.rev
                /\ \/ Retitles(p.table, p.row, r) \/ Overwrites(p.table, p.row, r)
                   \/ Removes(p.table, p.row, r)
<1>1. \A p \in page[c] : p.table \in Tables /\ Met(p) \subseteq rows[p.table]
                          /\ \A r \in Met(p) : r.rev = p.row.rev
    BY DEF Pages, Met, IsShown
<1>2. CASE Edit(c) \/ Delete(c) \/ Replace(c)
    BY <1>1, <1>2 DEF Edit, Delete, Replace, Answered
<1>3. CASE ReplaceByName(c)
    BY <1>1, <1>3 DEF ReplaceByName, Answered, Saves, Tables
<1> QED
    BY <1>2, <1>3

LEMMA RowsFit ==
    ASSUME ImportInv, Pages, Reviews, RowsSound, [VaultNext]_vaultVars
    PROVE  RowsSound'
<1>1. ASSUME NEW t \in Tables, NEW r, Stores(t, {r}),
             t = "saves" => r.uid = stored + 1 /\ \A q \in Saves : q.title # r.title
      PROVE  RowsSound'
    <2>1. IsFiniteSet({r}) /\ Cardinality({r}) = 1
        BY FS_Singleton
    <2>2. t = "saves" => r.uid \in Nat /\ r.uid <= stored + Cardinality({r})
        BY <1>1, <2>1 DEF RowsSound
    <2> QED
        BY <1>1, <2>1, <2>2, StoresFit
<1>2. CASE Upload
    <2>1. PICK file, base \in Files : Stores("saves", {Row("saves", 1, file, base, 0)})
        BY <1>2 DEF Upload
    <2> DEFINE r == Row("saves", 1, file, base, 0)
    <2>2. r.uid = stored + 1 /\ r.title = Numbered(base)
        BY DEF Row, Title
    <2>3. Stores("saves", {r})
        BY <2>1
    <2> HIDE DEF r
    <2>4. stored < MaxStored
        <3>1. stored + 1 <= MaxStored
            BY <2>3, FS_Singleton DEF Stores
        <3> QED
            BY <3>1, VaultAssumption DEF RowsSound
    <2>5. \A q \in Saves : q.title # r.title
        BY <2>2, <2>4, TitleIsFree
    <2> QED
        BY <1>1, <2>2, <2>3, <2>5 DEF Tables
<1>3. CASE Archive
    BY <1>1, <1>3 DEF Archive, Tables
<1>4. ASSUME NEW c \in Clients, Edit(c) \/ Delete(c) \/ Replace(c) \/ ReplaceByName(c)
      PROVE  RowsSound'
    BY <1>4, PageStep, RowStepFits
<1>5. ASSUME NEW c \in Clients, Confirm(c)
      PROVE  RowsSound'
    <2>1. PICK v \in review[c] : Stores("saves", Imported(v.batch, v.ticked))
        BY <1>5 DEF Confirm
    <2> DEFINE new == Imported(v.batch, v.ticked)
    <2>2. v.ticked \in SUBSET Files /\ stored \in Nat
        BY DEF Reviews, RowsSound
    <2>3. /\ IsFiniteSet(new) /\ Cardinality(new) = Cardinality(v.ticked)
          /\ \A r \in new : r.uid \in Nat /\ r.uid <= stored + Cardinality(v.ticked) /\ r.title = Numbered(r.file)
          /\ \A q, r \in new : q.file = r.file => q = r
        BY <2>2, ImportedRows
    <2>4. Stores("saves", new)
        BY <2>1
    <2> HIDE DEF new
    <2>5. CASE new = {}
        BY <2>3, <2>4, <2>5, StoresFit DEF Tables
    <2>6. CASE new # {}
        <3>1. stored < MaxStored
            <4>1. Cardinality(new) \in Nat /\ Cardinality(new) # 0
                BY <2>3, <2>6, FS_CardinalityType, FS_EmptySet
            <4> QED
                BY <2>2, <2>4, <4>1, VaultAssumption DEF Stores
        <3>2. \A r \in new : \A q \in Saves : q.title # r.title
            BY <2>3, <3>1, TitleIsFree
        <3>3. \A q, r \in new : q.title = r.title => q = r
            <4>1. \A q \in new : q.title.base = q.file
                BY <2>3, <3>1, TitleIsFree
            <4> QED
                BY <2>3, <4>1
        <3> QED
            BY <2>3, <2>4, <3>2, <3>3, StoresFit DEF Tables
    <2> QED
        BY <2>5, <2>6
<1>6. ASSUME UNCHANGED <<rows, stored>>
      PROVE  RowsSound'
    BY <1>6 DEF RowsSound, Saves, TitlesDiffer
<1>7. ASSUME \/ UNCHANGED vaultVars
             \/ \E c \in Clients : Opens(c) \/ Import(c) \/ Review(c) \/ DropImport(c)
      PROVE  RowsSound'
    BY <1>6, <1>7 DEF vaultVars, Opens, Import, Review, DropImport
<1> QED
    BY <1>2, <1>3, <1>4, <1>5, <1>7 DEF VaultNext

VaultInv == ImportInv /\ Pages /\ Reviews /\ RowsSound

\* The account stays sound: its rows, its imports and what its clients see.
THEOREM VaultInvariance == VaultSpec => []VaultInv
<1>1. VaultInit => VaultInv
    <2> SUFFICES ASSUME VaultInit
                 PROVE  VaultInv
        OBVIOUS
    <2>1. ImportInv /\ Pages
        BY DEF VaultInit, ImportInv, Pages, ImportsOnce, Saves, Tables
    <2>2. Reviews
        BY DEF VaultInit, Reviews
    <2>3. RowsSound
        BY FS_EmptySet, VaultAssumption DEF VaultInit, RowsSound, Saves, TitlesDiffer, Tables
    <2> QED
        BY <2>1, <2>2, <2>3 DEF VaultInv
<1>2. VaultInv /\ [VaultNext]_vaultVars => VaultInv'
    BY VaultStepKept, PagesKept, ReviewsKept, RowsFit DEF VaultInv
<1> QED
    BY <1>1, <1>2, PTL DEF VaultSpec

\* The account's limits hold, and no two saves have one title, whatever is
\* uploaded, imported, renamed and replaced, and in whatever order.
THEOREM RowsFitLimits == VaultSpec => []RowsWithinLimits
<1>1. VaultInv => RowsWithinLimits
    BY DEF VaultInv, RowsSound, TitlesDiffer, RowsWithinLimits
<1> QED
    BY <1>1, VaultInvariance, PTL

-----------------------------------------------------------------------------
(* What a step does to the rows that were there, and brings.               *)

\* A row step takes no row away but the one it is about.
LEMMA RowStepTakes ==
    ASSUME ImportInv, NEW t \in Tables, NEW shown, NEW r \in rows[t],
           Retitles(t, shown, r) \/ Overwrites(t, shown, r) \/ Removes(t, shown, r)
    PROVE  /\ stored' = stored
           /\ rows[t] \ rows'[t] \subseteq {r}
<1>1. PICK new : rows' = [rows EXCEPT ![t] = (@ \ {r}) \cup new] /\ stored' = stored
    <2>1. ASSUME NEW put, Updates(t, r, put)
          PROVE  \E new : rows' = [rows EXCEPT ![t] = (@ \ {r}) \cup new] /\ stored' = stored
        BY <2>1 DEF Updates
    <2>2. CASE Removes(t, shown, r)
        <3>1. rows' = [rows EXCEPT ![t] = (@ \ {r}) \cup {}] /\ stored' = stored
            BY <2>2 DEF Removes
        <3> QED
            BY <3>1
    <2> QED
        BY <2>1, <2>2 DEF Retitles, Overwrites
<1>2. rows'[t] = (rows[t] \ {r}) \cup new
    BY <1>1 DEF ImportInv
<1> QED
    BY <1>1, <1>2

\* A client has one page before it.
OnePage == \A c \in Clients : \A p, q \in page[c] : p = q

LEMMA OnePageKept ==
    ASSUME Pages, OnePage, [VaultNext]_vaultVars
    PROVE  OnePage'
<1>1. ASSUME NEW c \in Clients, NEW p, page' = [page EXCEPT ![c] = {}] \/ page' = [page EXCEPT ![c] = {p}]
      PROVE  OnePage'
    BY <1>1 DEF Pages, OnePage
<1>2. ASSUME UNCHANGED page
      PROVE  OnePage'
    BY <1>2 DEF OnePage
<1>3. ASSUME NEW c \in Clients, Opens(c)
      PROVE  OnePage'
    BY <1>1, <1>3 DEF Opens
<1>4. ASSUME NEW c \in Clients,
             Edit(c) \/ Delete(c) \/ Replace(c) \/ ReplaceByName(c) \/ Import(c) \/ Review(c)
      PROVE  OnePage'
    <2>1. page' = [page EXCEPT ![c] = {}]
        BY <1>4 DEF Edit, Delete, Replace, ReplaceByName, Import, Review, Answered, Ticks
    <2> QED
        BY <1>1, <2>1
<1>5. ASSUME UNCHANGED vaultVars \/ Upload \/ Archive \/ (\E c \in Clients : Confirm(c) \/ DropImport(c))
      PROVE  OnePage'
    BY <1>2, <1>5 DEF vaultVars, Upload, Archive, Confirm, DropImport
<1> QED
    BY <1>3, <1>4, <1>5 DEF VaultNext

DoneAsShown ==
    \A c \in Clients : \A p \in page[c] \ page'[c] : \A r \in rows[p.table] \ rows'[p.table] :
            r.uid = p.row.uid => r.rev = p.row.rev

\* What is done on a row is done on the state of it that was shown: whatever
\* other clients do between the page and the request.
THEOREM NoChangeIsLost == VaultSpec => NoLostUpdate
<1>1. VaultInit => ImportInv /\ Pages /\ OnePage
    BY DEF VaultInit, ImportInv, Pages, ImportsOnce, Saves, Tables, OnePage
<1>2. ASSUME ImportInv, Pages, OnePage, [VaultNext]_vaultVars
      PROVE  ImportInv' /\ Pages' /\ OnePage' /\ [DoneAsShown]_vaultVars
    <2>1. ImportInv' /\ Pages' /\ OnePage'
        BY <1>2, VaultStepKept, PagesKept, OnePageKept
    <2>2. ASSUME UNCHANGED page \/ UNCHANGED rows
          PROVE  DoneAsShown
        BY <2>2 DEF DoneAsShown
    <2>3. ASSUME NEW c \in Clients, Edit(c) \/ Delete(c) \/ Replace(c) \/ ReplaceByName(c)
          PROVE  DoneAsShown
        <3>5. PICK p \in page[c] : \E r \in rows[p.table] :
                /\ p.table \in Tables /\ r.rev = p.row.rev
                /\ \/ Retitles(p.table, p.row, r) \/ Overwrites(p.table, p.row, r)
                   \/ Removes(p.table, p.row, r)
            BY <1>2, <2>3, PageStep
        <3>1. PICK r \in rows[p.table] :
                /\ p.table \in Tables /\ r.rev = p.row.rev
                /\ \/ Retitles(p.table, p.row, r) \/ Overwrites(p.table, p.row, r)
                   \/ Removes(p.table, p.row, r)
            BY <3>5
        <3>2. rows[p.table] \ rows'[p.table] \subseteq {r}
            BY <1>2, <3>1, RowStepTakes
        <3>3. page' = [page EXCEPT ![c] = {}]
            BY <1>2, <2>3, PageStep
        <3>4. \A d \in Clients : \A q \in page[d] \ page'[d] : d = c /\ q = p
            BY <1>2, <3>3 DEF Pages, OnePage
        <3> QED
            BY <3>1, <3>2, <3>4 DEF DoneAsShown
    <2>4. ASSUME \/ UNCHANGED vaultVars \/ Upload \/ Archive
                 \/ \E c \in Clients : Opens(c) \/ Import(c) \/ Review(c) \/ Confirm(c) \/ DropImport(c)
          PROVE  DoneAsShown
        BY <2>2, <2>4 DEF vaultVars, Upload, Archive, Opens, Import, Review, Confirm, DropImport
    <2>5. DoneAsShown
        BY <1>2, <2>3, <2>4 DEF VaultNext
    <2> QED
        BY <2>1, <2>5
<1> QED
    BY <1>1, <1>2, PTL DEF VaultSpec, NoLostUpdate, DoneAsShown

Fresh(b) == {r \in rows'["saves"] : r.batch = b /\ r.uid > stored}

StoredWhole ==
    \A b \in 1 .. batches :
        Fresh(b) # {} =>
            \E c \in Clients : \E v \in review[c] \ review'[c] :
                v.batch = b /\ {r.file : r \in Fresh(b)} = v.ticked

\* An import is stored whole or not at all, and whoever confirms it has ticked
\* what is stored.
THEOREM ImportsAreWhole == VaultSpec => ImportsWhole
<1>1. ASSUME VaultInv, VaultInv', [VaultNext]_vaultVars
      PROVE  StoredWhole
    <2>1. ASSUME stored' = stored
          PROVE  StoredWhole
        <3>1. \A r \in rows'["saves"] : r.uid \in Nat /\ r.uid <= stored
            BY <1>1, <2>1 DEF VaultInv, RowsSound, Saves
        <3>2. \A b : Fresh(b) = {}
            BY <1>1, <3>1 DEF Fresh, VaultInv, RowsSound
        <3> QED
            BY <3>2 DEF StoredWhole
    <2>2. ASSUME Upload \/ Archive
          PROVE  StoredWhole
        <3>1. PICK t \in Tables : \E file, base : Stores(t, {Row(t, 1, file, base, 0)})
            BY <2>2 DEF Upload, Archive, Tables
        <3>2. \A file, base : Row(t, 1, file, base, 0).batch = 0
            BY DEF Row
        <3>3. \A r \in rows'["saves"] : r \in Saves \/ r.batch = 0
            BY <1>1, <3>1, <3>2 DEF Stores, VaultInv, ImportInv, Saves, Tables
        <3>4. \A b \in 1 .. batches : Fresh(b) = {}
            BY <1>1, <3>3 DEF Fresh, VaultInv, RowsSound, ImportInv
        <3> QED
            BY <3>4 DEF StoredWhole
    <2>3. ASSUME NEW c \in Clients, Confirm(c)
          PROVE  StoredWhole
        <3>1. PICK v \in review[c] : Stores("saves", Imported(v.batch, v.ticked))
            BY <2>3 DEF Confirm
        <3> DEFINE new == Imported(v.batch, v.ticked)
        <3>2. v.ticked \in SUBSET Files /\ stored \in Nat
            BY <1>1 DEF VaultInv, Reviews, RowsSound
        <3>3. /\ \A r \in new : r.uid \in Nat /\ r.uid > stored /\ r.batch = v.batch
              /\ {r.file : r \in new} = v.ticked
            BY <3>2, ImportedRows
        <3> HIDE DEF new
        <3>4. \A r : r \in rows'["saves"] <=> r \in Saves \/ r \in new
            BY <1>1, <3>1 DEF Stores, VaultInv, ImportInv, Saves, Tables, new
        <3>5. \A r \in Saves : r.uid \in Nat /\ r.uid <= stored
            BY <1>1 DEF VaultInv, RowsSound
        <3>6. \A b : Fresh(b) # {} => b = v.batch /\ Fresh(b) = new
            BY <3>2, <3>3, <3>4, <3>5 DEF Fresh
        <3>7. review'[c] = {}
            BY <1>1, <2>3 DEF Confirm, VaultInv, Reviews
        <3>8. \A b \in 1 .. batches : Fresh(b) # {} => v.batch = b /\ {r.file : r \in Fresh(b)} = v.ticked
            BY <3>3, <3>6
        <3> QED
            BY <3>7, <3>8 DEF StoredWhole
    <2>4. ASSUME NEW c \in Clients, Edit(c) \/ Delete(c) \/ Replace(c) \/ ReplaceByName(c)
          PROVE  StoredWhole
        <3>1. PICK p \in page[c] : \E r \in rows[p.table] :
                /\ p.table \in Tables
                /\ \/ Retitles(p.table, p.row, r) \/ Overwrites(p.table, p.row, r)
                   \/ Removes(p.table, p.row, r)
            BY <1>1, <2>4, PageStep DEF VaultInv
        <3>2. stored' = stored
            BY <1>1, <3>1, RowStepTakes DEF VaultInv
        <3> QED
            BY <2>1, <3>2
    <2>5. ASSUME \/ UNCHANGED vaultVars
                 \/ \E c \in Clients : Opens(c) \/ Import(c) \/ Review(c) \/ DropImport(c)
          PROVE  StoredWhole
        BY <2>1, <2>5 DEF vaultVars, Opens, Import, Review, DropImport
    <2> QED
        BY <1>1, <2>2, <2>3, <2>4, <2>5 DEF VaultNext
<1>2. VaultInv /\ VaultInv' /\ [VaultNext]_vaultVars => [StoredWhole]_vaultVars
    BY <1>1
<1>3. VaultSpec => [][VaultNext]_vaultVars
    BY PTL DEF VaultSpec
<1>4. [][StoredWhole]_vaultVars => ImportsWhole
    BY DEF StoredWhole, Fresh, ImportsWhole
<1> QED
    BY <1>2, <1>3, <1>4, VaultInvariance, PTL
=============================================================================
