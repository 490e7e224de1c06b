------------------------------ MODULE SaveVault -----------------------------
(***************************************************************************)
(* An account of the save vault (dcvmu.com/service/app.py): its saves, its *)
(* whole-card archives, and the import it is about to confirm, as several  *)
(* clients work on them (browser tabs, consoles).  A client sees a page    *)
(* and acts on it later, when another client may have acted in between;    *)
(* one that sends a request twice is two clients with one page.            *)
(*                                                                         *)
(* A request that writes is one SQLite transaction, so one step: it takes  *)
(* effect, or is turned away and leaves all as it was, which is no step.   *)
(* A row is known by its id, and every row ever stored by its uid, which   *)
(* only the model has.  A title is a base and a number.  Left out: users   *)
(* and sessions, the hourly limits, and what is in a save.                 *)
(***************************************************************************)
EXTENDS Integers, FiniteSets, FiniteSetsExt

CONSTANTS
    Clients,        \* the clients of the account
    Files,          \* VMU filenames and the bases of titles, as numbers
    MaxRows,        \* rows an account may have: "saves" (200), "archives" (20)
    MaxStored,      \* bound on the rows ever stored
    MaxBatches,     \* bound on the imports begun
    MaxRevision     \* bound on the revisions of a row

Tables == {"saves", "archives"}
Card == 0       \* stands for the name of any archive

ASSUME VaultAssumption ==
    /\ MaxRows \in [Tables -> Nat] /\ Files \subseteq Nat \ {Card} /\ IsFiniteSet(Files)
    /\ MaxStored \in Nat /\ MaxBatches \in Nat /\ MaxRevision \in Nat

VARIABLES
    rows,       \* Tables -> the rows of the account
    page,       \* Clients -> the row and table a client has before it, or {}
    review,     \* Clients -> the import a client has before it and what it ticked, or {}
    pending,    \* the import that waits for confirmation, or 0
    stored,     \* rows ever stored
    batches     \* imports begun

vaultVars == <<rows, page, review, pending, stored, batches>>

VaultInit ==
    /\ rows = [t \in Tables |-> {}]
    /\ page = [c \in Clients |-> {}]
    /\ review = [c \in Clients |-> {}]
    /\ pending = 0 /\ stored = 0 /\ batches = 0

Saves == rows["saves"]

-----------------------------------------------------------------------------
(* Rows.                                                                   *)

\* SQLite's choice for an INTEGER PRIMARY KEY: one more than the largest.
NextId(t) == 1 + Max({0} \cup {r.id : r \in rows[t]})

\* The first free number of a title; 1 is the title by itself.
Numbered(base) ==
    [base |-> base,
     number |-> Min({n \in 1 .. MaxStored + 1 : \A r \in Saves : r.title # [base |-> base, number |-> n]})]

Title(t, base) == IF t = "saves" THEN Numbered(base) ELSE [base |-> Card, number |-> 1]

\* The i-th row of a request, whose files differ in their bases.
Row(t, i, file, base, batch) ==
    [id |-> NextId(t) + i - 1, uid |-> stored + i, rev |-> 1,
     file |-> file, title |-> Title(t, base), batch |-> batch]

RoomForOne(t, count) == Cardinality(rows[t]) < MaxRows[t]  \* mutant: looked at once a request

RoomFor(t, count) == Cardinality(rows[t]) + count <= MaxRows[t]

Stores(t, new) ==
    /\ RoomFor(t, Cardinality(new)) /\ stored + Cardinality(new) <= MaxStored
    /\ rows' = [rows EXCEPT ![t] = @ \cup new]
    /\ stored' = stored + Cardinality(new)

\* A row is put in another's place, one revision on.
Updates(t, r, new) ==
    /\ r.rev < MaxRevision
    /\ rows' = [rows EXCEPT ![t] = (@ \ {r}) \cup {[new EXCEPT !.rev = r.rev + 1]}]
    /\ UNCHANGED stored

-----------------------------------------------------------------------------
(* What a client sees, one page at a time, and does on what it has seen.   *)

\* A client stays at its page for as long as the page is true: who looks at
\* one thing and then another is two clients.
IsFree(c) ==
    /\ \A p \in page[c] : p.row \notin rows[p.table]
    /\ \A v \in review[c] : v.batch # pending

Opens(c) ==
    /\ IsFree(c)
    /\ \E t \in Tables : \E r \in rows[t] : page' = [page EXCEPT ![c] = {[table |-> t, row |-> r]}]
    /\ review' = [review EXCEPT ![c] = {}]
    /\ UNCHANGED <<rows, pending, stored, batches>>

IsAnyRevision(t, shown, r) == r.id = shown.id  \* mutant: WHERE id=? without the revision

IsShown(t, shown, r) == r.id = shown.id /\ r.rev = shown.rev

\* The rows that the request of a page meets, and its answer.
Met(p) == {r \in rows[p.table] : IsShown(p.table, p.row, r)}

Answered(c) == page' = [page EXCEPT ![c] = {}] /\ UNCHANGED <<review, pending, batches>>

\* A title is the account's only one.  A form without a title keeps the one
\* that was read.
Retitles(t, shown, r) ==
    \/ Updates(t, r, r)
    \/ /\ t = "saves"
       /\ \E base \in Files :
            LET title == [base |-> base, number |-> 1]
            IN  (\A q \in Saves \ {r} : q.title # title) /\ Updates(t, r, [r EXCEPT !.title = title])

\* edit, api_rename and archive_edit.
Edit(c) == (\E p \in page[c] : \E r \in Met(p) : Retitles(p.table, p.row, r)) /\ Answered(c)

Removes(t, shown, r) == rows' = [rows EXCEPT ![t] = @ \ {r}] /\ UNCHANGED stored

\* delete_save and archive_delete.
Delete(c) == (\E p \in page[c] : \E r \in Met(p) : Removes(p.table, p.row, r)) /\ Answered(c)

Overwrites(t, shown, r) == t = "saves" /\ r.file = shown.file /\ Updates(t, r, r)

\* upload, mode replace: the new bytes are of the file the client was shown.
Replace(c) == (\E p \in page[c] : \E r \in Met(p) : Overwrites(p.table, p.row, r)) /\ Answered(c)

\* The same from older clients, who name a title, or a file with one backup.
ReplaceByName(c) ==
    /\ \E p \in page[c] : \E r \in Saves :
            /\ p.table = "saves" /\ r.rev = p.row.rev
            /\ \/ r.title = p.row.title
               \/ /\ p.row.title = [base |-> p.row.file, number |-> 1]
                  /\ {q \in Saves : q.title = p.row.title} = {}
                  /\ {q \in Saves : q.file = p.row.file} = {r}
            /\ Overwrites("saves", p.row, r)
    /\ Answered(c)

-----------------------------------------------------------------------------
(* What comes in.                                                          *)

\* upload and studio: what mode ask turns away, mode keep stores.
Upload ==
    /\ \E file, base \in Files : Stores("saves", {Row("saves", 1, file, base, 0)})
    /\ UNCHANGED <<page, review, pending, batches>>

\* store_archive.
Archive ==
    /\ Stores("archives", {Row("archives", 1, Card, Card, 0)})
    /\ UNCHANGED <<page, review, pending, batches>>

\* A client ticks at least one file of the import before it.
Ticks(c, batch) ==
    /\ \E ticked \in SUBSET Files \ {{}} :
            review' = [review EXCEPT ![c] = {[batch |-> batch, ticked |-> ticked]}]
    /\ page' = [page EXCEPT ![c] = {}]

\* import_image: one pending import an account.  Every image has all Files.
Import(c) ==
    /\ IsFree(c) /\ batches < MaxBatches /\ batches' = batches + 1
    /\ pending' = batches' /\ Ticks(c, batches')
    /\ UNCHANGED <<rows, stored>>

\* Another client takes up the page of the pending import.
Review(c) ==
    /\ IsFree(c) /\ pending # 0 /\ Ticks(c, pending)
    /\ UNCHANGED <<rows, pending, stored, batches>>

ImportedFrom(files) == {Row("saves", Cardinality({g \in files : g <= f}), f, f, 0) : f \in files}

ImportedWhileRoom(batch, files) ==  \* mutant: the limit ends the import, which stays
    LET free == MaxRows["saves"] - Cardinality(Saves)
    IN  {[r EXCEPT !.batch = batch] : r \in ImportedFrom({f \in files : f <= free})}

Imported(batch, files) == {[r EXCEPT !.batch = batch] : r \in ImportedFrom(files)}

AnyClaim(batch) == TRUE  \* mutant: DELETE FROM imports without a look at rowcount

Claims(batch) == pending = batch

\* review_import: the import is taken away and what was ticked of it is
\* stored, or neither.
Confirm(c) ==
    /\ \E v \in review[c] :
            /\ Claims(v.batch)
            /\ Stores("saves", Imported(v.batch, v.ticked))
            /\ pending' = IF pending = v.batch THEN 0 ELSE pending
    /\ review' = [review EXCEPT ![c] = {}]
    /\ UNCHANGED <<page, batches>>

\* cancel_import by its page, and the half hour of an import being over.
DropImport(c) ==
    /\ pending # 0 /\ pending' = 0
    /\ review' = [review EXCEPT ![c] = {v \in @ : v.batch # pending}]
    /\ UNCHANGED <<rows, page, stored, batches>>

VaultNext ==
    \/ Upload \/ Archive
    \/ \E c \in Clients :
            \/ Opens(c) \/ Edit(c) \/ Delete(c) \/ Replace(c) \/ ReplaceByName(c)
            \/ Import(c) \/ Review(c) \/ Confirm(c) \/ DropImport(c)

VaultSpec == VaultInit /\ [][VaultNext]_vaultVars

-----------------------------------------------------------------------------
(* What the owner of the account may count on.                             *)

\* No change is lost: what a client does on a row is done on the state of it
\* that the client was shown, whoever edits, deletes or uploads besides.
NoLostUpdate ==
    [][\A c \in Clients : \A p \in page[c] \ page'[c] : \A r \in rows[p.table] \ rows'[p.table] :
            r.uid = p.row.uid => r.rev = p.row.rev]_vaultVars

\* A file of an import is stored once, though the import be confirmed twice
\* from two pages of it.
ImportsOnce ==
    \A q, r \in Saves : q.batch # 0 /\ q.batch = r.batch /\ q.file = r.file => q = r

\* All that was ticked of an import is stored, or none of it and the import
\* stays: a limit met halfway leaves no half of it.
ImportsWhole ==
    [][\A b \in 1 .. batches :
            LET new == {r \in rows'["saves"] : r.batch = b /\ r.uid > stored}
            IN  new # {} =>
                    \E c \in Clients : \E v \in review[c] \ review'[c] :
                        v.batch = b /\ {r.file : r \in new} = v.ticked]_vaultVars

\* The account's limits hold, for imports of many files too, and titles
\* are its only ones.
RowsWithinLimits ==
    /\ \A t \in Tables : Cardinality(rows[t]) <= MaxRows[t]
    /\ \A q, r \in Saves : q.title = r.title => q = r

\* "This save changed. Reload and review it before deleting." (app.py): what
\* is deleted is what its owner has reviewed.
DeletesWhatWasShown ==
    [][\A c \in Clients : \A p \in page[c] \ page'[c] : \A r \in rows[p.table] :
            (\A q \in rows'[p.table] : q.id # r.id) => r.uid = p.row.uid]_vaultVars
=============================================================================
