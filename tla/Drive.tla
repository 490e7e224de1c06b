-------------------------------- MODULE Drive -------------------------------
(***************************************************************************)
(* The tree of a Dreambox (dcvmu.com/service/dreambox.py): the files and   *)
(* directories of one user, as consoles and the website put, make, move    *)
(* and delete them.  Each request is one SQLite transaction that finds its *)
(* path anew, so a step; one that is turned away is none.                  *)
(*                                                                         *)
(* An object is found by a path of at most MAX_DEPTH names: here it is the *)
(* object itself, if it is not too deep for a path, as one may come to be. *)
(* Names stand for what COLLATE NOCASE tells apart.  Left out: load and    *)
(* exec addresses, and the blocks of a file that is being written.         *)
(***************************************************************************)
EXTENDS Integers, FiniteSets, FiniteSetsExt

CONSTANTS
    Names,
    Sizes,          \* of files (at most MAX_FILE)
    QUOTA,          \* sizes a user may have together
    MAX_OBJECTS,
    MAX_ENTRIES,    \* of a directory
    MAX_DEPTH,
    MaxId           \* bound on the ids of objects

ASSUME DriveAssumption ==
    /\ Sizes \subseteq Nat /\ QUOTA \in Nat /\ MAX_OBJECTS \in Nat
    /\ MAX_ENTRIES \in Nat /\ MAX_DEPTH \in Nat /\ MaxId \in Nat

VARIABLE objects    \* records: id, parent, name, is_dir, size

DriveInit == objects = {}

Root == [id |-> 0, parent |-> 0, name |-> "$", is_dir |-> TRUE, size |-> 0]

Entries(dir) == {o \in objects : o.parent = dir.id}

\* The ids from an object up, as far as they go.
Above(o) ==
    LET up[n \in 0 .. MaxId] ==
            IF n = 0 THEN {o.id} ELSE up[n - 1] \cup {q.parent : q \in {p \in objects : p.id \in up[n - 1]}}
    IN  up[MaxId]

Depth(o) == Cardinality(Above(o) \ {0})

\* What a path may lead to: lookup and split_path.
Found == {o \in objects : Depth(o) <= MAX_DEPTH}
Folders == {o \in Found \cup {Root} : o.is_dir}

\* A path of a console ends in the name itself.
Directories == {o \in Folders : Depth(o) < MAX_DEPTH}
At(dir, name) == {o \in Entries(dir) : o.name = name}

NextObject == 1 + Max({0} \cup {o.id : o \in objects})

Used == MapThenSumSet(LAMBDA o : o.size, objects)

RoomForBytes(adding, replacing) == Used - replacing + adding <= QUOTA
RoomForObject(dir) ==
    Cardinality(objects) < MAX_OBJECTS /\ Cardinality(Entries(dir)) < MAX_ENTRIES

Creates(dir, name, is_dir, size) ==
    /\ RoomForObject(dir) /\ NextObject <= MaxId
    /\ objects' = objects \cup
            {[id |-> NextObject, parent |-> dir.id, name |-> name, is_dir |-> is_dir, size |-> size]}

-----------------------------------------------------------------------------
(* Requests, of a console or of the website.                               *)

\* put_file, for a commit or an upload: a file is created, or replaced.  The
\* website takes the path of the folder alone, and puts the file one deeper.
PutFile ==
    \E dir \in Folders, name \in Names, size \in Sizes :
        \/ /\ At(dir, name) = {} /\ RoomForBytes(size, 0)
           /\ Creates(dir, name, FALSE, size)
        \/ \E old \in At(dir, name) :
                /\ ~old.is_dir /\ RoomForBytes(size, old.size)
                /\ objects' = (objects \ {old}) \cup {[old EXCEPT !.size = size]}

\* The website's, too, may be one deeper.
MakeDir ==
    \E dir \in Folders, name \in Names :
        At(dir, name) = {} /\ Creates(dir, name, TRUE, 0)

IsBare(o) == Entries(o) = {}

Remove == \E o \in Found : IsBare(o) /\ objects' = objects \ {o}

OutsideParent(dir, o) == dir.id # o.id  \* mutant: only the new parent is compared

\* A directory can't go inside itself: the probe goes all the way up.
Outside(dir, o) == o.id \notin Above(dir)

AnyRoom(dir, o) == TRUE  \* mutant: a move takes no room

RoomToMove(dir, o) == dir.id # o.parent => RoomForObject(dir)

Move ==
    \E o \in Found, dir \in Directories, name \in Names :
        /\ At(dir, name) \subseteq {o}
        /\ Outside(dir, o) /\ RoomToMove(dir, o)
        /\ objects' = (objects \ {o}) \cup {[o EXCEPT !.parent = dir.id, !.name = name]}

DriveNext == PutFile \/ MakeDir \/ Remove \/ Move

DriveSpec == DriveInit /\ [][DriveNext]_objects

-----------------------------------------------------------------------------
(* What the owner of the drive may count on.                               *)

\* However directories are moved and deleted, each object is in a directory,
\* each directory is under the root, and a path means one object: nothing
\* is stored that nobody can get at by going up.
DriveIsATree ==
    \A o \in objects :
        /\ \E dir \in objects \cup {Root} : dir.is_dir /\ o.parent = dir.id
        /\ 0 \in Above(o)
        /\ \A q \in objects : (q.id = o.id \/ (q.parent = o.parent /\ q.name = o.name)) => q = o

\* The limits hold in every order of requests, replacements and moves too.
DriveWithinLimits ==
    /\ Used <= QUOTA /\ Cardinality(objects) <= MAX_OBJECTS
    /\ \A dir \in objects \cup {Root} : Cardinality(Entries(dir)) <= MAX_ENTRIES
=============================================================================
