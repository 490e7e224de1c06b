----------------------------- MODULE DriveProofs ----------------------------
(***************************************************************************)
(* Proofs about the tree of a Dreambox, for any names, sizes and limits:   *)
(* it is a tree, and it stays within the limits.                           *)
(*                                                                         *)
(* Above goes up MaxId times, which is as far as anybody can: what it      *)
(* returns holds the parents of all it holds.  So the tree is treated by   *)
(* sets of ids that do: those with an object in them have the root.        *)
(***************************************************************************)
EXTENDS Drive, FiniteSetTheorems, WellFoundedInduction, TLAPS

IsObject(o) ==
    /\ o = [id |-> o.id, parent |-> o.parent, name |-> o.name, is_dir |-> o.is_dir, size |-> o.size]
    /\ o.id \in 1 .. MaxId /\ o.parent \in 0 .. MaxId /\ o.is_dir \in BOOLEAN /\ o.size \in Nat

\* A set of ids that holds the parent of each of its objects.
GoesUp(T, S) == \A p \in S : p.id \in T => p.parent \in T

\* Whoever goes up from an object comes to the root.
Rooted(S) == \A T \in SUBSET (0 .. MaxId) : GoesUp(T, S) /\ (\E o \in S : o.id \in T) => 0 \in T

Housed(S) == \A o \in S : \E dir \in S \cup {Root} : dir.is_dir /\ o.parent = dir.id
Distinct(S) == \A o, q \in S : (q.id = o.id \/ (q.parent = o.parent /\ q.name = o.name)) => q = o

TreeSound(S) == (\A o \in S : IsObject(o)) /\ Rooted(S) /\ Housed(S) /\ Distinct(S)

-----------------------------------------------------------------------------
(* Going up.                                                               *)

\* A non-empty set of numbers has a least one.
LEMMA LeastNumber ==
    ASSUME NEW S, S \subseteq Nat, S # {}
    PROVE  \E n \in S : \A m \in S : n <= m
<1> DEFINE R == OpToRel(<, Nat)
<1>1. \E x \in S : \A y \in S : ~ (<<y, x>> \in R)
    <2>1. IsWellFoundedOn(R, Nat)
        BY NatLessThanWellFounded
    <2> HIDE DEF R
    <2> QED
        BY <2>1, WFMin
<1>2. PICK n \in S : \A y \in S : ~ (<<y, n>> \in R)
    BY <1>1
<1>3. \A y \in S : ~ (y < n)
    BY <1>2 DEF OpToRel
<1> QED
    BY <1>3

\* The parents of what a set of ids names.
Parents(T, S) == {q.parent : q \in {p \in S : p.id \in T}}

\* The first steps up from an id.
StepsUp(f, m, a, S) ==
    f = [n \in 0 .. m |-> IF n = 0 THEN {a} ELSE f[n - 1] \cup Parents(f[n - 1], S)]

LEMMA StepsExist ==
    ASSUME NEW a, NEW S
    PROVE  \E f : StepsUp(f, MaxId, a, S)
<1> DEFINE bad == {m \in Nat : ~ \E f : StepsUp(f, m, a, S)}
<1>1. ASSUME bad # {}
      PROVE  FALSE
    <2>1. PICK m \in bad : \A k \in bad : m <= k
        BY <1>1, LeastNumber
    <2>2. m # 0
        <3>1. StepsUp([n \in 0 .. 0 |-> {a}], 0, a, S)
            BY DEF StepsUp
        <3> QED
            BY <2>1, <3>1
    <2>3. m \in Nat /\ m - 1 \in Nat /\ m - 1 \notin bad
        BY <2>1, <2>2
    <2>4. PICK f : StepsUp(f, m - 1, a, S)
        BY <2>3
    <2> DEFINE g == [n \in 0 .. m |-> IF n < m THEN f[n] ELSE f[m - 1] \cup Parents(f[m - 1], S)]
    <2>5. \A n \in 0 .. m : g[n] = IF n = 0 THEN {a} ELSE g[n - 1] \cup Parents(g[n - 1], S)
        <3>1. \A n \in 0 .. m - 1 : f[n] = IF n = 0 THEN {a} ELSE f[n - 1] \cup Parents(f[n - 1], S)
            BY <2>4 DEF StepsUp
        <3> SUFFICES ASSUME NEW n \in 0 .. m
                     PROVE  g[n] = IF n = 0 THEN {a} ELSE g[n - 1] \cup Parents(g[n - 1], S)
            OBVIOUS
        <3>2. CASE n = 0
            <4>1. 0 \in 0 .. m - 1 /\ 0 \in 0 .. m /\ 0 < m
                BY <2>2, <2>3
            <4>2. g[0] = f[0]
                BY <4>1
            <4> HIDE DEF g
            <4> QED
                BY <3>1, <3>2, <4>1, <4>2
        <3>3. CASE n # 0 /\ n < m
            <4>1. n \in 0 .. m - 1 /\ n - 1 \in 0 .. m /\ n - 1 < m
                BY <2>3, <3>3
            <4>2. g[n] = f[n] /\ g[n - 1] = f[n - 1]
                BY <3>3, <4>1
            <4> HIDE DEF g
            <4> QED
                BY <3>1, <3>3, <4>1, <4>2
        <3>4. CASE n = m
            <4>1. m - 1 \in 0 .. m /\ m - 1 < m /\ m \in 0 .. m /\ ~(m < m)
                BY <2>3
            <4>2. g[m] = f[m - 1] \cup Parents(f[m - 1], S) /\ g[m - 1] = f[m - 1]
                BY <4>1
            <4> HIDE DEF g
            <4> QED
                BY <2>2, <3>4, <4>2
        <3> QED
            BY <2>3, <3>2, <3>3, <3>4
    <2>6. StepsUp(g, m, a, S)
        <3>1. g = [n \in 0 .. m |-> g[n]]
            OBVIOUS
        <3> HIDE DEF g
        <3> QED
            BY <2>5, <3>1 DEF StepsUp
    <2> QED
        BY <2>1, <2>6
<1> QED
    BY <1>1, DriveAssumption

LEMMA AboveIsSteps ==
    ASSUME NEW o
    PROVE  \E f : /\ Above(o) = f[MaxId] /\ f[0] = {o.id}
                  /\ \A n \in 1 .. MaxId : f[n] = f[n - 1] \cup Parents(f[n - 1], objects)
<1> DEFINE f == CHOOSE g : StepsUp(g, MaxId, o.id, objects)
<1>1. StepsUp(f, MaxId, o.id, objects)
    BY StepsExist
<1>2. Above(o) = f[MaxId]
    BY DEF Above, StepsUp, Parents
<1> HIDE DEF f
<1>3. f[0] = {o.id} /\ \A n \in 1 .. MaxId : f[n] = f[n - 1] \cup Parents(f[n - 1], objects)
    <2>1. \A n \in 0 .. MaxId : f[n] = IF n = 0 THEN {o.id} ELSE f[n - 1] \cup Parents(f[n - 1], objects)
        BY <1>1 DEF StepsUp
    <2>2. 0 \in 0 .. MaxId /\ \A n \in 1 .. MaxId : n \in 0 .. MaxId /\ n # 0
        BY DriveAssumption
    <2> QED
        BY <2>1, <2>2
<1> QED
    BY <1>2, <1>3

\* Above goes all the way: as long as there is a parent it does not hold it
\* grows, and it cannot grow more often than there are ids.
LEMMA AboveGoesUp ==
    ASSUME \A p \in objects : IsObject(p), NEW o, o.id \in 0 .. MaxId
    PROVE  o.id \in Above(o) /\ Above(o) \in SUBSET (0 .. MaxId) /\ GoesUp(Above(o), objects)
<1>1. PICK f : /\ Above(o) = f[MaxId] /\ f[0] = {o.id}
               /\ \A n \in 1 .. MaxId : f[n] = f[n - 1] \cup Parents(f[n - 1], objects)
    BY AboveIsSteps
<1>2. \A T : Parents(T, objects) \subseteq 0 .. MaxId
    BY DEF Parents, IsObject
<1>3. MaxId \in Nat
    BY DriveAssumption
<1>4. \A n \in 0 .. MaxId : o.id \in f[n] /\ f[n] \subseteq 0 .. MaxId
    <2> DEFINE bad == {n \in 0 .. MaxId : ~(o.id \in f[n] /\ f[n] \subseteq 0 .. MaxId)}
    <2>1. ASSUME bad # {}
          PROVE  FALSE
        <3>1. bad \subseteq Nat
            BY <1>3
        <3>2. PICK n \in bad : \A m \in bad : n <= m
            BY <2>1, <3>1, LeastNumber
        <3>3. n # 0 /\ n \in Nat /\ n <= MaxId
            BY <1>1, <3>2, <1>3
        <3>4. n - 1 \in 0 .. MaxId /\ n - 1 \notin bad /\ n \in 1 .. MaxId
            BY <1>3, <3>2, <3>3
        <3> QED
            BY <1>1, <1>2, <3>2, <3>4
    <2> QED
        BY <2>1
<1>5. \A n \in 0 .. MaxId - 1 : ~GoesUp(f[n], objects) => f[n + 1] # f[n]
    BY <1>1, <1>3 DEF GoesUp, Parents
<1>6. \A n \in 0 .. MaxId - 1 : GoesUp(f[n], objects) => f[n + 1] = f[n]
    <2>1. \A n \in 0 .. MaxId - 1 : n + 1 \in 1 .. MaxId /\ n + 1 - 1 = n
        BY <1>3
    <2>2. \A T : GoesUp(T, objects) => T \cup Parents(T, objects) = T
        BY DEF GoesUp, Parents
    <2>3. ASSUME NEW n \in 0 .. MaxId - 1, GoesUp(f[n], objects)
          PROVE  f[n + 1] = f[n]
        <3>1. f[n + 1] = f[n + 1 - 1] \cup Parents(f[n + 1 - 1], objects)
            BY <1>1, <2>1
        <3>2. f[n + 1] = f[n] \cup Parents(f[n], objects)
            BY <2>1, <3>1
        <3> QED
            BY <2>2, <2>3, <3>2
    <2> QED
        BY <2>3
<1>7. ASSUME NEW n \in 0 .. MaxId, GoesUp(f[n], objects)
      PROVE  GoesUp(f[MaxId], objects)
    <2> DEFINE bad == {k \in n .. MaxId : ~GoesUp(f[k], objects)}
    <2>1. ASSUME bad # {}
          PROVE  FALSE
        <3>1. bad \subseteq Nat
            BY <1>3
        <3>2. PICK k \in bad : \A m \in bad : k <= m
            BY <2>1, <3>1, LeastNumber
        <3>3. k # n /\ k \in Nat /\ k <= MaxId /\ n <= k
            BY <1>3, <1>7, <3>2
        <3>4. k - 1 \in n .. MaxId /\ k - 1 \notin bad /\ k - 1 \in 0 .. MaxId - 1 /\ k - 1 + 1 = k
            BY <1>3, <3>2, <3>3
        <3>5. GoesUp(f[k - 1], objects)
            BY <3>4
        <3>6. f[k] = f[k - 1]
            BY <1>6, <3>4, <3>5
        <3> QED
            BY <3>2, <3>5, <3>6
    <2>2. MaxId \in n .. MaxId
        BY <1>3
    <2> QED
        BY <2>1, <2>2
<1>8. ASSUME ~GoesUp(f[MaxId], objects)
      PROVE  FALSE
    <2>1. \A n \in 0 .. MaxId : ~GoesUp(f[n], objects)
        BY <1>7, <1>8
    <2>2. \A n \in 0 .. MaxId : IsFiniteSet(f[n]) /\ Cardinality(f[n]) \in Nat
        <3>1. IsFiniteSet(0 .. MaxId)
            BY <1>3, FS_Interval
        <3>2. \A n \in 0 .. MaxId : IsFiniteSet(f[n])
            BY <1>4, <3>1, FS_Subset
        <3> QED
            BY <3>2, FS_CardinalityType
    <2>3. \A n \in 0 .. MaxId : Cardinality(f[n]) >= n + 1
        <3> DEFINE bad == {n \in 0 .. MaxId : ~(Cardinality(f[n]) >= n + 1)}
        <3>1. ASSUME bad # {}
              PROVE  FALSE
            <4>1. bad \subseteq Nat
                BY <1>3
            <4>2. PICK n \in bad : \A m \in bad : n <= m
                BY <3>1, <4>1, LeastNumber
            <4>3. n # 0 /\ n \in Nat /\ n <= MaxId
                <5>1. Cardinality(f[0]) = 1
                    BY <1>1, FS_Singleton
                <5> QED
                    BY <1>3, <4>2, <5>1
            <4>4. n - 1 \in 0 .. MaxId - 1 /\ n - 1 \in 0 .. MaxId /\ n - 1 \notin bad /\ n - 1 + 1 = n /\ n \in 1 .. MaxId
                BY <1>3, <4>2, <4>3
            <4>5. Cardinality(f[n - 1]) >= n
                BY <4>4
            <4>6. f[n - 1] \in SUBSET f[n] /\ f[n] # f[n - 1]
                BY <1>1, <1>5, <2>1, <4>4
            <4>7. Cardinality(f[n - 1]) <= Cardinality(f[n]) /\ Cardinality(f[n - 1]) # Cardinality(f[n])
                <5>1. n \in 0 .. MaxId
                    BY <4>2
                <5> QED
                    BY <2>2, <4>6, <5>1, FS_Subset
            <4>8. Cardinality(f[n - 1]) \in Nat /\ Cardinality(f[n]) \in Nat
                BY <2>2, <4>2, <4>4
            <4> QED
                BY <4>2, <4>3, <4>5, <4>7, <4>8
        <3> QED
            BY <3>1
    <2>4. MaxId \in 0 .. MaxId
        BY <1>3
    <2>5. IsFiniteSet(0 .. MaxId) /\ Cardinality(0 .. MaxId) = MaxId + 1
        <3>1. Cardinality(0 .. MaxId) = IF 0 > MaxId THEN 0 ELSE MaxId - 0 + 1
            BY <1>3, FS_Interval
        <3> QED
            BY <1>3, <3>1, FS_Interval
    <2>6. f[MaxId] = 0 .. MaxId
        <3>1. f[MaxId] \in SUBSET (0 .. MaxId)
            BY <1>4, <2>4
        <3>2. Cardinality(f[MaxId]) <= MaxId + 1
            BY <2>5, <3>1, FS_Subset
        <3>3. Cardinality(f[MaxId]) = MaxId + 1
            BY <1>3, <2>2, <2>3, <2>4, <3>2
        <3> QED
            BY <2>5, <3>1, <3>3, FS_Subset
    <2>7. GoesUp(0 .. MaxId, objects)
        BY DEF GoesUp, IsObject
    <2> QED
        BY <1>8, <2>6, <2>7
<1>9. MaxId \in 0 .. MaxId
    BY <1>3
<1> QED
    BY <1>1, <1>4, <1>8, <1>9

-----------------------------------------------------------------------------
(* What a request does to a tree.                                          *)

\* A file or directory is made, in a directory.
LEMMA TreeGrows ==
    ASSUME NEW S, TreeSound(S), NEW dir \in S \cup {Root}, dir.is_dir,
           NEW new, IsObject(new), new.parent = dir.id, \A o \in S : o.id < new.id,
           \A o \in S : ~(o.parent = dir.id /\ o.name = new.name)
    PROVE  TreeSound(S \cup {new})
<1>1. \A o \in S : IsObject(o)
    BY DEF TreeSound
<1>2. \A o \in S : o.id # new.id
    BY <1>1 DEF IsObject
<1>3. Rooted(S \cup {new})
    <2> SUFFICES ASSUME NEW T \in SUBSET (0 .. MaxId), GoesUp(T, S \cup {new}), NEW o \in S \cup {new}, o.id \in T
                 PROVE  0 \in T
        BY DEF Rooted
    <2>1. GoesUp(T, S)
        BY DEF GoesUp
    <2>2. ASSUME NEW q \in S, q.id \in T
          PROVE  0 \in T
        BY <2>1, <2>2 DEF TreeSound, Rooted
    <2>3. CASE o = new
        <3>1. dir.id \in T
            BY <2>3 DEF GoesUp
        <3>2. dir = Root => dir.id = 0
            BY DEF Root
        <3> QED
            BY <2>2, <3>1, <3>2
    <2> QED
        BY <2>2, <2>3
<1>4. Housed(S \cup {new})
    BY DEF TreeSound, Housed
<1>5. Distinct(S \cup {new})
    BY <1>2 DEF TreeSound, Distinct
<1> QED
    BY <1>1, <1>3, <1>4, <1>5 DEF TreeSound

\* An object without entries goes.
LEMMA TreeShrinks ==
    ASSUME NEW S, TreeSound(S), NEW o \in S, \A q \in S : q.parent # o.id
    PROVE  TreeSound(S \ {o})
<1>1. Rooted(S \ {o})
    <2> SUFFICES ASSUME NEW T \in SUBSET (0 .. MaxId), GoesUp(T, S \ {o}), NEW q \in S \ {o}, q.id \in T
                 PROVE  0 \in T
        BY DEF Rooted
    <2>1. GoesUp(T \ {o.id}, S)
        BY DEF GoesUp
    <2>2. q.id # o.id
        BY DEF TreeSound, Distinct
    <2>3. 0 \in T \ {o.id}
        BY <2>1, <2>2 DEF TreeSound, Rooted
    <2> QED
        BY <2>3
<1>2. Housed(S \ {o})
    BY DEF TreeSound, Housed
<1>3. Distinct(S \ {o})
    BY DEF TreeSound, Distinct
<1> QED
    BY <1>1, <1>2, <1>3 DEF TreeSound

\* A file takes another's place.
LEMMA TreeReplaced ==
    ASSUME NEW S, TreeSound(S), NEW o \in S, NEW new, IsObject(new), new.id = o.id, new.parent = o.parent,
           new.name = o.name, new.is_dir = o.is_dir
    PROVE  TreeSound((S \ {o}) \cup {new})
<1> DEFINE R == (S \ {o}) \cup {new}
<1>1. Rooted(R)
    <2> SUFFICES ASSUME NEW T \in SUBSET (0 .. MaxId), GoesUp(T, R), NEW q \in R, q.id \in T
                 PROVE  0 \in T
        BY DEF Rooted
    <2>1. GoesUp(T, S)
        BY DEF GoesUp
    <2> QED
        BY <2>1 DEF TreeSound, Rooted
<1>2. Housed(R)
    BY DEF TreeSound, Housed
<1>3. Distinct(R)
    BY DEF TreeSound, Distinct
<1> QED
    BY <1>1, <1>2, <1>3 DEF TreeSound

\* An object moves to a directory whose way up does not pass it: the way up
\* from the object goes on along that one.
LEMMA TreeMoves ==
    ASSUME NEW S, TreeSound(S), NEW o \in S, NEW dir \in S \cup {Root}, dir.is_dir,
           NEW A \in SUBSET (0 .. MaxId), GoesUp(A, S), dir.id \in A, o.id \notin A,
           NEW new, IsObject(new), new.id = o.id, new.parent = dir.id, new.is_dir = o.is_dir,
           \A q \in S \ {o} : ~(q.parent = dir.id /\ q.name = new.name)
    PROVE  TreeSound((S \ {o}) \cup {new})
<1> DEFINE R == (S \ {o}) \cup {new}
<1>1. Rooted(R)
    <2> SUFFICES ASSUME NEW T \in SUBSET (0 .. MaxId), GoesUp(T, R), NEW q \in R, q.id \in T
                 PROVE  0 \in T
        BY DEF Rooted
    <2>1. CASE o.id \notin T
        <3>1. GoesUp(T, S)
            BY <2>1 DEF GoesUp
        <3> QED
            BY <2>1, <3>1 DEF TreeSound, Rooted
    <2>2. CASE o.id \in T
        <3>1. dir.id \in T
            BY <2>2 DEF GoesUp
        <3>2. GoesUp(A \cap T, S)
            BY DEF GoesUp
        <3>3. CASE dir = Root
            BY <3>1, <3>3 DEF Root
        <3>4. CASE dir \in S
            <4>1. 0 \in A \cap T
                BY <3>1, <3>2, <3>4 DEF TreeSound, Rooted
            <4> QED
                BY <4>1
        <3> QED
            BY <3>3, <3>4
    <2> QED
        BY <2>1, <2>2
<1>2. Housed(R)
    <2>1. dir # o
        OBVIOUS
    <2> QED
        BY <2>1 DEF TreeSound, Housed
<1>3. Distinct(R)
    BY DEF TreeSound, Distinct
<1> QED
    BY <1>1, <1>2, <1>3 DEF TreeSound

\* The next id is above all.
LEMMA NextIsAbove ==
    ASSUME \A o \in objects : IsObject(o)
    PROVE  NextObject \in Nat /\ NextObject >= 1 /\ \A o \in objects : o.id < NextObject
<1> DEFINE ids == {0} \cup {o.id : o \in objects}
           below == {MaxId - i : i \in ids}
<1>1. MaxId \in Nat /\ ids \subseteq 0 .. MaxId
    BY DriveAssumption DEF IsObject
<1>2. below \subseteq Nat /\ below # {}
    <2>1. 0 \in ids
        OBVIOUS
    <2> HIDE DEF ids
    <2> QED
        BY <1>1, <2>1
<1>3. PICK b \in below : \A c \in below : b <= c
    <2> HIDE DEF below
    <2> QED
        BY <1>2, LeastNumber
<1>4. \E i \in ids : \A j \in ids : i >= j
    <2>1. PICK i \in ids : b = MaxId - i
        BY <1>3
    <2>2. \A j \in ids : b <= MaxId - j
        BY <1>3
    <2> HIDE DEF ids
    <2>3. \A j \in ids : i >= j
        BY <1>1, <2>1, <2>2
    <2> QED
        BY <2>3
<1> HIDE DEF below
<1>5. Max(ids) \in ids /\ \A j \in ids : Max(ids) >= j
    <2> HIDE DEF ids
    <2> QED
        BY <1>4 DEF Max
<1>6. Max(ids) \in Nat /\ NextObject = 1 + Max(ids)
    BY <1>1, <1>5 DEF NextObject
<1>7. \A o \in objects : o.id \in ids /\ o.id \in Nat
    BY DEF IsObject
<1> HIDE DEF ids
<1>8. \A o \in objects : Max(ids) >= o.id
    BY <1>5, <1>7
<1> QED
    BY <1>6, <1>7, <1>8

\* The directories a path leads to.
LEMMA DirectoryIs ==
    ASSUME NEW dir \in Folders
    PROVE  dir \in objects \cup {Root} /\ dir.is_dir
BY DEF Folders, Found

\* A move changes where an object is and what it is called, and nothing else.
LEMMA MovedObject ==
    ASSUME NEW o, o = [id |-> o.id, parent |-> o.parent, name |-> o.name, is_dir |-> o.is_dir, size |-> o.size],
           NEW p, NEW n, NEW x, x = [o EXCEPT !.parent = p, !.name = n]
    PROVE  /\ x.id = o.id /\ x.parent = p /\ x.name = n /\ x.is_dir = o.is_dir /\ x.size = o.size
           /\ x = [id |-> o.id, parent |-> p, name |-> n, is_dir |-> o.is_dir, size |-> o.size]
OBVIOUS

\* Each request leaves a tree.
LEMMA TreeKept ==
    ASSUME TreeSound(objects), DriveNext
    PROVE  TreeSound(objects')
<1>1. \A o \in objects : IsObject(o)
    BY DEF TreeSound
<1>2. Root.id = 0 /\ MaxId \in Nat
    BY DriveAssumption DEF Root
<1>3. \A dir \in Folders : dir.id \in 0 .. MaxId
    BY <1>1, <1>2, DirectoryIs DEF IsObject
<1>4. ASSUME NEW dir \in Folders, NEW name, NEW is_dir \in BOOLEAN, NEW size \in Nat,
             At(dir, name) = {}, Creates(dir, name, is_dir, size)
      PROVE  TreeSound(objects')
    <2> DEFINE new == [id |-> NextObject, parent |-> dir.id, name |-> name, is_dir |-> is_dir, size |-> size]
    <2>1. objects' = objects \cup {new} /\ NextObject <= MaxId
        BY <1>4 DEF Creates
    <2>2. NextObject \in 1 .. MaxId /\ \A o \in objects : o.id < NextObject
        BY <1>1, <1>2, <2>1, NextIsAbove
    <2>3. IsObject(new) /\ new.id = NextObject /\ new.parent = dir.id /\ new.name = name
        BY <1>3, <2>2 DEF IsObject
    <2> HIDE DEF new
    <2>4. \A o \in objects : ~(o.parent = dir.id /\ o.name = name)
        BY <1>4 DEF At, Entries
    <2> QED
        BY <2>1, <2>2, <2>3, <2>4, TreeGrows, DirectoryIs
<1>5. CASE PutFile
    <2>1. PICK dir \in Folders, name \in Names, size \in Sizes :
            \/ At(dir, name) = {} /\ Creates(dir, name, FALSE, size)
            \/ \E old \in At(dir, name) : objects' = (objects \ {old}) \cup {[old EXCEPT !.size = size]}
        BY <1>5 DEF PutFile
    <2>2. size \in Nat
        BY DriveAssumption
    <2>3. ASSUME NEW old \in objects, objects' = (objects \ {old}) \cup {[old EXCEPT !.size = size]}
          PROVE  TreeSound(objects')
        <3> DEFINE new == [old EXCEPT !.size = size]
        <3>1. IsObject(new) /\ new.id = old.id /\ new.parent = old.parent /\ new.name = old.name /\ new.is_dir = old.is_dir
            BY <1>1, <2>2 DEF IsObject
        <3> HIDE DEF new
        <3> QED
            BY <2>3, <3>1, TreeReplaced DEF new
    <2>4. At(dir, name) \subseteq objects
        BY DEF At, Entries
    <2> QED
        BY <1>4, <2>1, <2>2, <2>3, <2>4
<1>6. CASE MakeDir
    <2>1. PICK dir \in Folders, name \in Names : At(dir, name) = {} /\ Creates(dir, name, TRUE, 0)
        BY <1>6 DEF MakeDir
    <2> QED
        BY <1>4, <2>1
<1>7. CASE Remove
    <2>1. PICK o \in objects : IsBare(o) /\ objects' = objects \ {o}
        BY <1>7 DEF Remove, Found
    <2>2. \A q \in objects : q.parent # o.id
        BY <2>1 DEF IsBare, Entries
    <2> QED
        BY <2>1, <2>2, TreeShrinks
<1>8. CASE Move
    <2>1. PICK o \in objects, dir \in Folders, name \in Names :
            /\ At(dir, name) \subseteq {o} /\ Outside(dir, o)
            /\ objects' = (objects \ {o}) \cup {[o EXCEPT !.parent = dir.id, !.name = name]}
        BY <1>8 DEF Move, Found, Directories
    <2> DEFINE new == [o EXCEPT !.parent = dir.id, !.name = name]
    <2>2. IsObject(new) /\ new.id = o.id /\ new.parent = dir.id /\ new.name = name /\ new.is_dir = o.is_dir
        <3>1. new.id = o.id /\ new.parent = dir.id /\ new.name = name /\ new.is_dir = o.is_dir /\ new.size = o.size
              /\ new = [id |-> o.id, parent |-> dir.id, name |-> name, is_dir |-> o.is_dir, size |-> o.size]
            <4>1. new = [o EXCEPT !.parent = dir.id, !.name = name]
                OBVIOUS
            <4>2. o = [id |-> o.id, parent |-> o.parent, name |-> o.name, is_dir |-> o.is_dir, size |-> o.size]
                BY <1>1 DEF IsObject
            <4> HIDE DEF new
            <4> QED
                BY <4>1, <4>2, MovedObject
        <3> HIDE DEF new
        <3> QED
            BY <1>1, <1>3, <3>1 DEF IsObject
    <2>3. objects' = (objects \ {o}) \cup {new}
        BY <2>1
    <2> HIDE DEF new
    <2>4. \A q \in objects \ {o} : ~(q.parent = dir.id /\ q.name = new.name)
        BY <2>1, <2>2 DEF At, Entries
    <2>5. Above(dir) \in SUBSET (0 .. MaxId) /\ GoesUp(Above(dir), objects) /\ dir.id \in Above(dir)
        BY <1>1, <1>3, AboveGoesUp
    <2>6. o.id \notin Above(dir)
        BY <2>1 DEF Outside
    <2> QED
        BY <2>2, <2>3, <2>4, <2>5, <2>6, TreeMoves, DirectoryIs
<1> QED
    BY <1>5, <1>6, <1>7, <1>8 DEF DriveNext

\* The tree stays sound.
THEOREM TreeInvariance == DriveSpec => []TreeSound(objects)
<1>1. DriveInit => TreeSound(objects)
    BY DEF DriveInit, TreeSound, Rooted, Housed, Distinct
<1>2. TreeSound(objects) /\ [DriveNext]_objects => TreeSound(objects)'
    <2>1. CASE UNCHANGED objects
        BY <2>1
    <2> QED
        BY <2>1, TreeKept
<1> QED
    BY <1>1, <1>2, PTL DEF DriveSpec

\* However objects are moved and removed, in whatever order of requests, the
\* drive is a tree: whoever goes up comes to the root.
THEOREM DriveStaysATree == DriveSpec => []DriveIsATree
<1>1. ASSUME TreeSound(objects)
      PROVE  DriveIsATree
    <2>1. ASSUME NEW o \in objects
          PROVE  0 \in Above(o)
        <3>1. o.id \in 0 .. MaxId
            BY <1>1 DEF TreeSound, IsObject
        <3>2. o.id \in Above(o) /\ Above(o) \in SUBSET (0 .. MaxId) /\ GoesUp(Above(o), objects)
            BY <1>1, <3>1, AboveGoesUp DEF TreeSound
        <3> QED
            BY <1>1, <3>2 DEF TreeSound, Rooted
    <2> QED
        BY <1>1, <2>1 DEF TreeSound, Housed, Distinct, DriveIsATree
<1> QED
    BY <1>1, TreeInvariance, PTL

-----------------------------------------------------------------------------
(* The sum of the sizes of objects.  The community modules' sum goes       *)
(* through a set in an order nobody chose: what follows says that it does  *)
(* not depend on it.                                                       *)

Pick(s) == CHOOSE x \in s : TRUE

\* What the sum says of a set, given what it says of its parts.
SumFrom(f, s) == IF s = {} THEN 0 ELSE Pick(s).size + f[s \ {Pick(s)}]

Sums(f, U) == f = [s \in SUBSET U |-> SumFrom(f, s)]

SumOf(S) == (CHOOSE f : Sums(f, S))[S]

Small(U, m) == {s \in SUBSET U : Cardinality(s) <= m}

\* Taking one out of a finite set.
LEMMA Without ==
    ASSUME NEW U, IsFiniteSet(U), NEW s \in SUBSET U
    PROVE  /\ IsFiniteSet(s) /\ Cardinality(s) \in Nat /\ Cardinality(s) <= Cardinality(U)
           /\ \A y \in s : Cardinality(s \ {y}) = Cardinality(s) - 1
           /\ s # {} => Pick(s) \in s /\ Cardinality(s) > 0
           /\ \A y \in U \ s : Cardinality(s \cup {y}) = Cardinality(s) + 1
<1>1. IsFiniteSet(s) /\ Cardinality(s) <= Cardinality(U)
    BY FS_Subset
<1>2. Cardinality(s) \in Nat /\ (s # {} => Cardinality(s) # 0)
    BY <1>1, FS_CardinalityType, FS_EmptySet
<1>3. \A y \in s : Cardinality(s \ {y}) = Cardinality(s) - 1
    BY <1>1, FS_RemoveElement
<1>4. \A y \in U \ s : Cardinality(s \cup {y}) = Cardinality(s) + 1
    BY <1>1, FS_AddElement
<1>5. s # {} => Pick(s) \in s
    BY DEF Pick
<1> QED
    BY <1>1, <1>2, <1>3, <1>4, <1>5

\* There is a function that sums the sizes of every part of a finite set.
LEMMA SumsExist ==
    ASSUME NEW U, IsFiniteSet(U)
    PROVE  \E f : Sums(f, U)
<1> DEFINE Upto(f, m) == f = [s \in Small(U, m) |-> SumFrom(f, s)]
           bad == {m \in Nat : ~ \E f : Upto(f, m)}
<1>1. ASSUME bad # {}
      PROVE  FALSE
    <2>1. PICK m \in bad : \A k \in bad : m <= k
        BY <1>1, LeastNumber
    <2>2. CASE m = 0
        <3>1. \A s \in Small(U, 0) : s = {}
            BY Without DEF Small
        <3>2. Upto([s \in Small(U, 0) |-> 0], 0)
            BY <3>1 DEF SumFrom
        <3> QED
            BY <2>1, <2>2, <3>2
    <2>3. CASE m # 0
        <3>1. m \in Nat /\ m - 1 \in Nat /\ m - 1 \notin bad
            BY <2>1, <2>3
        <3>2. PICK f : Upto(f, m - 1)
            BY <3>1
        <3> DEFINE g == [s \in Small(U, m) |-> SumFrom(f, s)]
        <3>3. \A s \in Small(U, m - 1) : s \in Small(U, m) /\ g[s] = f[s]
            <4>1. \A s \in Small(U, m - 1) : s \in Small(U, m)
                BY <3>1, Without DEF Small
            <4>2. \A s \in Small(U, m - 1) : f[s] = SumFrom(f, s)
                BY <3>2
            <4> QED
                BY <4>1, <4>2
        <3>4. \A s \in Small(U, m) : s # {} => s \ {Pick(s)} \in Small(U, m - 1)
            <4> SUFFICES ASSUME NEW s \in Small(U, m), s # {}
                         PROVE  s \ {Pick(s)} \in Small(U, m - 1)
                OBVIOUS
            <4>1. s \in SUBSET U /\ Cardinality(s) <= m
                BY DEF Small
            <4>2. Cardinality(s \ {Pick(s)}) = Cardinality(s) - 1 /\ Cardinality(s) \in Nat
                BY <4>1, Without
            <4> QED
                BY <3>1, <4>1, <4>2 DEF Small
        <3>5. \A s \in Small(U, m) : SumFrom(f, s) = SumFrom(g, s)
            <4> HIDE DEF g
            <4> QED
                BY <3>3, <3>4 DEF SumFrom
        <3>6. Upto(g, m)
            BY <3>5
        <3> QED
            BY <2>1, <3>6
    <2> QED
        BY <2>2, <2>3
<1>2. Cardinality(U) \in Nat /\ SUBSET U = Small(U, Cardinality(U))
    BY FS_CardinalityType, Without DEF Small
<1>3. PICK f : Upto(f, Cardinality(U))
    BY <1>1, <1>2
<1> QED
    BY <1>2, <1>3 DEF Sums

\* It does not matter which comes first: adding one object to a part adds its
\* size to the sum.
LEMMA SumsAdd ==
    ASSUME NEW U, IsFiniteSet(U), \A o \in U : o.size \in Nat, NEW f, Sums(f, U)
    PROVE  \A s \in SUBSET U : f[s] \in Nat /\ \A y \in U \ s : f[s \cup {y}] = f[s] + y.size
<1> DEFINE Fine(s) == f[s] \in Nat /\ \A y \in U \ s : f[s \cup {y}] = f[s] + y.size
           bad == {Cardinality(s) : s \in {t \in SUBSET U : ~Fine(t)}}
<1>1. \A s \in SUBSET U : f[s] = SumFrom(f, s)
    BY DEF Sums
<1>2. ASSUME bad # {}
      PROVE  FALSE
    <2>1. bad \subseteq Nat
        BY Without
    <2>2. PICK n \in bad : \A k \in bad : n <= k
        BY <1>2, <2>1, LeastNumber
    <2>3. PICK s \in SUBSET U : ~Fine(s) /\ Cardinality(s) = n
        BY <2>2
    <2>4. \A t \in SUBSET U : Cardinality(t) < Cardinality(s) => Fine(t)
        <3>1. \A t \in SUBSET U : ~Fine(t) => Cardinality(t) \in bad
            OBVIOUS
        <3>2. \A t \in SUBSET U : ~Fine(t) => Cardinality(s) <= Cardinality(t)
            BY <2>2, <2>3, <3>1
        <3> HIDE DEF bad, Fine
        <3> QED
            BY <3>2, Without
    <2>5. \A y \in s : s \ {y} \in SUBSET U /\ Fine(s \ {y}) /\ f[s] = f[s \ {y}] + y.size
        <3> SUFFICES ASSUME NEW y \in s
                     PROVE  s \ {y} \in SUBSET U /\ Fine(s \ {y}) /\ f[s] = f[s \ {y}] + y.size
            OBVIOUS
        <3>1. Cardinality(s \ {y}) < Cardinality(s)
            BY Without
        <3>2. Fine(s \ {y})
            BY <2>4, <3>1
        <3>3. (s \ {y}) \cup {y} = s /\ y \in U \ (s \ {y})
            OBVIOUS
        <3> QED
            BY <3>2, <3>3
    <2>6. f[s] \in Nat
        <3>1. CASE s = {}
            <4>1. f[s] = SumFrom(f, s)
                BY <1>1
            <4>2. SumFrom(f, s) = 0
                BY <3>1 DEF SumFrom
            <4> HIDE DEF Fine, bad
            <4> QED
                BY <4>1, <4>2
        <3>2. CASE s # {}
            <4>1. PICK y : y \in s
                BY <3>2
            <4>2. f[s \ {y}] \in Nat /\ y.size \in Nat /\ f[s] = f[s \ {y}] + y.size
                BY <2>5, <4>1
            <4> QED
                BY <4>2
        <3> QED
            BY <3>1, <3>2
    <2>7. ASSUME NEW y \in U \ s
          PROVE  f[s \cup {y}] = f[s] + y.size
        <3> DEFINE t == s \cup {y}
                   x == Pick(t)
        <3>1. t \in SUBSET U /\ x \in t /\ y.size \in Nat
            BY Without
        <3>2. f[t] = x.size + f[t \ {x}]
            BY <1>1, <3>1 DEF SumFrom
        <3>3. CASE x = y
            <4>1. t \ {x} = s
                BY <2>7, <3>3
            <4> HIDE DEF t, x
            <4> QED
                <5>1. f[t] = y.size + f[s]
                    BY <3>2, <3>3, <4>1
                <5>2. f[t] = f[s] + y.size
                    BY <2>6, <3>1, <5>1
                <5> QED
                    BY <5>2 DEF t
        <3>4. CASE x # y
            <4>1. x \in s /\ t \ {x} = (s \ {x}) \cup {y} /\ y \in U \ (s \ {x}) /\ x.size \in Nat
                BY <2>7, <3>1, <3>4
            <4> HIDE DEF t, x
            <4>2. s \ {x} \in SUBSET U /\ Fine(s \ {x}) /\ f[s] = f[s \ {x}] + x.size
                BY <2>5, <4>1
            <4>3. f[s \ {x}] \in Nat /\ f[(s \ {x}) \cup {y}] = f[s \ {x}] + y.size
                BY <4>1, <4>2
            <4> QED
                <5>1. f[t] = x.size + (f[s \ {x}] + y.size)
                    BY <3>2, <4>1, <4>3
                <5>2. f[t] = f[s] + y.size
                    BY <3>1, <4>1, <4>2, <4>3, <5>1
                <5> QED
                    BY <5>2 DEF t
        <3> QED
            BY <3>3, <3>4
    <2> QED
        BY <2>3, <2>6, <2>7
<1>3. \A s \in SUBSET U : Fine(s)
    <2> SUFFICES ASSUME NEW s \in SUBSET U, ~Fine(s)
                 PROVE  FALSE
        OBVIOUS
    <2>1. Cardinality(s) \in bad
        OBVIOUS
    <2> QED
        BY <1>2, <2>1
<1> QED
    BY <1>3

\* The sum of a part does not depend on what it is a part of.
LEMMA SumsAgree ==
    ASSUME NEW U, IsFiniteSet(U), NEW S \in SUBSET U, NEW f, Sums(f, U), NEW g, Sums(g, S)
    PROVE  \A s \in SUBSET S : f[s] = g[s]
<1> DEFINE bad == {Cardinality(s) : s \in {t \in SUBSET S : f[t] # g[t]}}
<1>1. \A s \in SUBSET S : f[s] = SumFrom(f, s) /\ g[s] = SumFrom(g, s)
    BY DEF Sums
<1>2. IsFiniteSet(S)
    BY FS_Subset
<1>3. ASSUME bad # {}
      PROVE  FALSE
    <2>1. bad \subseteq Nat
        BY <1>2, Without
    <2>2. PICK n \in bad : \A k \in bad : n <= k
        BY <1>3, <2>1, LeastNumber
    <2>3. PICK s \in SUBSET S : f[s] # g[s] /\ Cardinality(s) = n
        BY <2>2
    <2>4. s # {}
        BY <1>1, <2>3 DEF SumFrom
    <2>5. Pick(s) \in s /\ Cardinality(s \ {Pick(s)}) = Cardinality(s) - 1 /\ Cardinality(s) \in Nat
        BY <1>2, <2>4, Without
    <2> DEFINE t == s \ {Pick(s)}
    <2>6. f[t] = g[t]
        <3>1. f[t] # g[t] => Cardinality(t) \in bad
            OBVIOUS
        <3>2. f[t] # g[t] => Cardinality(s) <= Cardinality(t)
            BY <2>2, <2>3, <3>1
        <3> QED
            BY <2>5, <3>2
    <2> QED
        BY <1>1, <2>3, <2>4, <2>6 DEF SumFrom
<1>4. ASSUME NEW s \in SUBSET S, f[s] # g[s]
      PROVE  FALSE
    <2>1. Cardinality(s) \in bad
        BY <1>4
    <2> QED
        BY <1>3, <2>1
<1> QED
    BY <1>4

\* The sum is what any such function says.
LEMMA SumIs ==
    ASSUME NEW U, IsFiniteSet(U)
    PROVE  \E f : Sums(f, U) /\ SumOf(U) = f[U]
<1> DEFINE f == CHOOSE g : Sums(g, U)
<1>1. Sums(f, U)
    BY SumsExist
<1>2. SumOf(U) = f[U]
    BY DEF SumOf
<1> HIDE DEF f
<1> QED
    BY <1>1, <1>2

\* One object more, its size more.
LEMMA SumGrows ==
    ASSUME NEW S, IsFiniteSet(S), \A o \in S : o.size \in Nat, NEW y, y \notin S, y.size \in Nat
    PROVE  SumOf(S) \in Nat /\ SumOf(S \cup {y}) = SumOf(S) + y.size
<1>1. PICK U : U = S \cup {y}
    OBVIOUS
<1>2. IsFiniteSet(U)
    BY <1>1, FS_AddElement
<1>3. PICK f : Sums(f, U) /\ SumOf(U) = f[U]
    BY <1>2, SumIs
<1>4. PICK g : Sums(g, S) /\ SumOf(S) = g[S]
    BY SumIs
<1>5. S \in SUBSET U /\ y \in U \ S /\ \A o \in U : o.size \in Nat
    BY <1>1
<1>6. \A s \in SUBSET U : f[s] \in Nat /\ \A z \in U \ s : f[s \cup {z}] = f[s] + z.size
    BY <1>2, <1>3, <1>5, SumsAdd
<1>7. f[S] \in Nat /\ f[S \cup {y}] = f[S] + y.size
    BY <1>5, <1>6
<1>8. \A s \in SUBSET S : f[s] = g[s]
    BY <1>2, <1>3, <1>4, <1>5, SumsAgree
<1>9. f[S] = g[S]
    BY <1>8
<1> QED
    BY <1>1, <1>3, <1>4, <1>7, <1>9

LEMMA SumOfNone == SumOf({}) = 0
<1> DEFINE f == CHOOSE h : Sums(h, {})
<1>1. Sums(f, {})
    BY SumsExist, FS_EmptySet
<1>2. f[{}] = 0
    <2> HIDE DEF f
    <2> QED
        BY <1>1 DEF Sums, SumFrom
<1> QED
    BY <1>2 DEF SumOf

\* What the requests compare with the quota.
LEMMA UsedIsSum == Used = SumOf(objects)
BY DEF Used, MapThenSumSet, MapThenFoldSet, SumOf, Sums, SumFrom, Pick

-----------------------------------------------------------------------------
(* The limits, of the drive and of each directory.                         *)

InDir(S, i) == {o \in S : o.parent = i}

Within(S) ==
    /\ IsFiniteSet(S) /\ Cardinality(S) <= MAX_OBJECTS /\ SumOf(S) <= QUOTA
    /\ \A i \in 0 .. MaxId : Cardinality(InDir(S, i)) <= MAX_ENTRIES

\* Every directory, the root too, is one of the places counted.
LEMMA EntriesAreIn ==
    ASSUME NEW dir
    PROVE  Entries(dir) = InDir(objects, dir.id)
BY DEF Entries, InDir

\* One object more in a set, or one in the place of another.
LEMMA OneMore ==
    ASSUME NEW S, IsFiniteSet(S), NEW y, y \notin S
    PROVE  IsFiniteSet(S \cup {y}) /\ Cardinality(S \cup {y}) = Cardinality(S) + 1
BY FS_AddElement

LEMMA OneForAnother ==
    ASSUME NEW S, IsFiniteSet(S), NEW o \in S, NEW y, y \notin S \ {o}
    PROVE  IsFiniteSet((S \ {o}) \cup {y}) /\ Cardinality((S \ {o}) \cup {y}) = Cardinality(S)
<1>1. IsFiniteSet(S \ {o}) /\ Cardinality(S \ {o}) = Cardinality(S) - 1 /\ Cardinality(S) \in Nat
    BY FS_RemoveElement, FS_CardinalityType
<1>2. IsFiniteSet((S \ {o}) \cup {y}) /\ Cardinality((S \ {o}) \cup {y}) = Cardinality(S \ {o}) + 1
    BY <1>1, OneMore
<1> QED
    BY <1>1, <1>2

\* A smaller set has no more in a directory.
LEMMA PartHasNoMore ==
    ASSUME NEW S, IsFiniteSet(S), NEW R \in SUBSET S, NEW i
    PROVE  /\ IsFiniteSet(R) /\ Cardinality(R) <= Cardinality(S) /\ Cardinality(R) \in Nat /\ Cardinality(S) \in Nat
           /\ IsFiniteSet(InDir(S, i)) /\ Cardinality(InDir(S, i)) \in Nat
           /\ Cardinality(InDir(R, i)) <= Cardinality(InDir(S, i)) /\ Cardinality(InDir(R, i)) \in Nat
<1>1. IsFiniteSet(R) /\ Cardinality(R) <= Cardinality(S)
    BY FS_Subset
<1>2. InDir(S, i) \in SUBSET S /\ InDir(R, i) \in SUBSET InDir(S, i)
    BY DEF InDir
<1>3. IsFiniteSet(InDir(S, i))
    BY <1>2, FS_Subset
<1>4. IsFiniteSet(InDir(R, i)) /\ Cardinality(InDir(R, i)) <= Cardinality(InDir(S, i))
    BY <1>2, <1>3, FS_Subset
<1> QED
    BY <1>1, <1>3, <1>4, FS_CardinalityType

\* Taking an object out takes its size out.
LEMMA SumShrinks ==
    ASSUME NEW S, IsFiniteSet(S), \A o \in S : o.size \in Nat, NEW o \in S
    PROVE  SumOf(S) \in Nat /\ SumOf(S \ {o}) \in Nat /\ SumOf(S) = SumOf(S \ {o}) + o.size
<1>1. PICK R : R = S \ {o}
    OBVIOUS
<1>2. IsFiniteSet(R) /\ (\A q \in R : q.size \in Nat) /\ o \notin R /\ o.size \in Nat /\ R \cup {o} = S
    BY <1>1, FS_RemoveElement
<1>3. SumOf(R) \in Nat /\ SumOf(R \cup {o}) = SumOf(R) + o.size
    BY <1>2, SumGrows
<1>4. SumOf(S) = SumOf(R) + o.size
    BY <1>2, <1>3
<1>5. SumOf(S) \in Nat
    BY <1>2, <1>3, <1>4
<1> QED
    BY <1>1, <1>3, <1>4, <1>5

LEMMA SumSwaps ==
    ASSUME NEW S, IsFiniteSet(S), \A q \in S : q.size \in Nat, NEW o \in S, NEW y, y \notin S \ {o}, y.size \in Nat
    PROVE  SumOf((S \ {o}) \cup {y}) = SumOf(S) - o.size + y.size
<1>1. PICK R : R = S \ {o}
    OBVIOUS
<1>2. SumOf(S) \in Nat /\ SumOf(R) \in Nat /\ SumOf(S) = SumOf(R) + o.size /\ o.size \in Nat
    BY <1>1, SumShrinks
<1>3. IsFiniteSet(R) /\ (\A q \in R : q.size \in Nat) /\ y \notin R
    BY <1>1, FS_RemoveElement
<1>4. SumOf(R \cup {y}) = SumOf(R) + y.size
    BY <1>3, SumGrows
<1> QED
    BY <1>1, <1>2, <1>4

\* A file or directory is made where there is room.
LEMMA WithinGrows ==
    ASSUME NEW S, TreeSound(S), Within(S), NEW new, IsObject(new), new \notin S,
           Cardinality(S) < MAX_OBJECTS, Cardinality(InDir(S, new.parent)) < MAX_ENTRIES,
           SumOf(S) + new.size <= QUOTA
    PROVE  Within(S \cup {new})
<1>1. IsFiniteSet(S) /\ (\A o \in S : o.size \in Nat) /\ new.size \in Nat /\ new.parent \in 0 .. MaxId
    BY DEF TreeSound, Within, IsObject
<1>2. SumOf(S \cup {new}) = SumOf(S) + new.size
    BY <1>1, SumGrows
<1>3. IsFiniteSet(S \cup {new}) /\ Cardinality(S \cup {new}) <= MAX_OBJECTS
    <2>1. Cardinality(S) \in Nat
        BY <1>1, FS_CardinalityType
    <2>2. IsFiniteSet(S \cup {new}) /\ Cardinality(S \cup {new}) = Cardinality(S) + 1
        BY <1>1, OneMore
    <2> QED
        BY <2>1, <2>2, DriveAssumption
<1>4. ASSUME NEW i \in 0 .. MaxId
      PROVE  Cardinality(InDir(S \cup {new}, i)) <= MAX_ENTRIES
    <2>1. CASE i = new.parent
        <3>1. InDir(S \cup {new}, i) = InDir(S, i) \cup {new} /\ new \notin InDir(S, i)
            BY <2>1 DEF InDir
        <3>2. IsFiniteSet(InDir(S, i)) /\ Cardinality(InDir(S, i)) \in Nat
            BY <1>1, PartHasNoMore
        <3>3. Cardinality(InDir(S \cup {new}, i)) = Cardinality(InDir(S, i)) + 1
            BY <3>1, <3>2, OneMore
        <3> QED
            BY <2>1, <3>2, <3>3, DriveAssumption
    <2>2. CASE i # new.parent
        <3>1. InDir(S \cup {new}, i) = InDir(S, i)
            BY <2>2 DEF InDir
        <3> QED
            BY <3>1 DEF Within
    <2> QED
        BY <2>1, <2>2
<1> QED
    BY <1>2, <1>3, <1>4 DEF Within

\* An object goes.
LEMMA WithinShrinks ==
    ASSUME NEW S, TreeSound(S), Within(S), NEW o \in S
    PROVE  Within(S \ {o})
<1>1. IsFiniteSet(S) /\ (\A q \in S : q.size \in Nat) /\ S \ {o} \in SUBSET S
    BY DEF TreeSound, Within, IsObject
<1>2. PICK R : R = S \ {o}
    OBVIOUS
<1>3. SumOf(R) <= QUOTA
    <2>1. SumOf(S) \in Nat /\ SumOf(R) \in Nat /\ SumOf(S) = SumOf(R) + o.size /\ o.size \in Nat
        BY <1>1, <1>2, SumShrinks
    <2> QED
        BY <2>1, DriveAssumption DEF Within
<1>4. IsFiniteSet(R) /\ Cardinality(R) <= Cardinality(S) /\ Cardinality(R) \in Nat /\ Cardinality(S) \in Nat
    BY <1>1, <1>2, PartHasNoMore
<1>5. ASSUME NEW i \in 0 .. MaxId
      PROVE  Cardinality(InDir(R, i)) <= MAX_ENTRIES
    <2>1. Cardinality(InDir(R, i)) <= Cardinality(InDir(S, i)) /\ Cardinality(InDir(R, i)) \in Nat
          /\ Cardinality(InDir(S, i)) \in Nat
        BY <1>1, <1>2, PartHasNoMore
    <2> QED
        BY <2>1, DriveAssumption DEF Within
<1>6. Cardinality(R) <= MAX_OBJECTS
    BY <1>4, DriveAssumption DEF Within
<1> QED
    BY <1>2, <1>3, <1>4, <1>5, <1>6 DEF Within

\* An object changes: it stays where it is, or there is room where it goes.
LEMMA WithinChanges ==
    ASSUME NEW S, TreeSound(S), Within(S), NEW o \in S, NEW new, IsObject(new), new.id = o.id,
           new.parent # o.parent => Cardinality(InDir(S, new.parent)) < MAX_ENTRIES,
           SumOf(S) - o.size + new.size <= QUOTA
    PROVE  Within((S \ {o}) \cup {new})
<1>1. IsFiniteSet(S) /\ (\A q \in S : q.size \in Nat) /\ new.size \in Nat
    BY DEF TreeSound, Within, IsObject
<1>2. new \notin S \ {o}
    BY DEF TreeSound, Distinct
<1>3. PICK R : R = (S \ {o}) \cup {new}
    OBVIOUS
<1>4. SumOf(R) <= QUOTA
    <2>1. SumOf((S \ {o}) \cup {new}) = SumOf(S) - o.size + new.size
        BY <1>1, <1>2, SumSwaps
    <2> QED
        BY <1>3, <2>1
<1>5. IsFiniteSet(R) /\ Cardinality(R) = Cardinality(S)
    BY <1>1, <1>2, <1>3, OneForAnother
<1>6. ASSUME NEW i \in 0 .. MaxId
      PROVE  Cardinality(InDir(R, i)) <= MAX_ENTRIES
    <2>1. IsFiniteSet(InDir(S, i)) /\ Cardinality(InDir(S, i)) \in Nat /\ Cardinality(InDir(S, i)) <= MAX_ENTRIES
        BY <1>1, PartHasNoMore DEF Within
    <2>2. CASE i = new.parent /\ i = o.parent
        <3>1. InDir(R, i) = (InDir(S, i) \ {o}) \cup {new} /\ o \in InDir(S, i) /\ new \notin InDir(S, i) \ {o}
            BY <1>2, <1>3, <2>2 DEF InDir
        <3>2. Cardinality(InDir(R, i)) = Cardinality(InDir(S, i))
            BY <2>1, <3>1, OneForAnother
        <3> QED
            BY <2>1, <3>2
    <2>3. CASE i = new.parent /\ i # o.parent
        <3>1. InDir(R, i) = InDir(S, i) \cup {new} /\ new \notin InDir(S, i)
            BY <1>2, <1>3, <2>3 DEF InDir
        <3>2. Cardinality(InDir(R, i)) = Cardinality(InDir(S, i)) + 1
            BY <2>1, <3>1, OneMore
        <3> QED
            BY <2>1, <2>3, <3>2, DriveAssumption
    <2>4. CASE i # new.parent
        <3>1. InDir(R, i) \in SUBSET InDir(S, i)
            BY <1>3, <2>4 DEF InDir
        <3>2. Cardinality(InDir(R, i)) <= Cardinality(InDir(S, i)) /\ Cardinality(InDir(R, i)) \in Nat
            BY <2>1, <3>1, FS_Subset, FS_CardinalityType
        <3> QED
            BY <2>1, <3>2, DriveAssumption
    <2> QED
        BY <2>2, <2>3, <2>4
<1> QED
    BY <1>3, <1>4, <1>5, <1>6 DEF Within

\* Each request stays within the limits.
LEMMA LimitsKept ==
    ASSUME TreeSound(objects), Within(objects), DriveNext
    PROVE  Within(objects')
<1>1. \A o \in objects : IsObject(o)
    BY DEF TreeSound
<1>2. Root.id = 0 /\ MaxId \in Nat /\ QUOTA \in Nat
    BY DriveAssumption DEF Root
<1>3. \A dir \in Folders : dir.id \in 0 .. MaxId
    BY <1>1, <1>2, DirectoryIs DEF IsObject
<1>4. SumOf(objects) <= QUOTA /\ Used = SumOf(objects)
    BY UsedIsSum DEF Within
<1>5. \A o \in objects : SumOf(objects) \in Nat
    <2>1. IsFiniteSet(objects) /\ \A o \in objects : o.size \in Nat
        BY <1>1 DEF Within, IsObject
    <2> QED
        BY <2>1, SumShrinks
<1>6. SumOf(objects) \in Nat
    BY <1>5, SumOfNone
<1>7. ASSUME NEW dir \in Folders, NEW name, NEW is_dir \in BOOLEAN, NEW size \in Nat,
             SumOf(objects) + size <= QUOTA, Creates(dir, name, is_dir, size)
      PROVE  Within(objects')
    <2> DEFINE new == [id |-> NextObject, parent |-> dir.id, name |-> name, is_dir |-> is_dir, size |-> size]
    <2>1. objects' = objects \cup {new} /\ NextObject <= MaxId
        BY <1>7 DEF Creates
    <2>2. NextObject \in 1 .. MaxId /\ \A o \in objects : o.id < NextObject
        BY <1>1, <1>2, <2>1, NextIsAbove
    <2>3. IsObject(new) /\ new.id = NextObject /\ new.parent = dir.id /\ new.size = size
        BY <1>3, <2>2 DEF IsObject
    <2> HIDE DEF new
    <2>4. new \notin objects
        BY <2>2, <2>3
    <2>5. Cardinality(objects) < MAX_OBJECTS /\ Cardinality(InDir(objects, new.parent)) < MAX_ENTRIES
        BY <1>7, <2>3, EntriesAreIn DEF Creates, RoomForObject
    <2> QED
        BY <1>7, <2>1, <2>3, <2>4, <2>5, WithinGrows
<1>8. CASE PutFile
    <2>1. PICK dir \in Folders, name \in Names, size \in Sizes :
            \/ RoomForBytes(size, 0) /\ Creates(dir, name, FALSE, size)
            \/ \E old \in At(dir, name) :
                    /\ RoomForBytes(size, old.size)
                    /\ objects' = (objects \ {old}) \cup {[old EXCEPT !.size = size]}
        BY <1>8 DEF PutFile
    <2>2. size \in Nat
        BY DriveAssumption
    <2>3. CASE RoomForBytes(size, 0) /\ Creates(dir, name, FALSE, size)
        <3>1. SumOf(objects) + size <= QUOTA
            BY <1>4, <1>6, <2>2, <2>3 DEF RoomForBytes
        <3> QED
            BY <1>7, <2>2, <2>3, <3>1
    <2>4. ASSUME NEW old \in objects, RoomForBytes(size, old.size),
                 objects' = (objects \ {old}) \cup {[old EXCEPT !.size = size]}
          PROVE  Within(objects')
        <3> DEFINE new == [old EXCEPT !.size = size]
        <3>1. IsObject(new) /\ new.id = old.id /\ new.parent = old.parent /\ new.size = size
            BY <1>1, <2>2 DEF IsObject
        <3>2. SumOf(objects) - old.size + size <= QUOTA
            BY <1>4, <2>4 DEF RoomForBytes
        <3>3. objects' = (objects \ {old}) \cup {new}
            BY <2>4
        <3> HIDE DEF new
        <3> QED
            BY <3>1, <3>2, <3>3, WithinChanges
    <2>5. At(dir, name) \subseteq objects
        BY DEF At, Entries
    <2> QED
        BY <2>1, <2>3, <2>4, <2>5
<1>9. CASE MakeDir
    <2>1. PICK dir \in Folders, name \in Names : Creates(dir, name, TRUE, 0)
        BY <1>9 DEF MakeDir
    <2>2. SumOf(objects) + 0 <= QUOTA
        BY <1>4, <1>6
    <2> QED
        BY <1>7, <2>1, <2>2
<1>10. CASE Remove
    <2>1. PICK o \in objects : objects' = objects \ {o}
        BY <1>10 DEF Remove, Found
    <2> QED
        BY <2>1, WithinShrinks
<1>11. CASE Move
    <2>1. PICK o \in objects, dir \in Folders, name \in Names :
            /\ RoomToMove(dir, o)
            /\ objects' = (objects \ {o}) \cup {[o EXCEPT !.parent = dir.id, !.name = name]}
        BY <1>11 DEF Move, Found, Directories
    <2>2. PICK new : new = [o EXCEPT !.parent = dir.id, !.name = name]
        OBVIOUS
    <2>3. o = [id |-> o.id, parent |-> o.parent, name |-> o.name, is_dir |-> o.is_dir, size |-> o.size]
        BY <1>1 DEF IsObject
    <2>4. /\ new.id = o.id /\ new.parent = dir.id /\ new.name = name /\ new.is_dir = o.is_dir /\ new.size = o.size
          /\ new = [id |-> o.id, parent |-> dir.id, name |-> name, is_dir |-> o.is_dir, size |-> o.size]
        BY <2>2, <2>3, MovedObject
    <2>5. IsObject(new)
        BY <1>1, <1>3, <2>4 DEF IsObject
    <2>6. new.parent # o.parent => Cardinality(InDir(objects, new.parent)) < MAX_ENTRIES
        BY <2>1, <2>4, EntriesAreIn DEF RoomToMove, RoomForObject
    <2>7. SumOf(objects) - o.size + new.size <= QUOTA
        <3>1. o.size \in Nat
            BY <1>1 DEF IsObject
        <3> QED
            BY <1>4, <1>6, <2>4, <3>1
    <2>8. objects' = (objects \ {o}) \cup {new}
        BY <2>1, <2>2
    <2> QED
        BY <2>4, <2>5, <2>6, <2>7, <2>8, WithinChanges
<1> QED
    BY <1>8, <1>9, <1>10, <1>11 DEF DriveNext

\* The limits hold in every order of requests: no replacement, no move and
\* no sum of files takes a drive over them.
THEOREM DriveStaysWithinLimits == DriveSpec => []DriveWithinLimits
<1>1. DriveInit => Within(objects)
    <2>1. \A i \in 0 .. MaxId : InDir({}, i) = {}
        BY DEF InDir
    <2>2. IsFiniteSet({}) /\ Cardinality({}) = 0
        BY FS_EmptySet
    <2> QED
        BY <2>1, <2>2, SumOfNone, DriveAssumption DEF DriveInit, Within
<1>2. Within(objects) /\ TreeSound(objects) /\ [DriveNext]_objects => Within(objects)'
    <2>1. CASE UNCHANGED objects
        BY <2>1
    <2> QED
        BY <2>1, LimitsKept
<1>3. Within(objects) /\ TreeSound(objects) => DriveWithinLimits
    <2> SUFFICES ASSUME Within(objects), TreeSound(objects)
                 PROVE  DriveWithinLimits
        OBVIOUS
    <2>1. \A dir \in objects \cup {Root} : dir.id \in 0 .. MaxId
        BY DriveAssumption DEF TreeSound, IsObject, Root
    <2> QED
        BY <2>1, UsedIsSum, EntriesAreIn DEF Within, DriveWithinLimits
<1> QED
    BY <1>1, <1>2, <1>3, TreeInvariance, PTL DEF DriveSpec
=============================================================================
