-------------------------- MODULE LobbyRaceProofs --------------------------
(***************************************************************************)
(* Proofs about the races of the lobby server, for any number of consoles  *)
(* and rooms: what follows from Rooms alone, what a racer's record says of *)
(* its colour, its bay, its finish and its kart, and that the places of a  *)
(* race differ and follow the finishes, whatever happens to the room       *)
(* afterwards.                                                             *)
(***************************************************************************)
EXTENDS LobbyRoomsProofs

-----------------------------------------------------------------------------
(* What Rooms promises of a race that is on.                               *)

On(r) == r.phase \in {"Countdown", "Racing"}

\* A race takes nobody in, and a session without its host gets none.
RaceStays(r, s) ==
    /\ On(r) /\ ~r.lot /\ On(s) => s.racers \subseteq r.racers
    /\ On(r) /\ r.lot /\ r.host = Nil => s.phase = "Waiting" \/ (On(s) /\ s.host = Nil)

RaceType(r) == r = [phase |-> r.phase, lot |-> r.lot, racers |-> r.racers, host |-> r.host]

LEMMA RaceTyped ==
    \A l \in Lobbies : /\ race[l] = RaceOf(player, lobby[l], l)
                       /\ RaceType(race[l]) /\ race[l].lot \in BOOLEAN
BY DEF race, RaceOf, RaceType, Live, Roam

\* Taking people off the road.
LEMMA WithoutStays ==
    ASSUME NEW d \in Lobbies, NEW T
    PROVE  RaceStays(race[d], Abstract!RaceWithout(d, T))
<1>1. RaceType(race[d])
    BY RaceTyped
<1>2. RaceStays(race[d], Abstract!NoRace)
    BY DEF RaceStays, On, Abstract!NoRace
<1>3. RaceStays(race[d], Abstract!Off(race[d], T))
    BY <1>1 DEF RaceStays, On, Abstract!Off
<1> QED
    BY <1>2, <1>3 DEF Abstract!RaceWithout

\* The clock ends a race, or leaves its people as they are; it ends a session
\* that has no host.
LEMMA ClockMoves ==
    ASSUME NEW p, NEW b \in BOOLEAN, NEW R, NEW h, NEW due,
           NEW r, r = [phase |-> p, lot |-> b, racers |-> R, host |-> h],
           NEW s, s = Abstract!Advanced(r, due)
    PROVE  /\ s = Abstract!NoRace \/ (s.racers = R /\ s.host = h /\ (On(s) => On(r)))
           /\ b /\ h = Nil /\ On(r) => s = Abstract!NoRace
<1>1. CASE On(r) /\ (R = {} \/ (b /\ h = Nil))
    <2>1. s = Abstract!NoRace
        BY <1>1 DEF Abstract!Advanced, On
    <2> QED
        BY <2>1
<1>2. CASE ~(On(r) /\ (R = {} \/ (b /\ h = Nil)))
    <2>1. p = "Waiting" => s = r
        BY <1>2 DEF Abstract!Advanced, On
    <2>2. p = "Countdown" => s = r \/ s = [r EXCEPT !.phase = "Racing"]
        BY <1>2 DEF Abstract!Advanced, On
    <2>3. p = "Racing" => s = r \/ s = [r EXCEPT !.phase = "Results"]
        BY <1>2 DEF Abstract!Advanced, On
    <2>4. p = "Results" => s = r \/ s = Abstract!NoRace
        BY <1>2 DEF Abstract!Advanced, On
    <2>5. p \notin {"Waiting", "Countdown", "Racing", "Results"} => s = r
        BY <1>2 DEF Abstract!Advanced, On
    <2> QED
        BY <1>2, <2>1, <2>2, <2>3, <2>4, <2>5 DEF On
<1> QED
    BY <1>1, <1>2

\* The clock, on a race that people have been taken off.
LEMMA ClockStays ==
    ASSUME NEW d \in Lobbies, NEW T, NEW due
    PROVE  RaceStays(race[d], Abstract!Advanced(Abstract!RaceWithout(d, T), due))
<1> DEFINE r == Abstract!RaceWithout(d, T)
           s == Abstract!Advanced(r, due)
<1>1. RaceStays(race[d], r)
    BY WithoutStays
<1>2. r = Abstract!NoRace \/ r = Abstract!Off(race[d], T)
    BY DEF Abstract!RaceWithout
<1>3. /\ r = [phase |-> r.phase, lot |-> r.lot, racers |-> r.racers, host |-> r.host]
      /\ r.lot \in BOOLEAN
      /\ r = Abstract!NoRace \/ r.lot = race[d].lot
    <2>1. race[d].lot \in BOOLEAN
        BY RaceTyped
    <2>2. CASE r = Abstract!NoRace
        BY <2>2 DEF Abstract!NoRace
    <2>3. CASE r = Abstract!Off(race[d], T)
        BY <2>1, <2>3 DEF Abstract!Off
    <2> QED
        BY <1>2, <2>2, <2>3
<1> HIDE DEF r
<1>4. /\ s = Abstract!NoRace
         \/ (s.racers = r.racers /\ s.host = r.host /\ (On(s) => On(r)))
      /\ r.lot /\ r.host = Nil /\ On(r) => s = Abstract!NoRace
    BY <1>3, ClockMoves
<1> HIDE DEF s
<1>5. ASSUME On(race[d]), ~race[d].lot, On(s) PROVE s.racers \subseteq race[d].racers
    BY <1>1, <1>4, <1>5 DEF RaceStays, On, Abstract!NoRace
<1>6. ASSUME On(race[d]), race[d].lot, race[d].host = Nil PROVE s.phase = "Waiting"
    <2>1. r.phase = "Waiting" \/ (On(r) /\ r.host = Nil)
        BY <1>1, <1>6 DEF RaceStays
    <2>2. CASE r = Abstract!NoRace
        <3>1. s = r
            BY <2>2 DEF s, Abstract!Advanced, Abstract!NoRace
        <3> QED
            BY <2>2, <3>1 DEF Abstract!NoRace
    <2>3. CASE r # Abstract!NoRace
        <3>1. r.lot /\ r.phase = race[d].phase
            BY <1>2, <1>3, <1>6, <2>3 DEF Abstract!Off
        <3>2. s = Abstract!NoRace
            BY <1>4, <1>6, <2>1, <3>1 DEF On
        <3> QED
            BY <3>2 DEF Abstract!NoRace
    <2> QED
        BY <2>2, <2>3
<1> QED
    BY <1>5, <1>6 DEF RaceStays, r, s

\* Every step of Rooms.
LEMMA RoomsStep ==
    ASSUME [Abstract!Next]_(Abstract!vars), NEW d \in Lobbies
    PROVE  RaceStays(race[d], race'[d])
<1>1. DOMAIN race = Lobbies /\ RaceType(race[d])
    BY RaceTyped DEF race
<1>2. RaceStays(race[d], race[d])
    BY DEF RaceStays, On
<1>3. ASSUME NEW t, Abstract!Depart(t) PROVE RaceStays(race[d], race'[d])
    BY <1>3, WithoutStays DEF Abstract!Depart
<1>4. ASSUME NEW t, NEW e \in Lobbies, Abstract!Enter(t, e)
      PROVE  RaceStays(race[d], race'[d])
    <2>1. race'[d] = IF d # e THEN Abstract!RaceWithout(d, {t})
                     ELSE IF race[d].lot THEN Abstract!On(race[d], t) ELSE race[d]
        BY <1>4 DEF Abstract!Enter
    <2>2. race[d].lot => RaceStays(race[d], Abstract!On(race[d], t))
        BY <1>1 DEF RaceStays, On, Abstract!On
    <2> QED
        BY <1>2, <2>1, <2>2, WithoutStays
<1>5. ASSUME NEW e \in Lobbies, NEW lot, Abstract!Start(e, lot)
      PROVE  RaceStays(race[d], race'[d])
    <2>1. d # e => race'[d] = race[d]
        BY <1>1, <1>5 DEF Abstract!Start
    <2>2. d = e => race[d].phase = "Waiting"
        BY <1>5 DEF Abstract!Start
    <2> QED
        BY <1>2, <2>1, <2>2 DEF RaceStays, On
<1>6. ASSUME NEW t, NEW e \in Lobbies, Abstract!Retire(t, e)
      PROVE  RaceStays(race[d], race'[d])
    <2>1. race'[d] = IF d = e THEN Abstract!Off(race[d], {t}) ELSE race[d]
        BY <1>1, <1>6 DEF Abstract!Retire
    <2>2. RaceStays(race[d], Abstract!Off(race[d], {t}))
        BY <1>1 DEF RaceStays, On, Abstract!Off
    <2> QED
        BY <1>2, <2>1, <2>2
<1>7. ASSUME NEW t, NEW e \in Lobbies, Abstract!GoBack(t, e)
      PROVE  RaceStays(race[d], race'[d])
    <2>1. race'[d] = IF d = e THEN Abstract!On(race[d], t) ELSE race[d]
        BY <1>1, <1>7 DEF Abstract!GoBack
    <2>2. race[d].lot => RaceStays(race[d], Abstract!On(race[d], t))
        BY <1>1 DEF RaceStays, On, Abstract!On
    <2>3. race[e].lot
        BY <1>7 DEF Abstract!GoBack
    <2> QED
        BY <1>2, <2>1, <2>2, <2>3
<1>8. ASSUME NEW T, Abstract!Clock(T) PROVE RaceStays(race[d], race'[d])
    <2>1. PICK due \in SUBSET Lobbies :
            race' = [e \in Lobbies |->
                        Abstract!Advanced(Abstract!RaceWithout(e, T), e \in due)]
        BY <1>8 DEF Abstract!Clock
    <2> QED
        BY <2>1, ClockStays
<1>9. CASE UNCHANGED Abstract!vars
    BY <1>2, <1>9 DEF Abstract!vars
<1> QED
    BY <1>3, <1>4, <1>5, <1>6, <1>7, <1>8, <1>9 DEF Abstract!Next

\* What the races of Rooms stand for.
LEMMA RaceReads ==
    ASSUME Sound(player, lobby), NEW l \in Lobbies
    PROVE  /\ race[l].phase = lobby[l].State /\ (On(race[l]) <=> Live(lobby[l]))
           /\ race[l].lot <=> Live(lobby[l]) /\ Roam(lobby[l])
           /\ race[l].racers = Racers(player, lobby[l])
           /\ race[l].host = Nil <=> HostGone(player, l, lobby[l])
<1>1. Seated(lobby[l]) = Present(player, l)
    BY PresentSits
<1>2. race[l].host = Nil <=> HostGone(player, l, lobby[l])
    BY DEF race, RaceOf, HostGone
<1> QED
    BY <1>1, <1>2 DEF race, RaceOf, Racers, On, Live

\* Nobody gets into a race on a course once its countdown has started.
THEOREM NobodyEntersLate == Spec => NoLateEntry
<1>1. ASSUME IInv, IInv', [Next]_vars, NEW l \in Lobbies,
             Live(lobby[l]), ~Roam(lobby[l]), Live(lobby'[l])
      PROVE  Racers(player', lobby'[l]) \subseteq Racers(player, lobby[l])
    <2>1. RaceStays(race[l], race'[l])
        BY <1>1, StepKept, RoomsStep
    <2>2. /\ On(race[l]) /\ ~race[l].lot
          /\ race[l].racers = Racers(player, lobby[l])
        BY <1>1, RaceReads DEF IInv
    <2>3. On(race'[l]) /\ race'[l].racers = Racers(player', lobby'[l])
        <3>1. Sound(player', lobby')
            BY <1>1 DEF IInv
        <3>2. Seated(lobby'[l]) = Present(player', l)
            BY <3>1, PresentSits
        <3> QED
            BY <1>1, <3>2 DEF race, RaceOf, Racers, On, Live
    <2> QED
        BY <2>1, <2>2, <2>3 DEF RaceStays
<1>2. IInv /\ IInv' /\ [Next]_vars =>
        [\A l \in Lobbies :
            Live(lobby[l]) /\ ~Roam(lobby[l]) /\ Live(lobby'[l]) =>
                Racers(player', lobby'[l]) \subseteq Racers(player, lobby[l])]_vars
    BY <1>1
<1> QED
    BY <1>2, Invariance, PTL DEF Spec, NoLateEntry

\* The host of a Free Roam session that has retired or left is never taken
\* for its host again, not even after coming back to the room.
THEOREM HostsStayGone == Spec => HostStaysGone
<1>1. ASSUME IInv, IInv', [Next]_vars, NEW l \in Lobbies,
             Live(lobby[l]), Roam(lobby[l]), HostGone(player, l, lobby[l])
      PROVE  \/ lobby'[l].State = "Waiting"
             \/ Live(lobby'[l]) /\ HostGone(player', l, lobby'[l])
    <2>1. RaceStays(race[l], race'[l])
        BY <1>1, StepKept, RoomsStep
    <2>2. On(race[l]) /\ race[l].lot /\ race[l].host = Nil
        BY <1>1, RaceReads DEF IInv
    <2>3. /\ race'[l].phase = lobby'[l].State /\ (On(race'[l]) <=> Live(lobby'[l]))
          /\ race'[l].host = Nil => HostGone(player', l, lobby'[l])
        BY DEF race, RaceOf, HostGone, On, Live
    <2> QED
        BY <2>1, <2>2, <2>3 DEF RaceStays
<1>2. IInv /\ IInv' /\ [Next]_vars =>
        [\A l \in Lobbies :
            Live(lobby[l]) /\ Roam(lobby[l]) /\ HostGone(player, l, lobby[l]) =>
                \/ lobby'[l].State = "Waiting"
                \/ Live(lobby'[l]) /\ HostGone(player', l, lobby'[l])]_vars
    BY <1>1
<1> QED
    BY <1>2, Invariance, PTL DEF Spec, HostStaysGone

-----------------------------------------------------------------------------
(* Counting: a room that has a place left has a bay and a colour left.     *)

\* Fewer players than numbers: some number is nobody's.
LEMMA NumberLeft ==
    ASSUME NEW M, M \subseteq Token, NEW f, NEW n \in Nat, Cardinality(M) < n
    PROVE  \E k \in 0 .. n - 1 : \A q \in M : f[q] # k
<1> SUFFICES ASSUME \A k \in 0 .. n - 1 : \E q \in M : f[q] = k
             PROVE  FALSE
    OBVIOUS
<1> DEFINE K == 0 .. n - 1
           g == [k \in K |-> CHOOSE q \in M : f[q] = k]
<1>1. \A k \in K : g[k] \in M /\ f[g[k]] = k
    OBVIOUS
<1>2. IsFiniteSet(M) /\ Cardinality(M) \in Nat
    BY TokenAssumption, FS_Subset, FS_CardinalityType
<1>3. Cardinality(K) = n
    <2>1. n > 0 /\ 0 \in Int /\ n - 1 \in Int
        BY <1>2
    <2>2. Cardinality(0 .. n - 1) = IF 0 > n - 1 THEN 0 ELSE n - 1 - 0 + 1
        BY <2>1, FS_Interval
    <2> QED
        BY <2>1, <2>2
<1> HIDE DEF K
<1>4. g \in Injection(K, M)
    <2>1. g \in [K -> M]
        BY <1>1
    <2>2. \A j, k \in K : g[j] = g[k] => j = k
        BY <1>1
    <2> HIDE DEF g
    <2> QED
        BY <2>1, <2>2 DEF Injection, IsInjective
<1>5. Cardinality(K) <= Cardinality(M)
    BY <1>2, <1>4, FS_Injection
<1> QED
    BY <1>2, <1>3, <1>5

\* The bay freeGrid finds is no racer's.
LEMMA BayFree ==
    ASSUME NEW pl, NEW room, NEW M, M \subseteq Token, Cardinality(M) < MaxPlayers,
           Racers(pl, room) \subseteq M
    PROVE  \A q \in Racers(pl, room) : pl[q].Grid # FreeGrid(pl, room)
<1> DEFINE f == [q \in M |-> pl[q].Grid]
           left == Slots \ {pl[q].Grid : q \in Racers(pl, room)}
<1> HIDE DEF f
<1>1. PICK k \in 0 .. MaxPlayers - 1 : \A q \in M : f[q] # k
    <2>1. MaxPlayers \in Nat
        BY SizeAssumption
    <2> QED
        BY <2>1, NumberLeft
<1>2. k \in left
    <2>1. \A q \in Racers(pl, room) : pl[q].Grid # k
        BY <1>1 DEF f
    <2> QED
        BY <1>1, <2>1 DEF Slots
<1>3. left \subseteq Nat
    BY DEF Slots
<1>4. FreeGrid(pl, room) = LowestOr(left, 0)
    BY DEF FreeGrid
<1> HIDE DEF left
<1>5. FreeGrid(pl, room) \in left
    <2>1. left # {}
        BY <1>2
    <2>2. LowestOr(left, 0) \in left
        BY <1>3, <2>1, LowestFound
    <2> QED
        BY <1>4, <2>2
<1> QED
    BY <1>5 DEF left

\* The colour join gives is nobody else's in the room, or the custom one.
LEMMA JoinColourFree ==
    ASSUME NEW pl, NEW room, NEW t, NEW M, M \subseteq Token,
           Cardinality(M) < MaxPlayers, Seated(room) \subseteq M
    PROVE  ColourFree(pl, room, JoinColour(pl, room, t), t)
<1> DEFINE f == [q \in M |-> pl[q].Colour]
           left == {c \in 0 .. Colours - 1 : ColourFree(pl, room, c, t)}
<1>1. Cardinality(M) < Colours /\ Colours \in Nat
    <2>1. Cardinality(M) \in Nat
        BY CountType
    <2> QED
        BY <2>1, ColourAssumption, SizeAssumption
<1> HIDE DEF f
<1>2. PICK k \in 0 .. Colours - 1 : \A q \in M : f[q] # k
    BY <1>1, NumberLeft
<1>3. k \in left
    <2>1. \A q \in Seated(room) \ {t} : pl[q].Colour # k
        BY <1>2 DEF f
    <2> QED
        BY <1>2, <2>1 DEF ColourFree
<1>4. left \subseteq Nat
    OBVIOUS
<1>5. ~ColourFree(pl, room, pl[t].Colour, t) =>
        JoinColour(pl, room, t) = LowestOr(left, pl[t].Colour)
    BY DEF JoinColour
<1> HIDE DEF left
<1>6. LowestOr(left, pl[t].Colour) \in left
    BY <1>3, <1>4, LowestFound
<1> QED
    BY <1>5, <1>6 DEF JoinColour, left

\* Somebody in a room without whom it has a place left.
LEMMA OthersFew ==
    ASSUME Sound(player, lobby), NEW l \in Lobbies, NEW t \in Present(player, l)
    PROVE  Cardinality(Present(player, l) \ {t}) < MaxPlayers
<1> DEFINE pk == PlayersLeft(player, {t})
           lk == LobbiesLeft(player, lobby, {t})
<1>1. t \in Token /\ player[t].Lobby = l /\ ~player[t].Spectating
    BY DEF Present
<1>2. /\ Sound(pk, lk) /\ lk[l].Slots = SlotsLeft(lobby[l], {t})
      /\ \A u \in {t} : pk[u].Lobby = NoLobby
      /\ \A u \in Token \ {t} : pk[u] = player[u]
    BY <1>1, LeaveSound
<1>3. Present(pk, l) = Present(player, l) \ {t}
    <2>1. {t} \in SUBSET Token
        BY <1>1
    <2> HIDE DEF pk, lk
    <2> QED
        BY <1>2, <2>1, GonePresent
<1>4. PICK s \in Slots : lobby[l].Slots[s] = t
    <2>1. t \in Seated(lobby[l])
        BY PresentSits
    <2> QED
        BY <2>1 DEF Seated
<1>5. lk[l].Slots[s] = Nil
    BY <1>2, <1>4 DEF SlotsLeft
<1> HIDE DEF pk, lk
<1> QED
    BY <1>2, <1>3, <1>5, RoomLeft

\* Whoever is before somebody on the grid has a bay in front.
LEMMA GridsDiffer ==
    ASSUME NEW pl \in [Token -> PlayerType], NEW room, Seated(room) \subseteq Token,
           NEW t \in Seated(room), NEW u \in Seated(room), pl[t].JoinSeq # pl[u].JoinSeq
    PROVE  GridOf(pl, room, t) # GridOf(pl, room, u)
<1> DEFINE Ahead(a) == {q \in Seated(room) : GridBefore(pl, q, a)}
<1>1. \A q \in Seated(room) : pl[q].Points \in Nat /\ pl[q].JoinSeq \in Nat
    BY DEF PlayerType
<1>2. ASSUME NEW a \in Seated(room), NEW b \in Seated(room), GridBefore(pl, a, b)
      PROVE  Cardinality(Ahead(a)) # Cardinality(Ahead(b))
    <2>1. a \in Ahead(b) /\ a \notin Ahead(a)
        BY <1>1, <1>2 DEF GridBefore
    <2>2. Ahead(a) \subseteq Ahead(b)
        BY <1>1, <1>2 DEF GridBefore
    <2>3. IsFiniteSet(Ahead(b))
        <3>1. Ahead(b) \subseteq Token
            OBVIOUS
        <3> QED
            BY <3>1, TokenAssumption, FS_Subset
    <2> HIDE DEF Ahead
    <2> QED
        BY <2>1, <2>2, <2>3, FS_Subset
<1>3. GridBefore(pl, t, u) \/ GridBefore(pl, u, t)
    BY <1>1 DEF GridBefore
<1>4. /\ GridOf(pl, room, t) = Cardinality(Ahead(t))
      /\ GridOf(pl, room, u) = Cardinality(Ahead(u))
    BY DEF GridOf
<1> QED
    BY <1>2, <1>3, <1>4

-----------------------------------------------------------------------------
(* What one record has to do with the others of its room, and with the     *)
(* record it was a step before.                                            *)

Differ(p, q) ==
    /\ p.Colour = q.Colour => p.Colour = ColourCustom
    /\ p.Racing /\ q.Racing => p.Grid # q.Grid

Apart(pl) ==
    \A l \in Lobbies : \A t, u \in Present(pl, l) : t # u => Differ(pl[t], pl[u])

\* A racer goes on with the race it is in, or comes to one with a clean slate.
CarriesOn(p, q, raceID) ==
    /\ p.Racing /\ q.Lobby = p.Lobby
    /\ q.Kart \in {p.Kart, raceID}
    /\ p.Finished => q.Finished /\ q.FinishMs = p.FinishMs

ComesClean(p, q) == q.Kart = NoKart /\ ~(p.Racing /\ q.Lobby = p.Lobby)

GoesOn(p, q, raceID) == q.Racing => CarriesOn(p, q, raceID) \/ ComesClean(p, q)

RaceOfPlayer(t) == lobby[player[t].Lobby].RaceID

Onward == \A t \in Token : GoesOn(player[t], player'[t], RaceOfPlayer(t))

RInv == IInv /\ Apart(player) /\ RelayIsCurrent

LEMMA SameGoesOn == ASSUME NEW p, NEW raceID PROVE GoesOn(p, p, raceID)
BY DEF GoesOn, CarriesOn

\* Nobody comes, and nobody changes colour or bay.
LEMMA FewerApart ==
    ASSUME Apart(player),
           \A l \in Lobbies : \A u \in Present(player', l) :
                /\ u \in Present(player, l)
                /\ player'[u].Colour = player[u].Colour
                /\ player'[u].Racing => player[u].Racing /\ player'[u].Grid = player[u].Grid
    PROVE  Apart(player')
BY DEF Apart, Differ

\* One record changes, and differs from the others of its room.
LEMMA OneApart ==
    ASSUME Apart(player), NEW t \in Token, NEW d \in Lobbies,
           \A u \in Token \ {t} : player'[u] = player[u],
           player'[t].Lobby = d,
           \A u \in Present(player, d) \ {t} : Differ(player'[t], player[u])
    PROVE  Apart(player')
<1> SUFFICES ASSUME NEW l \in Lobbies, NEW a \in Present(player', l),
                    NEW b \in Present(player', l), a # b
             PROVE  Differ(player'[a], player'[b])
    BY DEF Apart
<1>1. /\ a \in Token /\ player'[a].Lobby = l /\ ~player'[a].Spectating
      /\ b \in Token /\ player'[b].Lobby = l /\ ~player'[b].Spectating
    BY DEF Present
<1>2. CASE a # t /\ b # t
    BY <1>1, <1>2 DEF Apart, Present
<1>3. CASE a = t
    <2>1. b \in Present(player, d) \ {t} /\ player'[b] = player[b]
        BY <1>1, <1>3 DEF Present
    <2> QED
        BY <1>3, <2>1
<1>4. CASE b = t
    <2>1. a \in Present(player, d) \ {t} /\ player'[a] = player[a]
        BY <1>1, <1>4 DEF Present
    <2>2. Differ(player'[t], player[a])
        BY <2>1
    <2> QED
        BY <1>4, <2>1, <2>2 DEF Differ
<1> QED
    BY <1>2, <1>3, <1>4

\* Packets that change one record and put nobody on a track.
LEMMA OneOnward ==
    ASSUME NEW t \in Token, \A u \in Token \ {t} : player'[u] = player[u],
           GoesOn(player[t], player'[t], RaceOfPlayer(t))
    PROVE  Onward
BY SameGoesOn DEF Onward

\* HELLO, LEAVE, and JOIN with the spectate flag.
LEMMA AwayGoesOn ==
    ASSUME IInv, Apart(player), NEW t \in Token,
           Hello(t) \/ Leave(t) \/ \E id \in Lobbies : Spectate(t, id)
    PROVE  Apart(player') /\ Onward
<1> DEFINE pl == PlayersLeft(player, {t})
           lb == LobbiesLeft(player, lobby, {t})
<1>1. /\ pl \in [Token -> PlayerType] /\ pl[t].Lobby = NoLobby /\ ~pl[t].Racing
      /\ \A u \in Token \ {t} : pl[u] = player[u]
    <2>1. /\ Sound(pl, lb) /\ pl[t].Lobby = NoLobby
          /\ \A u \in Token \ {t} : pl[u] = player[u]
        BY LeaveSound DEF IInv
    <2> QED
        BY <2>1 DEF Sound, Typed, Running
<1>2. player \in [Token -> PlayerType]
    BY DEF IInv, Sound, Typed
<1>3. /\ \A u \in Token \ {t} : player'[u] = player[u]
      /\ ~player'[t].Racing
      /\ player'[t].Lobby = NoLobby \/ player'[t].Spectating
    <2>1. CASE Hello(t)
        BY <1>2, <2>1 DEF Hello, NewPlayer
    <2>2. CASE Leave(t)
        BY <1>1, <2>2 DEF Leave
    <2>3. ASSUME NEW id \in Lobbies, Spectate(t, id)
          PROVE  /\ \A u \in Token \ {t} : player'[u] = player[u]
                 /\ ~player'[t].Racing /\ player'[t].Spectating
        <3>1. player' = [pl EXCEPT ![t] =
                            [pl[t] EXCEPT !.Lobby = id, !.Slot = NoSlot, !.Spectating = TRUE,
                                          !.Racing = FALSE, !.Finished = FALSE, !.Kart = NoKart]]
            BY <2>3 DEF Spectate
        <3> HIDE DEF pl
        <3> QED
            BY <1>1, <3>1 DEF PlayerType
    <2> QED
        BY <2>1, <2>2, <2>3
<1>4. Apart(player')
    <2>1. ASSUME NEW l \in Lobbies, NEW u \in Present(player', l) PROVE u # t
        BY <1>3 DEF Present, NoLobby, Lobbies
    <2>2. ASSUME NEW l \in Lobbies, NEW u \in Present(player', l)
          PROVE  u \in Present(player, l) /\ player'[u] = player[u]
        BY <1>3, <2>1 DEF Present
    <2> QED
        BY <2>2, FewerApart
<1>5. GoesOn(player[t], player'[t], RaceOfPlayer(t))
    BY <1>3 DEF GoesOn
<1> QED
    BY <1>3, <1>4, <1>5, OneOnward

\* RETIRE and KART.
LEMMA TrackGoesOn ==
    ASSUME IInv, Apart(player), NEW t \in Token,
           \/ \E raceID \in RaceIDs : Retire(t, raceID)
           \/ \E raceID \in RaceIDs, finished \in BOOLEAN, ms \in Times, dist \in Dists :
                Kart(t, raceID, finished, ms, dist)
    PROVE  Apart(player') /\ Onward
<1>1. player \in [Token -> PlayerType]
    BY DEF IInv, Sound, Typed
<1>2. \A u \in Token \ {t} : player'[u] = player[u]
    BY <1>1 DEF Retire, Kart
<1>3. /\ player'[t].Lobby = player[t].Lobby
      /\ player'[t].Spectating = player[t].Spectating
      /\ player'[t].Colour = player[t].Colour
      /\ player'[t].Racing => player[t].Racing /\ player'[t].Grid = player[t].Grid
      /\ GoesOn(player[t], player'[t], RaceOfPlayer(t))
    <2>1. ASSUME NEW raceID \in RaceIDs, Retire(t, raceID)
          PROVE  <1>3
        BY <1>1, <2>1 DEF Retire, Retired, PlayerType, GoesOn
    <2>2. ASSUME NEW raceID \in RaceIDs, NEW finished \in BOOLEAN, NEW ms \in Times,
                 NEW dist \in Dists, Kart(t, raceID, finished, ms, dist)
          PROVE  <1>3
        <3> DEFINE finishes == finished /\ Finishes(player[t], lobby[player[t].Lobby])
        <3>1. player[t].Finished => ~finishes
            BY DEF Finishes
        <3>2. /\ player[t].Racing /\ raceID = RaceOfPlayer(t)
              /\ player' = [player EXCEPT ![t] =
                    [player[t] EXCEPT !.Kart = raceID,
                                      !.Progress = IF player[t].Finished THEN @ ELSE dist,
                                      !.Finished = @ \/ finishes,
                                      !.FinishMs = IF finishes THEN ms ELSE @]]
            BY <2>2 DEF Kart, Racing, KartCounts, RaceOfPlayer
        <3> HIDE DEF finishes
        <3>3. /\ player'[t].Lobby = player[t].Lobby
              /\ player'[t].Spectating = player[t].Spectating
              /\ player'[t].Colour = player[t].Colour
              /\ player'[t].Grid = player[t].Grid
              /\ player'[t].Kart = raceID
              /\ player'[t].Finished = (player[t].Finished \/ finishes)
              /\ player'[t].FinishMs = IF finishes THEN ms ELSE player[t].FinishMs
            BY <1>1, <3>2 DEF PlayerType
        <3> QED
            BY <3>1, <3>2, <3>3 DEF GoesOn, CarriesOn
    <2> QED
        BY <2>1, <2>2
<1>4. Apart(player')
    <2>1. ASSUME NEW l \in Lobbies, NEW u \in Present(player', l)
          PROVE  /\ u \in Present(player, l)
                 /\ player'[u].Colour = player[u].Colour
                 /\ player'[u].Racing => player[u].Racing /\ player'[u].Grid = player[u].Grid
        BY <1>2, <1>3 DEF Present
    <2> QED
        BY <2>1, FewerApart
<1> QED
    BY <1>2, <1>3, <1>4, OneOnward

\* What a record on the lot looks like.
LEMMA OnLotRecord ==
    ASSUME NEW p \in PlayerType, NEW grid
    PROVE  /\ OnLot(p, grid).Colour = p.Colour /\ OnLot(p, grid).Grid = grid
           /\ OnLot(p, grid).Kart = NoKart
           /\ OnLot(p, grid).Lobby = p.Lobby
BY DEF OnLot, PlayerType

\* JOIN: a colour and, on a lot, a bay that nobody in the room has.
LEMMA JoinGoesOn ==
    ASSUME IInv, Apart(player), NEW t \in Token, NEW id \in Lobbies, Join(t, id)
    PROVE  Apart(player') /\ Onward
<1> DEFINE pl == PlayersLeft(player, {t})
           lb == LobbiesLeft(player, lobby, {t})
           slot == FreeSlot(lobby[id])
           old == lb[id]
           colour == JoinColour(pl, old, t)
           grid == FreeGrid(pl, old)
           seated == [pl[t] EXCEPT !.Lobby = id, !.Slot = slot, !.JoinSeq = joinSeq + 1,
                                   !.Points = 0, !.LastPlace = 0, !.Racing = FALSE,
                                   !.Finished = FALSE, !.Kart = NoKart, !.Colour = colour]
           p == IF TakesLatecomers(old) THEN OnLot(seated, grid) ELSE seated
           M == Present(pl, id)
<1>1. /\ Sound(pl, lb) /\ pl[t].Lobby = NoLobby
      /\ \A u \in Token \ {t} : pl[u] = player[u]
      /\ lb[id].Slots = SlotsLeft(lobby[id], {t})
    BY LeaveSound DEF IInv
<1>2. pl \in [Token -> PlayerType]
    BY <1>1 DEF Sound, Typed
<1>3. slot \in Slots /\ lobby[id].Slots[slot] = Nil
    BY FreeSlotFound DEF Join
<1>4. player' = [pl EXCEPT ![t] = p]
    BY DEF Join
<1>5. joinSeq + 1 \in Nat
    BY DEF IInv
<1> HIDE DEF pl, lb, slot
<1>6. M \subseteq Token /\ Cardinality(M) < MaxPlayers /\ Seated(old) = M
    <2>1. lb[id].Slots[slot] = Nil
        BY <1>1, <1>3 DEF SlotsLeft
    <2> QED
        BY <1>1, <1>3, <2>1, RoomLeft, PresentSits DEF Present
<1>7. ColourFree(pl, old, colour, t)
    BY <1>6, JoinColourFree
<1>8. \A q \in Racers(pl, old) : pl[q].Grid # grid
    <2>1. Racers(pl, old) \subseteq M
        BY <1>6 DEF Racers
    <2> HIDE DEF M, old
    <2> QED
        BY <1>6, <2>1, BayFree
<1>9. /\ seated \in PlayerType /\ seated.Lobby = id /\ ~seated.Racing
      /\ seated.Colour = colour /\ seated.Kart = NoKart
    <2>1. colour \in AllColours
        BY <1>2, JoinColourType
    <2> HIDE DEF colour
    <2>2. /\ joinSeq + 1 \in Nat /\ 0 \in Nat /\ pl[t] \in PlayerType
          /\ id \in Lobbies \cup {NoLobby} /\ slot \in Slots \cup {NoSlot}
          /\ NoKart \in RaceIDs \cup {NoKart}
        BY <1>2, <1>3, <1>5
    <2>3. seated \in PlayerType
        BY ZenonT(60), <2>1, <2>2 DEF PlayerType
    <2>4. /\ seated.Lobby = id /\ ~seated.Racing
          /\ seated.Colour = colour /\ seated.Kart = NoKart
        BY <2>2 DEF PlayerType
    <2> QED
        BY <2>3, <2>4
<1> HIDE DEF seated
<1>10. /\ p.Lobby = id /\ p.Colour = colour /\ p.Kart = NoKart
       /\ p.Racing => p.Grid = grid
    BY <1>9, OnLotRecord
<1> HIDE DEF p
<1>11. player'[t] = p /\ \A u \in Token \ {t} : player'[u] = player[u]
    BY <1>1, <1>2, <1>4
<1>12. \A u \in Present(player, id) \ {t} :
            u \in Seated(old) \ {t} /\ player[u] = pl[u]
    <2>1. \A u \in Present(player, id) \ {t} : player[u] = pl[u] /\ u \in M
        BY <1>1 DEF Present
    <2> QED
        BY <1>6, <2>1
<1>13. \A u \in Present(player, id) \ {t} : Differ(p, player[u])
    <2> TAKE u \in Present(player, id) \ {t}
    <2>1. u \in Seated(old) \ {t} /\ player[u] = pl[u]
        BY <1>12
    <2>2. pl[u].Colour = colour => colour = ColourCustom
        BY <1>7, <2>1 DEF ColourFree
    <2>3. pl[u].Racing => pl[u].Grid # grid
        BY <1>8, <2>1 DEF Racers
    <2> QED
        BY <1>10, <2>1, <2>2, <2>3 DEF Differ
<1>14. Apart(player')
    BY <1>10, <1>11, <1>13, OneApart
<1>15. ~(player[t].Racing /\ player[t].Lobby = id)
    BY DEF Join, IInv, Sound, Running
<1>16. GoesOn(player[t], player'[t], RaceOfPlayer(t))
    BY <1>10, <1>11, <1>15 DEF GoesOn, ComesClean
<1> QED
    BY <1>11, <1>14, <1>16, OneOnward

\* WISH of a follower: a colour that is free, and a bay that is.
LEMMA FollowerGoesOn ==
    ASSUME IInv, Apart(player), NEW t \in Token, NEW wish \in WishType, FollowerWish(t, wish)
    PROVE  Apart(player') /\ Onward
<1> DEFINE l == player[t].Lobby
           room == lobby[l]
           colour == Repainted(t, wish.colour)
           grid == FreeGrid(player, room)
           painted == [player[t] EXCEPT !.Colour = colour]
           backOn == /\ player[t].nonceSeen
                     /\ wish.nonce # player[t].StartNonce
                     /\ ~player[t].Racing
                     /\ TakesLatecomers(room)
           moved == IF backOn THEN OnLot(painted, grid) ELSE painted
           p == [moved EXCEPT !.StartNonce = wish.nonce, !.nonceSeen = TRUE]
           M == Present(player, l) \ {t}
<1>1. player \in [Token -> PlayerType] /\ player[t] \in PlayerType
    BY DEF IInv, Sound, Typed
<1>2. player' = [player EXCEPT ![t] = p]
    BY DEF FollowerWish
<1>3. l \in Lobbies /\ t \in Present(player, l)
    BY <1>1 DEF FollowerWish, InSlot, PlayerType, Present
<1>4. Seated(room) = Present(player, l)
    BY <1>3, PresentSits DEF IInv
<1>5. M \subseteq Token /\ Cardinality(M) < MaxPlayers
    BY <1>3, OthersFew DEF IInv, Present
<1>6. colour = player[t].Colour \/ ColourFree(player, room, colour, t)
    BY DEF Repainted
<1>7. backOn => \A q \in Racers(player, room) : player[q].Grid # grid
    <2> HAVE backOn
    <2>1. Racers(player, room) \subseteq M
        BY <1>4 DEF Racers
    <2> HIDE DEF M, room
    <2> QED
        BY <1>5, <2>1, BayFree
<1>8. /\ painted \in PlayerType /\ painted.Racing = player[t].Racing
      /\ painted.Lobby = l /\ painted.Colour = colour
      /\ painted.Grid = player[t].Grid /\ painted.Kart = player[t].Kart
      /\ painted.Finished = player[t].Finished /\ painted.FinishMs = player[t].FinishMs
    <2>1. colour \in AllColours
        BY <1>1 DEF Repainted, PlayerType, WishType
    <2> HIDE DEF colour
    <2> QED
        BY <1>1, <2>1 DEF PlayerType
<1>9. backOn => ~player[t].Racing
    OBVIOUS
<1> HIDE DEF painted, backOn, colour, grid
<1>10. /\ moved \in PlayerType /\ moved.Lobby = l /\ moved.Colour = colour
       /\ backOn => moved.Kart = NoKart /\ moved.Grid = grid
       /\ ~backOn => moved = painted
    BY <1>8, FreeGridType, OnLotFacts, OnLotRecord DEF grid
<1> HIDE DEF moved
<1>11. /\ p.Lobby = l /\ p.Colour = colour /\ p.Racing = moved.Racing
       /\ p.Grid = moved.Grid /\ p.Kart = moved.Kart
       /\ p.Finished = moved.Finished /\ p.FinishMs = moved.FinishMs
    BY <1>10 DEF PlayerType
<1> HIDE DEF p
<1>12. player'[t] = p /\ \A u \in Token \ {t} : player'[u] = player[u]
    BY <1>1, <1>2
<1>13. \A u \in M : Differ(p, player[u])
    <2> TAKE u \in M
    <2>1. u \in Seated(room) \ {t} /\ Differ(player[t], player[u])
        BY <1>3, <1>4 DEF Apart
    <2>2. colour = player[u].Colour => colour = ColourCustom
        BY <1>6, <2>1 DEF ColourFree, Differ
    <2>3. backOn /\ player[u].Racing => player[u].Grid # grid
        BY <1>7, <2>1 DEF Racers
    <2>4. ~backOn /\ p.Racing /\ player[u].Racing => p.Grid # player[u].Grid
        BY <1>8, <1>10, <1>11, <2>1 DEF Differ
    <2> QED
        BY <1>10, <1>11, <2>2, <2>3, <2>4 DEF Differ
<1>14. Apart(player')
    BY <1>3, <1>11, <1>12, <1>13, OneApart
<1>15. GoesOn(player[t], player'[t], RaceOfPlayer(t))
    BY <1>8, <1>9, <1>10, <1>11, <1>12 DEF GoesOn, ComesClean, CarriesOn
<1> QED
    BY <1>12, <1>14, <1>15, OneOnward

\* What a record on the grid of a new race looks like.
LEMMA OnGridRecord ==
    ASSUME NEW pl \in [Token -> PlayerType], NEW room, NEW u \in Token
    PROVE  /\ OnGrid(pl, room)[u].Colour = pl[u].Colour
           /\ u \in Seated(room) =>
                /\ OnGrid(pl, room)[u].Kart = NoKart
                /\ OnGrid(pl, room)[u].Grid = GridOf(pl, room, u)
           /\ u \notin Seated(room) => OnGrid(pl, room)[u] = pl[u]
<1>1. pl[u] \in PlayerType
    OBVIOUS
<1> QED
    BY <1>1 DEF OnGrid, PlayerType

\* WISH of the leader: a colour that is free, and a press puts everybody in
\* the room on a bay of its own.
LEMMA LeaderWishGoesOn ==
    ASSUME IInv, Apart(player), NEW t \in Token, NEW wish \in WishType, LeaderWish(t, wish)
    PROVE  Apart(player') /\ Onward
<1> DEFINE l == player[t].Lobby
           room == lobby[l]
           press == IsPress(room, wish.nonce)
           colour == Repainted(t, wish.colour)
           p == [player[t] EXCEPT !.Colour = colour]
           painted == [player EXCEPT ![t].Colour = colour]
           picked == [Picked(room, wish) EXCEPT !.Nonce = wish.nonce, !.synced = TRUE]
           started == IF press THEN OnGrid(painted, picked) ELSE painted
           S == Present(player, l)
<1>1. /\ Sound(player, lobby)
      /\ player \in [Token -> PlayerType] /\ lobby \in [Lobbies -> LobbyType]
    BY DEF IInv, Sound, Typed
<1>2. player' = [started EXCEPT ![t].StartNonce = wish.nonce, ![t].nonceSeen = TRUE]
    BY DEF LeaderWish
<1>3. l \in Lobbies /\ t \in S
    BY <1>1 DEF LeaderWish, Leads, InSlot, PlayerType, Present
<1>4. Seated(room) = S
    BY <1>1, <1>3, PresentSits
<1>5. colour = player[t].Colour \/ ColourFree(player, room, colour, t)
    BY DEF Repainted
<1>6. /\ p \in PlayerType /\ p.Colour = colour
      /\ p.Racing = player[t].Racing
      /\ p.Lobby = player[t].Lobby /\ p.Spectating = player[t].Spectating
      /\ p.Grid = player[t].Grid /\ p.Kart = player[t].Kart /\ p.JoinSeq = player[t].JoinSeq
      /\ p.Finished = player[t].Finished /\ p.FinishMs = player[t].FinishMs
    <2>1. colour \in AllColours
        BY <1>1 DEF Repainted, PlayerType, WishType
    <2>2. player[t] \in PlayerType
        BY <1>1
    <2> HIDE DEF colour
    <2> QED
        BY <2>1, <2>2 DEF PlayerType
<1>7. painted = [player EXCEPT ![t] = p]
    BY <1>1
<1>8. Seated(picked) = S
    <2>1. room \in LobbyType /\ wish.track \in Tracks /\ wish.items \in BOOLEAN
        BY <1>1, <1>3 DEF WishType
    <2> HIDE DEF room
    <2>2. /\ Picked(room, wish) \in LobbyType
          /\ Picked(room, wish).Slots = room.Slots
        BY <2>1 DEF Picked, LobbyType
    <2>3. picked.Slots = room.Slots
        BY <2>2 DEF LobbyType
    <2> QED
        BY <1>4, <2>3 DEF Seated
<1>9. press => \A u \in S : ~player[u].Racing
    BY <1>1 DEF IsPress, Present, Sound, Running
<1>10. \A u \in S \ {t} : colour = player[u].Colour => colour = ColourCustom
    <2>1. \A u \in S \ {t} : Differ(player[t], player[u])
        BY <1>3 DEF Apart
    <2>2. S = Seated(room)
        BY <1>4
    <2> HIDE DEF colour, S
    <2> QED
        BY <1>5, <2>1, <2>2 DEF ColourFree, Differ
<1> HIDE DEF p, colour, painted
<1>11. /\ painted \in [Token -> PlayerType]
       /\ painted[t] = p /\ \A u \in Token \ {t} : painted[u] = player[u]
       /\ \A u \in Token : painted[u].JoinSeq = player[u].JoinSeq
    BY <1>1, <1>6, <1>7
<1>12. Apart(painted)
    <2> SUFFICES ASSUME NEW d \in Lobbies, NEW a \in Present(painted, d),
                        NEW b \in Present(painted, d), a # b
                 PROVE  Differ(painted[a], painted[b])
        BY DEF Apart
    <2>1. a \in Present(player, d) /\ b \in Present(player, d)
        BY <1>6, <1>11 DEF Present
    <2>2. Differ(player[a], player[b])
        BY <2>1 DEF Apart
    <2>3. CASE a # t /\ b # t
        BY <1>11, <2>1, <2>2, <2>3 DEF Present
    <2>4. CASE a = t
        <3>1. b \in S \ {t}
            BY <2>1, <2>4 DEF Present
        <3>2. painted[a] = p /\ painted[b] = player[b]
            BY <1>11, <2>4, <3>1 DEF Present
        <3> QED
            BY <1>6, <1>10, <2>2, <2>4, <3>1, <3>2 DEF Differ
    <2>5. CASE b = t
        <3>1. a \in S \ {t}
            BY <2>1, <2>5 DEF Present
        <3>2. painted[b] = p /\ painted[a] = player[a]
            BY <1>11, <2>5, <3>1 DEF Present
        <3> QED
            BY <1>6, <1>10, <2>2, <2>5, <3>1, <3>2 DEF Differ
    <2> QED
        BY <2>3, <2>4, <2>5
<1>13. \A u \in Token : /\ painted[u].Lobby = player[u].Lobby
                        /\ painted[u].Spectating = player[u].Spectating
                        /\ painted[u].Racing = player[u].Racing
                        /\ GoesOn(player[u], painted[u], RaceOfPlayer(u))
    BY <1>6, <1>11 DEF GoesOn, CarriesOn
<1> HIDE DEF picked
<1>14. /\ started \in [Token -> PlayerType] /\ Apart(started)
       /\ \A u \in Token : GoesOn(player[u], started[u], RaceOfPlayer(u))
    <2>1. CASE press
        <3> DEFINE grid == OnGrid(painted, picked)
        <3>1. Seated(picked) \subseteq Token
            BY <1>8 DEF Present
        <3>2. /\ grid \in [Token -> PlayerType]
              /\ \A u \in Token : /\ grid[u].Lobby = player[u].Lobby
                                  /\ grid[u].Spectating = player[u].Spectating
                                  /\ grid[u].Colour = painted[u].Colour
                                  /\ u \in S => /\ grid[u].Kart = NoKart
                                                /\ grid[u].Grid = GridOf(painted, picked, u)
                                  /\ u \notin S => grid[u] = painted[u]
            BY <1>8, <1>11, <1>13, <3>1, OnGridFacts, OnGridRecord
        <3> HIDE DEF grid
        <3>3. Apart(grid)
            <4> SUFFICES ASSUME NEW d \in Lobbies, NEW a \in Present(grid, d),
                                NEW b \in Present(grid, d), a # b
                         PROVE  Differ(grid[a], grid[b])
                BY DEF Apart
            <4>1. /\ a \in Token /\ b \in Token
                  /\ player[a].Lobby = d /\ ~player[a].Spectating
                  /\ player[b].Lobby = d /\ ~player[b].Spectating
                  /\ Differ(painted[a], painted[b])
                BY <1>12, <1>13, <3>2 DEF Apart, Present
            <4>2. CASE d = l
                <5>1. a \in S /\ b \in S
                    BY <4>1, <4>2 DEF Present
                <5>2. painted[a].JoinSeq # painted[b].JoinSeq
                    <6>1. Led(player, room) /\ a # Nil /\ b # Nil
                        BY <1>1, <1>3, <4>1, TokenAssumption DEF Sound
                    <6>2. a \in Seated(room) /\ b \in Seated(room)
                        BY <1>4, <5>1
                    <6>3. player[a].JoinSeq # player[b].JoinSeq
                        BY <6>1, <6>2 DEF Led, Seated
                    <6> QED
                        BY <1>11, <4>1, <6>3
                <5>3. GridOf(painted, picked, a) # GridOf(painted, picked, b)
                    BY <1>8, <1>11, <3>1, <5>1, <5>2, GridsDiffer
                <5> QED
                    BY <3>2, <4>1, <5>1, <5>3 DEF Differ
            <4>3. CASE d # l
                <5>1. a \notin S /\ b \notin S
                    BY <4>1, <4>3 DEF Present
                <5> QED
                    BY <3>2, <4>1, <5>1
            <4> QED
                BY <4>2, <4>3
        <3>4. ASSUME NEW u \in Token PROVE GoesOn(player[u], grid[u], RaceOfPlayer(u))
            <4>1. CASE u \in S
                BY <1>9, <2>1, <3>2, <4>1 DEF GoesOn, ComesClean
            <4>2. CASE u \notin S
                BY <1>13, <3>2, <4>2
            <4> QED
                BY <4>1, <4>2
        <3>5. started = grid
            BY <2>1 DEF grid
        <3> QED
            BY <3>2, <3>3, <3>4, <3>5
    <2>2. CASE ~press
        BY <1>11, <1>12, <1>13, <2>2
    <2> QED
        BY <2>1, <2>2
<1> HIDE DEF started, press, room
<1>15. \A u \in Token : /\ player'[u].Lobby = started[u].Lobby
                        /\ player'[u].Spectating = started[u].Spectating
                        /\ player'[u].Colour = started[u].Colour
                        /\ player'[u].Racing = started[u].Racing
                        /\ player'[u].Grid = started[u].Grid
                        /\ player'[u].Kart = started[u].Kart
                        /\ player'[u].Finished = started[u].Finished
                        /\ player'[u].FinishMs = started[u].FinishMs
    <2> DEFINE q == [started[t] EXCEPT !.StartNonce = wish.nonce, !.nonceSeen = TRUE]
    <2>1. started[t] \in PlayerType
        BY <1>14
    <2>2. /\ q.Lobby = started[t].Lobby /\ q.Spectating = started[t].Spectating
          /\ q.Colour = started[t].Colour /\ q.Racing = started[t].Racing
          /\ q.Grid = started[t].Grid /\ q.Kart = started[t].Kart
          /\ q.Finished = started[t].Finished /\ q.FinishMs = started[t].FinishMs
        BY <2>1 DEF PlayerType
    <2>3. player' = [started EXCEPT ![t] = q]
        BY <1>2, <1>14
    <2> HIDE DEF q
    <2> QED
        BY <1>14, <2>2, <2>3
<1>16. Apart(player')
    BY <1>14, <1>15 DEF Apart, Differ, Present
<1>17. Onward
    BY <1>14, <1>15 DEF Onward, GoesOn, CarriesOn, ComesClean
<1> QED
    BY <1>16, <1>17

\* What advance leaves of a record that is still racing.
LEMMA AdvancedRecord ==
    ASSUME NEW p \in PlayerType, NEW pl, NEW room, NEW verdict, NEW u, pl[u] = p
    PROVE  /\ PlayerAdvanced(pl, room, verdict, u).Lobby = p.Lobby
           /\ PlayerAdvanced(pl, room, verdict, u).Spectating = p.Spectating
           /\ PlayerAdvanced(pl, room, verdict, u).Colour = p.Colour
           /\ PlayerAdvanced(pl, room, verdict, u).Grid = p.Grid
           /\ PlayerAdvanced(pl, room, verdict, u).Racing =>
                /\ p.Racing
                /\ PlayerAdvanced(pl, room, verdict, u).Kart = p.Kart
                /\ PlayerAdvanced(pl, room, verdict, u).Finished = p.Finished
                /\ PlayerAdvanced(pl, room, verdict, u).FinishMs = p.FinishMs
<1> DEFINE q == PlayerAdvanced(pl, room, verdict, u)
           place == PlaceOf(pl, room, u)
           points == AwardPoints(p.Points, place)
           placed == [p EXCEPT !.LastPlace = place, !.Points = points]
           off == [p EXCEPT !.Racing = FALSE, !.Finished = FALSE, !.Kart = NoKart]
<1>1. q = p \/ q = placed \/ q = off
    BY DEF PlayerAdvanced, Placed, OffTrack
<1> HIDE DEF q, place, points
<1>2. CASE q = p
    BY <1>2 DEF q
<1>3. CASE q = placed
    <2>1. /\ placed.Lobby = p.Lobby /\ placed.Spectating = p.Spectating
          /\ placed.Colour = p.Colour /\ placed.Grid = p.Grid
          /\ placed.Racing = p.Racing /\ placed.Kart = p.Kart
          /\ placed.Finished = p.Finished /\ placed.FinishMs = p.FinishMs
        BY DEF PlayerType
    <2> HIDE DEF placed
    <2> QED
        BY <1>3, <2>1 DEF q
<1>4. CASE q = off
    <2>1. /\ off.Lobby = p.Lobby /\ off.Spectating = p.Spectating
          /\ off.Colour = p.Colour /\ off.Grid = p.Grid /\ ~off.Racing
        BY DEF PlayerType
    <2> HIDE DEF off
    <2> QED
        BY <1>4, <2>1 DEF q
<1> QED
    BY <1>1, <1>2, <1>3, <1>4

\* Tick: sessions leave and races move on, and nobody comes.
LEMMA TickGoesOn ==
    ASSUME IInv, Apart(player), NEW silent \in SUBSET sessions, NEW due, Tick(silent, due)
    PROVE  Apart(player') /\ Onward
<1> DEFINE pl == [t \in Token |-> IF t \in silent THEN NewPlayer ELSE player[t]]
           lb == LobbiesLeft(player, lobby, silent)
           verdict == [l \in Lobbies |-> Verdict(pl, l, lb[l], l \in due)]
<1>1. player' = [t \in Token |-> IF pl[t].Lobby = NoLobby THEN pl[t]
                        ELSE PlayerAdvanced(pl, lb[pl[t].Lobby], verdict[pl[t].Lobby], t)]
    BY DEF Tick
<1>2. /\ \A t \in Token \cap silent : pl[t] = NewPlayer
      /\ \A t \in Token \ silent : pl[t] = player[t] /\ player[t] \in PlayerType
    BY DEF IInv, Sound, Typed
<1> HIDE DEF pl, lb, verdict
<1>3. \A t \in Token \cap silent : ~player'[t].Racing /\ player'[t].Lobby = NoLobby
    BY <1>1, <1>2 DEF NewPlayer
<1>4. ASSUME NEW t \in Token \ silent
      PROVE  /\ player'[t].Lobby = player[t].Lobby
             /\ player'[t].Spectating = player[t].Spectating
             /\ player'[t].Colour = player[t].Colour
             /\ player'[t].Grid = player[t].Grid
             /\ player'[t].Racing =>
                    /\ player[t].Racing /\ player'[t].Kart = player[t].Kart
                    /\ player'[t].Finished = player[t].Finished
                    /\ player'[t].FinishMs = player[t].FinishMs
    <2>1. CASE pl[t].Lobby = NoLobby
        BY <1>1, <1>2, <2>1
    <2>2. CASE pl[t].Lobby # NoLobby
        <3>1. player'[t] = PlayerAdvanced(pl, lb[pl[t].Lobby], verdict[pl[t].Lobby], t)
            BY <1>1, <2>2
        <3> QED
            BY <1>2, <3>1, AdvancedRecord
    <2> QED
        BY <2>1, <2>2
<1>5. Apart(player')
    <2>1. ASSUME NEW l \in Lobbies, NEW u \in Present(player', l)
          PROVE  /\ u \in Present(player, l)
                 /\ player'[u].Colour = player[u].Colour
                 /\ player'[u].Racing => player[u].Racing /\ player'[u].Grid = player[u].Grid
        <3>1. u \in Token \ silent
            BY <1>3 DEF Present, NoLobby, Lobbies
        <3> QED
            BY <1>4, <3>1 DEF Present
    <2> QED
        BY <2>1, FewerApart
<1>6. Onward
    BY <1>3, <1>4 DEF Onward, GoesOn, CarriesOn
<1> QED
    BY <1>5, <1>6

-----------------------------------------------------------------------------
(* The theorems about colours, bays, finishes and karts.                   *)

LEMMA StepGoesOn ==
    ASSUME IInv, Apart(player), [Next]_vars
    PROVE  Apart(player') /\ Onward
<1>1. ASSUME NEW t \in Token, Handle(t) PROVE Apart(player') /\ Onward
    BY <1>1, AwayGoesOn, TrackGoesOn, JoinGoesOn, FollowerGoesOn, LeaderWishGoesOn,
       WishAssumption DEF Handle
<1>2. ASSUME NEW silent \in SUBSET sessions, NEW due \in SUBSET Timed, Tick(silent, due)
      PROVE  Apart(player') /\ Onward
    BY <1>2, TickGoesOn
<1>3. CASE UNCHANGED vars
    BY <1>3, SameGoesOn DEF vars, Onward, RaceOfPlayer
<1> QED
    BY <1>1, <1>2, <1>3 DEF Next

\* The server starts with nobody on a track.
LEMMA InitGoesOn == Init => RInv
<1> SUFFICES ASSUME Init PROVE RInv
    OBVIOUS
<1>1. \A t \in Token : player[t].Lobby = NoLobby /\ ~player[t].Racing
    BY DEF Init, NewPlayer
<1>2. Apart(player)
    BY <1>1 DEF Apart, Present, NoLobby, Lobbies
<1>3. RelayIsCurrent
    BY <1>1 DEF RelayIsCurrent
<1> QED
    BY <1>2, <1>3, InitSound DEF RInv

\* A racer's kart is the one it had or one for the race that is on, and no
\* race that is on changes its id.
LEMMA RInvStep == RInv /\ [Next]_vars => RInv'
<1> SUFFICES ASSUME RInv, [Next]_vars PROVE RInv'
    OBVIOUS
<1>1. IInv' /\ Apart(player') /\ Onward
    BY NextSound, StepGoesOn DEF RInv
<1>2. ASSUME NEW t \in Token, player'[t].Racing, player'[t].Kart # NoKart
      PROVE  player'[t].Kart = lobby'[player'[t].Lobby].RaceID
    <2> DEFINE l == player[t].Lobby
    <2>1. CarriesOn(player[t], player'[t], RaceOfPlayer(t))
        BY <1>1, <1>2 DEF Onward, GoesOn, ComesClean
    <2>2. /\ player[t].Racing /\ player'[t].Lobby = l
          /\ player'[t].Kart \in {player[t].Kart, lobby[l].RaceID}
        BY <2>1 DEF CarriesOn, RaceOfPlayer
    <2>3. player'[t].Kart = lobby[l].RaceID
        BY <1>2, <2>2 DEF RInv, RelayIsCurrent
    <2>4. l \in Lobbies /\ lobby[l].State # "Waiting"
        BY <2>2 DEF RInv, IInv, Sound, Typed, Running, PlayerType
    <2>5. lobby'[l].RaceID = lobby[l].RaceID
        BY <2>4, RaceIDStep DEF RInv, KeepsRace
    <2> QED
        BY <2>2, <2>3, <2>5
<1> QED
    BY <1>1, <1>2 DEF RInv, RelayIsCurrent

LEMMA RacesSound == Spec => []RInv
BY InitGoesOn, RInvStep, PTL DEF Spec

\* Two players of a room never wear the same preset colour.
THEOREM ColoursHold == Spec => []ColoursDistinct
<1>1. RInv => ColoursDistinct
    BY DEF RInv, Apart, Differ, Present, ColoursDistinct, Members, InLobby
<1> QED
    BY <1>1, RacesSound, PTL

\* Racers of one room stand on different bays of the grid.
THEOREM GridsHold == Spec => []GridsDistinct
<1>1. RInv => GridsDistinct
    BY DEF RInv, Apart, Differ, Present, GridsDistinct, Members, InLobby
<1> QED
    BY <1>1, RacesSound, PTL

\* A relayed kart was sent for the race that is on.
THEOREM RelaysHold == Spec => []RelayIsCurrent
<1>1. RInv => RelayIsCurrent
    BY DEF RInv
<1> QED
    BY <1>1, RacesSound, PTL

\* A racer that has finished keeps the time it was given first.
THEOREM FinishesHold == Spec => FinishStands
<1>1. RInv /\ [Next]_vars =>
        [\A t \in Token :
            /\ player[t].Racing /\ player[t].Finished
            /\ player'[t].Racing /\ player'[t].Lobby = player[t].Lobby
            => player'[t].Finished /\ player'[t].FinishMs = player[t].FinishMs]_vars
    <2> SUFFICES ASSUME RInv, [Next]_vars, NEW t \in Token,
                        player[t].Racing, player[t].Finished,
                        player'[t].Racing, player'[t].Lobby = player[t].Lobby
                 PROVE  player'[t].Finished /\ player'[t].FinishMs = player[t].FinishMs
        OBVIOUS
    <2>1. Onward
        BY StepGoesOn DEF RInv
    <2>2. CarriesOn(player[t], player'[t], RaceOfPlayer(t))
        BY <2>1 DEF Onward, GoesOn, ComesClean
    <2> QED
        BY <2>2 DEF CarriesOn
<1> QED
    BY <1>1, RacesSound, PTL DEF Spec, FinishStands

-----------------------------------------------------------------------------
(* sortByPlace.                                                            *)

\* Whoever is before somebody has the lower place, and everybody has one.
LEMMA PlacesFollow ==
    ASSUME NEW pl \in [Token -> PlayerType], NEW room, Seated(room) \subseteq Token,
           NEW t \in Racers(pl, room), NEW u \in Racers(pl, room),
           \A q \in Racers(pl, room) : pl[q].Slot \in Nat, PlaceBefore(pl, t, u)
    PROVE  PlaceOf(pl, room, t) < PlaceOf(pl, room, u)
<1> DEFINE R == Racers(pl, room)
           Ahead(a) == {q \in R : PlaceBefore(pl, q, a)}
<1>1. /\ R \subseteq Token
      /\ \A q \in R : pl[q].Finished \in BOOLEAN /\ pl[q].FinishMs \in Nat
                        /\ pl[q].Progress \in Nat /\ pl[q].Slot \in Nat
    BY DEF Racers, PlayerType
<1> HIDE DEF R
<1>2. ~PlaceBefore(pl, t, t)
    BY <1>1 DEF PlaceBefore, R
<1>3. \A q \in R : PlaceBefore(pl, q, t) => PlaceBefore(pl, q, u)
    <2>1. t \in R /\ u \in R
        BY DEF R
    <2> TAKE q \in R
    <2> QED
        BY <1>1, <2>1 DEF PlaceBefore
<1>4. /\ Ahead(t) \subseteq Ahead(u) /\ Ahead(t) # Ahead(u)
      /\ Ahead(u) \subseteq Token
    BY <1>1, <1>2, <1>3 DEF R
<1>5. Cardinality(Ahead(t)) < Cardinality(Ahead(u))
    <2> HIDE DEF Ahead
    <2>1. IsFiniteSet(Ahead(u))
        BY <1>4, TokenAssumption, FS_Subset
    <2>2. Cardinality(Ahead(t)) \in Nat /\ Cardinality(Ahead(u)) \in Nat
        BY <1>4, CountType
    <2>3. Cardinality(Ahead(t)) <= Cardinality(Ahead(u))
        BY <1>4, <2>1, FS_Subset
    <2>4. Cardinality(Ahead(t)) # Cardinality(Ahead(u))
        BY <1>4, <2>1, FS_Subset
    <2> QED
        BY <2>2, <2>3, <2>4
<1>6. Cardinality(Ahead(t)) \in Nat /\ Cardinality(Ahead(u)) \in Nat
    BY <1>4, CountType
<1>7. /\ PlaceOf(pl, room, t) = 1 + Cardinality(Ahead(t))
      /\ PlaceOf(pl, room, u) = 1 + Cardinality(Ahead(u))
    BY DEF PlaceOf, R
<1> QED
    BY <1>5, <1>6, <1>7

\* Of two racers one is before the other.
LEMMA PlacesOrder ==
    ASSUME NEW p \in Token, NEW q \in Token, NEW pl \in [Token -> PlayerType],
           pl[p].Slot \in Nat, pl[q].Slot \in Nat, pl[p].Slot # pl[q].Slot
    PROVE  PlaceBefore(pl, p, q) \/ PlaceBefore(pl, q, p)
<1>1. /\ pl[p].Finished \in BOOLEAN /\ pl[p].FinishMs \in Nat /\ pl[p].Progress \in Nat
      /\ pl[q].Finished \in BOOLEAN /\ pl[q].FinishMs \in Nat /\ pl[q].Progress \in Nat
    BY DEF PlayerType
<1> QED
    BY <1>1 DEF PlaceBefore

-----------------------------------------------------------------------------
(* The invariant.                                                          *)

\* Places differ; whoever is in a room but not in its race has none; and on
\* the results they follow the finishes.
RanksDiffer(pl, l) ==
    \A t, u \in Present(pl, l) :
        t # u /\ pl[t].LastPlace > 0 => pl[t].LastPlace # pl[u].LastPlace

OthersUnplaced(pl, room, l) ==
    Live(room) => \A t \in Present(pl, l) : pl[t].Racing \/ pl[t].LastPlace = 0

RanksFollow(pl, room, l) ==
    room.State = "Results" =>
        \A t, u \in Present(pl, l) :
            /\ pl[t].Racing /\ pl[u].Racing /\ pl[t].Finished
            /\ pl[u].Finished => pl[t].FinishMs < pl[u].FinishMs
            => t = u \/ pl[t].LastPlace < pl[u].LastPlace

Ranked(pl, room, l) ==
    RanksDiffer(pl, l) /\ OthersUnplaced(pl, room, l) /\ RanksFollow(pl, room, l)

AllRanked == \A l \in Lobbies : Ranked(player, lobby[l], l)

\* Somebody who has no place, and is not on the results.
Unplaced(q, after) == q.LastPlace = 0 /\ ~(after.State = "Results" /\ q.Racing)

\* A player who keeps its place, and on the results its finish.
KeepsPlace(p, q, before, after) ==
    /\ q.LastPlace = p.LastPlace
    /\ Live(after) /\ ~q.Racing => Live(before) /\ ~p.Racing
    /\ after.State = "Results" /\ q.Racing =>
            /\ before.State = "Results" /\ p.Racing
            /\ q.Finished = p.Finished /\ q.FinishMs = p.FinishMs

\* A room in which everybody keeps a place or has none.
LEMMA RankedStays ==
    ASSUME NEW l \in Lobbies, Ranked(player, lobby[l], l), player \in [Token -> PlayerType],
           \A u \in Present(player', l) :
                \/ Unplaced(player'[u], lobby'[l])
                \/ u \in Present(player, l) /\ KeepsPlace(player[u], player'[u], lobby[l], lobby'[l])
    PROVE  Ranked(player', lobby'[l], l)
<1>1. \A u \in Present(player, l) : player[u].LastPlace \in Nat
    BY DEF Present, PlayerType
<1>2. RanksDiffer(player', l)
    <2> SUFFICES ASSUME NEW t \in Present(player', l), NEW u \in Present(player', l), t # u,
                        player'[t].LastPlace > 0
                 PROVE  player'[t].LastPlace # player'[u].LastPlace
        BY DEF RanksDiffer
    <2>1. t \in Present(player, l) /\ player'[t].LastPlace = player[t].LastPlace
        BY DEF Unplaced, KeepsPlace
    <2>2. \/ player'[u].LastPlace = 0
          \/ u \in Present(player, l) /\ player'[u].LastPlace = player[u].LastPlace
        BY DEF Unplaced, KeepsPlace
    <2> QED
        BY <1>1, <2>1, <2>2 DEF Ranked, RanksDiffer
<1>3. OthersUnplaced(player', lobby'[l], l)
    BY DEF OthersUnplaced, Unplaced, KeepsPlace, Ranked
<1>4. RanksFollow(player', lobby'[l], l)
    <2> SUFFICES ASSUME lobby'[l].State = "Results",
                        NEW t \in Present(player', l), NEW u \in Present(player', l),
                        player'[t].Racing, player'[u].Racing, player'[t].Finished,
                        player'[u].Finished => player'[t].FinishMs < player'[u].FinishMs
                 PROVE  t = u \/ player'[t].LastPlace < player'[u].LastPlace
        BY DEF RanksFollow
    <2>1. \A q \in {t, u} : q \in Present(player, l)
                            /\ KeepsPlace(player[q], player'[q], lobby[l], lobby'[l])
        BY DEF Unplaced
    <2>2. \A q \in {t, u} : /\ q \in Present(player, l) /\ player[q].Racing
                            /\ player'[q].LastPlace = player[q].LastPlace
                            /\ player'[q].Finished = player[q].Finished
                            /\ player'[q].FinishMs = player[q].FinishMs
                            /\ lobby[l].State = "Results"
        BY <2>1 DEF KeepsPlace
    <2> QED
        BY <2>2 DEF Ranked, RanksFollow
<1> QED
    BY <1>2, <1>3, <1>4 DEF Ranked

\* A room that goes on as it is or waits again.
CalmRoom(before, after) == after.State \in {before.State, "Waiting"}

\* One record changes, and no room starts or ends a race.
LEMMA OneRanked ==
    ASSUME IInv, AllRanked, NEW t \in Token, \A u \in Token \ {t} : player'[u] = player[u],
           \A l \in Lobbies : CalmRoom(lobby[l], lobby'[l]),
           \A l \in Lobbies : t \in Present(player', l) =>
                \/ Unplaced(player'[t], lobby'[l])
                \/ t \in Present(player, l)
                   /\ KeepsPlace(player[t], player'[t], lobby[l], lobby'[l])
    PROVE  AllRanked'
<1> SUFFICES ASSUME NEW l \in Lobbies PROVE Ranked(player', lobby'[l], l)
    BY DEF AllRanked
<1>1. CalmRoom(lobby[l], lobby'[l])
    OBVIOUS
<1>2. ASSUME NEW u \in Present(player', l), u # t
      PROVE  /\ u \in Present(player, l)
             /\ KeepsPlace(player[u], player'[u], lobby[l], lobby'[l])
    <2>1. u \in Present(player, l) /\ player'[u] = player[u]
        BY <1>2 DEF Present
    <2> QED
        BY <1>1, <2>1 DEF KeepsPlace, CalmRoom, Live
<1>3. Ranked(player, lobby[l], l) /\ player \in [Token -> PlayerType]
    BY DEF AllRanked, IInv, Sound, Typed
<1> QED
    BY <1>2, <1>3, RankedStays

-----------------------------------------------------------------------------
(* The packets.                                                            *)

\* HELLO, LEAVE, and JOIN with the spectate flag: nobody comes.
LEMMA AwayRanked ==
    ASSUME IInv, AllRanked, NEW t \in Token,
           Hello(t) \/ Leave(t) \/ \E id \in Lobbies : Spectate(t, id)
    PROVE  AllRanked'
<1> DEFINE pl == PlayersLeft(player, {t})
           lb == LobbiesLeft(player, lobby, {t})
<1>1. /\ pl \in [Token -> PlayerType] /\ pl[t].Lobby = NoLobby
      /\ \A u \in Token \ {t} : pl[u] = player[u]
      /\ lb \in [Lobbies -> LobbyType]
      /\ \A l \in Lobbies : lb[l].State \in {lobby[l].State, "Waiting"}
    <2>1. /\ Sound(pl, lb) /\ pl[t].Lobby = NoLobby
          /\ \A u \in Token \ {t} : pl[u] = player[u]
          /\ \A l \in Lobbies : lb[l].State \in {lobby[l].State, "Waiting"}
        BY LeaveSound DEF IInv
    <2> QED
        BY <2>1 DEF Sound, Typed
<1>2. player \in [Token -> PlayerType]
    BY DEF IInv, Sound, Typed
<1>3. /\ \A u \in Token \ {t} : player'[u] = player[u]
      /\ player'[t].Lobby = NoLobby \/ player'[t].Spectating
      /\ \A l \in Lobbies : CalmRoom(lobby[l], lobby'[l])
    <2>1. CASE Hello(t)
        BY <1>2, <2>1 DEF Hello, NewPlayer, CalmRoom
    <2>2. CASE Leave(t)
        BY <1>1, <2>2 DEF Leave, CalmRoom
    <2>3. ASSUME NEW id \in Lobbies, Spectate(t, id)
          PROVE  /\ \A u \in Token \ {t} : player'[u] = player[u]
                 /\ player'[t].Spectating
                 /\ \A l \in Lobbies : CalmRoom(lobby[l], lobby'[l])
        <3> DEFINE after == [lb[id] EXCEPT !.Watchers = @ \cup {t}]
        <3>1. player' = [pl EXCEPT ![t] =
                            [pl[t] EXCEPT !.Lobby = id, !.Slot = NoSlot, !.Spectating = TRUE,
                                          !.Racing = FALSE, !.Finished = FALSE, !.Kart = NoKart]]
            BY <2>3 DEF Spectate
        <3> HIDE DEF pl, lb
        <3>2. lobby' = [lb EXCEPT ![id] = after]
            BY <1>1, <2>3 DEF Spectate, lb
        <3>3. after.State = lb[id].State
            BY <1>1 DEF LobbyType
        <3> HIDE DEF after
        <3>4. \A l \in Lobbies : lobby'[l].State = lb[l].State
            BY <1>1, <3>2, <3>3
        <3>5. \A l \in Lobbies : CalmRoom(lobby[l], lobby'[l])
            BY <1>1, <3>4 DEF CalmRoom
        <3> QED
            BY <1>1, <3>1, <3>5 DEF PlayerType
    <2> QED
        BY <2>1, <2>2, <2>3
<1>4. \A l \in Lobbies : t \notin Present(player', l)
    BY <1>3 DEF Present, NoLobby, Lobbies
<1> QED
    BY <1>3, <1>4, OneRanked

\* RETIRE: whoever retires has no place.
LEMMA RetireRanked ==
    ASSUME IInv, AllRanked, NEW t \in Token, NEW raceID \in RaceIDs, Retire(t, raceID)
    PROVE  AllRanked'
<1>1. player \in [Token -> PlayerType]
    BY DEF IInv, Sound, Typed
<1>2. /\ player' = [player EXCEPT ![t] = Retired(player[t])] /\ lobby' = lobby
      /\ Retired(player[t]).LastPlace = 0 /\ ~Retired(player[t]).Racing
    BY <1>1 DEF Retire, Retired, PlayerType
<1>3. \A u \in Token \ {t} : player'[u] = player[u]
    BY <1>1, <1>2
<1>4. \A l \in Lobbies : CalmRoom(lobby[l], lobby'[l]) /\ Unplaced(player'[t], lobby'[l])
    BY <1>1, <1>2 DEF CalmRoom, Unplaced
<1> QED
    BY <1>3, <1>4, OneRanked

\* KART: no finish is taken once the results are up.
LEMMA KartRanked ==
    ASSUME IInv, AllRanked, NEW t \in Token, NEW raceID \in RaceIDs, NEW finished \in BOOLEAN,
           NEW ms \in Times, NEW dist \in Dists, Kart(t, raceID, finished, ms, dist)
    PROVE  AllRanked'
<1> DEFINE room == lobby[player[t].Lobby]
           finishes == finished /\ Finishes(player[t], room)
           q == [player[t] EXCEPT !.Kart = raceID,
                                  !.Progress = IF player[t].Finished THEN @ ELSE dist,
                                  !.Finished = @ \/ finishes,
                                  !.FinishMs = IF finishes THEN ms ELSE @]
<1>1. player \in [Token -> PlayerType] /\ player[t] \in PlayerType
    BY DEF IInv, Sound, Typed
<1>2. player' = [player EXCEPT ![t] = q] /\ lobby' = lobby /\ player[t].Racing
    BY DEF Kart, Racing
<1>3. finishes => room.State = "Racing"
    BY DEF Finishes
<1>4. finishes \in BOOLEAN
    OBVIOUS
<1> HIDE DEF finishes, room
<1>5. /\ q.Lobby = player[t].Lobby /\ q.Spectating = player[t].Spectating
      /\ q.LastPlace = player[t].LastPlace /\ q.Racing = player[t].Racing
      /\ q.Finished = (player[t].Finished \/ finishes)
      /\ q.FinishMs = IF finishes THEN ms ELSE player[t].FinishMs
    BY <1>1 DEF PlayerType
<1> HIDE DEF q
<1>6. player'[t] = q /\ \A u \in Token \ {t} : player'[u] = player[u]
    BY <1>1, <1>2
<1>7. ASSUME NEW l \in Lobbies, t \in Present(player', l)
      PROVE  /\ t \in Present(player, l)
             /\ KeepsPlace(player[t], player'[t], lobby[l], lobby'[l])
    <2>1. t \in Present(player, l) /\ lobby[l] = room
        BY <1>5, <1>6, <1>7 DEF Present, room
    <2>2. lobby[l].State = "Results" => ~finishes
        BY <1>3, <2>1
    <2>3. player[t].Finished \in BOOLEAN
        BY <1>1 DEF PlayerType
    <2>4. lobby[l].State = "Results" => q.Finished = player[t].Finished
                                        /\ q.FinishMs = player[t].FinishMs
        BY <1>5, <2>2, <2>3
    <2> QED
        BY <1>2, <1>5, <1>6, <2>1, <2>4 DEF KeepsPlace
<1>8. \A l \in Lobbies : CalmRoom(lobby[l], lobby'[l])
    BY <1>2 DEF CalmRoom
<1> QED
    BY <1>6, <1>7, <1>8, OneRanked

\* What a record on the lot looks like.
LEMMA OnLotUnplaced ==
    ASSUME NEW p \in PlayerType, NEW grid
    PROVE  /\ OnLot(p, grid).LastPlace = 0
           /\ OnLot(p, grid).Lobby = p.Lobby
BY DEF OnLot, PlayerType

\* JOIN: whoever comes has no place, and gets on a lot only while it is open.
LEMMA JoinRanked ==
    ASSUME IInv, AllRanked, NEW t \in Token, NEW id \in Lobbies, Join(t, id)
    PROVE  AllRanked'
<1> DEFINE pl == PlayersLeft(player, {t})
           lb == LobbiesLeft(player, lobby, {t})
           slot == FreeSlot(lobby[id])
           old == lb[id]
           colour == JoinColour(pl, old, t)
           seated == [pl[t] EXCEPT !.Lobby = id, !.Slot = slot, !.JoinSeq = joinSeq + 1,
                                   !.Points = 0, !.LastPlace = 0, !.Racing = FALSE,
                                   !.Finished = FALSE, !.Kart = NoKart, !.Colour = colour]
           grid == FreeGrid(pl, old)
           p == IF TakesLatecomers(old) THEN OnLot(seated, grid) ELSE seated
           after == [old EXCEPT !.Slots[slot] = t,
                                !.Leader = IF @ = NoSlot THEN slot ELSE @,
                                !.synced = @ /\ old.Leader # NoSlot]
<1>1. /\ Sound(pl, lb) /\ \A u \in Token \ {t} : pl[u] = player[u]
      /\ \A l \in Lobbies : lb[l].State \in {lobby[l].State, "Waiting"}
    BY LeaveSound DEF IInv
<1>2. pl \in [Token -> PlayerType] /\ lb \in [Lobbies -> LobbyType]
    BY <1>1 DEF Sound, Typed
<1>3. slot \in Slots
    BY FreeSlotFound DEF Join
<1>4. player' = [pl EXCEPT ![t] = p] /\ lobby' = [lb EXCEPT ![id] = after]
    BY DEF Join
<1>5. joinSeq + 1 \in Nat
    BY DEF IInv
<1> HIDE DEF pl, lb, slot
<1>6. after.State = old.State
    BY <1>2 DEF LobbyType
<1>7. /\ seated \in PlayerType /\ seated.Lobby = id /\ ~seated.Racing
      /\ seated.LastPlace = 0
    <2>1. colour \in AllColours
        BY <1>2, JoinColourType
    <2> HIDE DEF colour
    <2>2. /\ joinSeq + 1 \in Nat /\ 0 \in Nat /\ pl[t] \in PlayerType
          /\ id \in Lobbies \cup {NoLobby} /\ slot \in Slots \cup {NoSlot}
          /\ NoKart \in RaceIDs \cup {NoKart}
        BY <1>2, <1>3, <1>5
    <2>3. seated \in PlayerType
        BY ZenonT(60), <2>1, <2>2 DEF PlayerType
    <2>4. seated.Lobby = id /\ ~seated.Racing /\ seated.LastPlace = 0
        BY <2>2 DEF PlayerType
    <2> QED
        BY <2>3, <2>4
<1>8. TakesLatecomers(old) => old.State # "Results"
    BY DEF TakesLatecomers, Live
<1> HIDE DEF seated, grid, old, after
<1>9. p.LastPlace = 0 /\ p.Lobby = id /\ (p.Racing => old.State # "Results")
    BY <1>7, <1>8, OnLotUnplaced
<1> HIDE DEF p
<1>10. player'[t] = p /\ \A u \in Token \ {t} : player'[u] = player[u]
    BY <1>1, <1>2, <1>4
<1>11. lobby'[id].State = old.State /\ \A l \in Lobbies : CalmRoom(lobby[l], lobby'[l])
    BY <1>1, <1>2, <1>4, <1>6 DEF CalmRoom, old
<1>12. \A l \in Lobbies : t \in Present(player', l) => Unplaced(player'[t], lobby'[l])
    <2> TAKE l \in Lobbies
    <2> HAVE t \in Present(player', l)
    <2>1. l = id
        BY <1>9, <1>10 DEF Present
    <2> QED
        BY <1>9, <1>10, <1>11, <2>1 DEF Unplaced
<1> QED
    BY <1>10, <1>11, <1>12, OneRanked

\* WISH of a follower: back on the lot it has no place.
LEMMA FollowerRanked ==
    ASSUME IInv, AllRanked, NEW t \in Token, NEW wish \in WishType, FollowerWish(t, wish)
    PROVE  AllRanked'
<1> DEFINE l == player[t].Lobby
           room == lobby[l]
           colour == Repainted(t, wish.colour)
           grid == FreeGrid(player, room)
           painted == [player[t] EXCEPT !.Colour = colour]
           backOn == /\ player[t].nonceSeen
                     /\ wish.nonce # player[t].StartNonce
                     /\ ~player[t].Racing
                     /\ TakesLatecomers(room)
           moved == IF backOn THEN OnLot(painted, grid) ELSE painted
           p == [moved EXCEPT !.StartNonce = wish.nonce, !.nonceSeen = TRUE]
<1>1. player \in [Token -> PlayerType] /\ player[t] \in PlayerType
    BY DEF IInv, Sound, Typed
<1>2. player' = [player EXCEPT ![t] = p] /\ lobby' = lobby
    BY DEF FollowerWish
<1>3. /\ painted \in PlayerType /\ painted.Racing = player[t].Racing
      /\ painted.Lobby = l /\ painted.Spectating = player[t].Spectating
      /\ painted.LastPlace = player[t].LastPlace
      /\ painted.Finished = player[t].Finished /\ painted.FinishMs = player[t].FinishMs
    <2>1. colour \in AllColours
        BY <1>1 DEF Repainted, PlayerType, WishType
    <2> HIDE DEF colour
    <2> QED
        BY <1>1, <2>1 DEF PlayerType
<1>4. backOn => room.State # "Results"
    BY DEF TakesLatecomers, Live
<1>5. grid \in Nat
    BY FreeGridType
<1> HIDE DEF painted, backOn, colour, grid
<1>6. /\ moved \in PlayerType /\ moved.Lobby = l
      /\ backOn => moved.LastPlace = 0
      /\ ~backOn => moved = painted
    BY <1>3, <1>5, OnLotFacts, OnLotUnplaced
<1> HIDE DEF moved
<1>7. /\ p.Lobby = l /\ p.Spectating = moved.Spectating
      /\ p.Racing = moved.Racing /\ p.LastPlace = moved.LastPlace
      /\ p.Finished = moved.Finished /\ p.FinishMs = moved.FinishMs
    BY <1>6 DEF PlayerType
<1> HIDE DEF p
<1>8. player'[t] = p /\ \A u \in Token \ {t} : player'[u] = player[u]
    BY <1>1, <1>2
<1>9. ASSUME NEW d \in Lobbies, t \in Present(player', d)
      PROVE  \/ Unplaced(player'[t], lobby'[d])
             \/ t \in Present(player, d)
                /\ KeepsPlace(player[t], player'[t], lobby[d], lobby'[d])
    <2>1. d = l
        BY <1>7, <1>8, <1>9 DEF Present
    <2>2. CASE backOn
        BY <1>2, <1>4, <1>6, <1>7, <1>8, <2>1, <2>2 DEF Unplaced
    <2>3. CASE ~backOn
        <3>1. t \in Present(player, d)
            BY <1>3, <1>6, <1>7, <1>8, <1>9, <2>1, <2>3 DEF Present
        <3> QED
            BY <1>2, <1>3, <1>6, <1>7, <1>8, <2>3, <3>1 DEF KeepsPlace
    <2> QED
        BY <2>2, <2>3
<1>10. \A d \in Lobbies : CalmRoom(lobby[d], lobby'[d])
    BY <1>2 DEF CalmRoom
<1> QED
    BY <1>8, <1>9, <1>10, OneRanked

\* What a record on the grid of a new race looks like: its place is the one
\* of the race before.
LEMMA OnGridPlace ==
    ASSUME NEW pl \in [Token -> PlayerType], NEW room, NEW u \in Token
    PROVE  /\ OnGrid(pl, room)[u].LastPlace = pl[u].LastPlace
           /\ u \in Seated(room) => OnGrid(pl, room)[u].Racing = TRUE
           /\ u \notin Seated(room) => OnGrid(pl, room)[u] = pl[u]
<1>1. pl[u] \in PlayerType
    OBVIOUS
<1> QED
    BY <1>1 DEF OnGrid, PlayerType

\* WISH of the leader: a press puts everybody in the room into the race.
LEMMA LeaderWishRanked ==
    ASSUME IInv, AllRanked, NEW t \in Token, NEW wish \in WishType, LeaderWish(t, wish)
    PROVE  AllRanked'
<1> DEFINE l == player[t].Lobby
           room == lobby[l]
           press == IsPress(room, wish.nonce)
           colour == Repainted(t, wish.colour)
           p == [player[t] EXCEPT !.Colour = colour]
           painted == [player EXCEPT ![t].Colour = colour]
           picked == [Picked(room, wish) EXCEPT !.Nonce = wish.nonce, !.synced = TRUE]
           started == IF press THEN OnGrid(painted, picked) ELSE painted
           after == IF press THEN RaceStarted(picked) ELSE picked
           S == Present(player, l)
<1>1. /\ Sound(player, lobby)
      /\ player \in [Token -> PlayerType] /\ lobby \in [Lobbies -> LobbyType]
    BY DEF IInv, Sound, Typed
<1>2. /\ player' = [started EXCEPT ![t].StartNonce = wish.nonce, ![t].nonceSeen = TRUE]
      /\ lobby' = [lobby EXCEPT ![l] = after]
    BY DEF LeaderWish
<1>3. l \in Lobbies
    BY <1>1 DEF LeaderWish, Leads, InSlot, PlayerType
<1>4. /\ p \in PlayerType /\ p.Lobby = player[t].Lobby /\ p.Spectating = player[t].Spectating
      /\ p.LastPlace = player[t].LastPlace /\ p.Racing = player[t].Racing
      /\ p.Finished = player[t].Finished /\ p.FinishMs = player[t].FinishMs
    <2>1. colour \in AllColours
        BY <1>1 DEF Repainted, PlayerType, WishType
    <2>2. player[t] \in PlayerType
        BY <1>1
    <2> HIDE DEF colour
    <2> QED
        BY <2>1, <2>2 DEF PlayerType
<1>5. painted = [player EXCEPT ![t] = p]
    BY <1>1
<1>6. Seated(picked) = S /\ picked.State = room.State
      /\ (press => after.State = "Countdown")
    <2>1. room \in LobbyType /\ wish.track \in Tracks /\ wish.items \in BOOLEAN
          /\ wish.nonce \in Nonces
        BY <1>1, <1>3 DEF WishType
    <2>2. Seated(room) = S
        BY <1>1, <1>3, PresentSits
    <2> HIDE DEF room
    <2>3. /\ Picked(room, wish) \in LobbyType
          /\ Picked(room, wish).Slots = room.Slots /\ Picked(room, wish).State = room.State
        BY <2>1 DEF Picked, LobbyType
    <2>4. picked \in LobbyType /\ picked.Slots = room.Slots /\ picked.State = room.State
        BY <2>1, <2>3 DEF LobbyType
    <2> HIDE DEF picked
    <2>5. press => after.State = "Countdown"
        BY <2>4 DEF RaceStarted, LobbyType
    <2> QED
        BY <2>2, <2>4, <2>5 DEF Seated
<1> HIDE DEF p, colour, painted, picked, press, S, room
<1>7. /\ painted \in [Token -> PlayerType]
      /\ \A u \in Token :
            /\ painted[u].Lobby = player[u].Lobby
            /\ painted[u].Spectating = player[u].Spectating
            /\ painted[u].LastPlace = player[u].LastPlace
            /\ painted[u].Racing = player[u].Racing
            /\ painted[u].Finished = player[u].Finished
            /\ painted[u].FinishMs = player[u].FinishMs
    BY <1>1, <1>4, <1>5
<1>8. /\ started \in [Token -> PlayerType]
      /\ \A u \in Token :
            /\ started[u].Lobby = player[u].Lobby
            /\ started[u].Spectating = player[u].Spectating
            /\ started[u].LastPlace = player[u].LastPlace
            /\ press /\ u \in S => started[u].Racing
            /\ \/ press /\ u \in S
               \/ /\ started[u].Racing = player[u].Racing
                  /\ started[u].Finished = player[u].Finished
                  /\ started[u].FinishMs = player[u].FinishMs
    <2>1. Seated(picked) \subseteq Token
        BY <1>6 DEF Present, S
    <2>2. CASE press
        <3> DEFINE grid == OnGrid(painted, picked)
        <3>1. /\ grid \in [Token -> PlayerType]
              /\ \A u \in Token : /\ grid[u].Lobby = painted[u].Lobby
                                  /\ grid[u].Spectating = painted[u].Spectating
                                  /\ grid[u].LastPlace = painted[u].LastPlace
                                  /\ u \in S => grid[u].Racing = TRUE
                                  /\ u \notin S => grid[u] = painted[u]
            <4>1. /\ grid \in [Token -> PlayerType]
                  /\ \A u \in Token : /\ grid[u].Lobby = painted[u].Lobby
                                      /\ grid[u].Spectating = painted[u].Spectating
                BY <1>7, <2>1, OnGridFacts
            <4>2. \A u \in Token : /\ grid[u].LastPlace = painted[u].LastPlace
                                   /\ u \in S => grid[u].Racing = TRUE
                                   /\ u \notin S => grid[u] = painted[u]
                <5>1. painted \in [Token -> PlayerType] /\ Seated(picked) = S
                    BY <1>6, <1>7
                <5> QED
                    BY <5>1, OnGridPlace
            <4> QED
                BY <4>1, <4>2
        <3>2. started = grid
            BY <2>2
        <3> HIDE DEF grid, started
        <3>3. ASSUME NEW u \in Token
              PROVE  /\ started[u].Lobby = player[u].Lobby
                     /\ started[u].Spectating = player[u].Spectating
                     /\ started[u].LastPlace = player[u].LastPlace
                     /\ u \in S => started[u].Racing
                     /\ u \notin S => /\ started[u].Racing = player[u].Racing
                                      /\ started[u].Finished = player[u].Finished
                                      /\ started[u].FinishMs = player[u].FinishMs
            BY <1>7, <3>1, <3>2
        <3> QED
            BY <2>2, <3>1, <3>2, <3>3
    <2>3. CASE ~press
        BY <1>7, <2>3
    <2> QED
        BY <2>2, <2>3
<1> HIDE DEF started
<1>9. \A u \in Token : /\ player'[u].Lobby = started[u].Lobby
                       /\ player'[u].Spectating = started[u].Spectating
                       /\ player'[u].LastPlace = started[u].LastPlace
                       /\ player'[u].Racing = started[u].Racing
                       /\ player'[u].Finished = started[u].Finished
                       /\ player'[u].FinishMs = started[u].FinishMs
    <2> DEFINE q == [started[t] EXCEPT !.StartNonce = wish.nonce, !.nonceSeen = TRUE]
    <2>1. started[t] \in PlayerType
        BY <1>8
    <2>2. /\ q.Lobby = started[t].Lobby /\ q.Spectating = started[t].Spectating
          /\ q.LastPlace = started[t].LastPlace /\ q.Racing = started[t].Racing
          /\ q.Finished = started[t].Finished /\ q.FinishMs = started[t].FinishMs
        BY <2>1 DEF PlayerType
    <2>3. player' = [started EXCEPT ![t] = q]
        BY <1>2, <1>8
    <2> HIDE DEF q
    <2> QED
        BY <1>8, <2>2, <2>3
<1>10. /\ \A d \in Lobbies \ {l} : lobby'[d] = lobby[d]
       /\ press => lobby'[l].State = "Countdown"
       /\ ~press => lobby'[l].State = lobby[l].State
    BY <1>1, <1>2, <1>3, <1>6 DEF room
<1>11. ASSUME NEW d \in Lobbies PROVE Ranked(player', lobby'[d], d)
    <2>1. ASSUME NEW u \in Present(player', d)
          PROVE  /\ u \in Present(player, d)
                 /\ KeepsPlace(player[u], player'[u], lobby[d], lobby'[d])
        <3>1. u \in Present(player, d) /\ u \in Token
            BY <1>8, <1>9 DEF Present
        <3>2. u \in S <=> d = l
            BY <3>1 DEF Present, S
        <3>3. CASE press /\ d = l
            BY <1>8, <1>9, <1>10, <3>1, <3>2, <3>3 DEF KeepsPlace
        <3>4. CASE ~(press /\ d = l)
            <4>1. lobby'[d].State = lobby[d].State
                BY <1>10, <3>4
            <4>2. /\ player'[u].LastPlace = player[u].LastPlace
                  /\ player'[u].Racing = player[u].Racing
                  /\ player'[u].Finished = player[u].Finished
                  /\ player'[u].FinishMs = player[u].FinishMs
                BY <1>8, <1>9, <3>1, <3>2, <3>4
            <4> QED
                BY <3>1, <4>1, <4>2 DEF KeepsPlace, Live
        <3> QED
            BY <3>1, <3>3, <3>4
    <2> QED
        BY <1>1, <2>1, RankedStays DEF AllRanked
<1> QED
    BY <1>11 DEF AllRanked

-----------------------------------------------------------------------------
(* Tick.                                                                   *)

\* What advance makes of a record: it places the racers of a race that ends,
\* and leaves every other place alone.
LEMMA AdvancedPlace ==
    ASSUME NEW p \in PlayerType, NEW pl, NEW room, NEW verdict, NEW u, pl[u] = p
    PROVE  /\ PlayerAdvanced(pl, room, verdict, u).Lobby = p.Lobby
           /\ PlayerAdvanced(pl, room, verdict, u).Spectating = p.Spectating
           /\ verdict # "finish" => PlayerAdvanced(pl, room, verdict, u).LastPlace = p.LastPlace
           /\ verdict # "finish" /\ verdict # "toWaiting" =>
                    PlayerAdvanced(pl, room, verdict, u) = p
           /\ verdict = "finish" =>
                /\ PlayerAdvanced(pl, room, verdict, u).Racing = p.Racing
                /\ PlayerAdvanced(pl, room, verdict, u).Finished = p.Finished
                /\ PlayerAdvanced(pl, room, verdict, u).FinishMs = p.FinishMs
                /\ PlayerAdvanced(pl, room, verdict, u).LastPlace =
                        IF u \in Racers(pl, room) THEN PlaceOf(pl, room, u) ELSE p.LastPlace
<1> DEFINE q == PlayerAdvanced(pl, room, verdict, u)
           place == PlaceOf(pl, room, u)
           points == AwardPoints(p.Points, place)
           placed == [p EXCEPT !.LastPlace = place, !.Points = points]
           off == [p EXCEPT !.Racing = FALSE, !.Finished = FALSE, !.Kart = NoKart]
<1>1. /\ verdict = "finish" => q = IF u \in Racers(pl, room) THEN placed ELSE p
      /\ verdict = "toWaiting" => q = IF u \in Seated(room) THEN off ELSE p
      /\ verdict # "finish" /\ verdict # "toWaiting" => q = p
    BY DEF PlayerAdvanced, Placed, OffTrack
<1>2. /\ placed.Lobby = p.Lobby /\ placed.Spectating = p.Spectating
      /\ placed.Racing = p.Racing /\ placed.LastPlace = place
      /\ placed.Finished = p.Finished /\ placed.FinishMs = p.FinishMs
    <2> HIDE DEF place, points
    <2> QED
        BY DEF PlayerType
<1>3. off.Lobby = p.Lobby /\ off.Spectating = p.Spectating /\ off.LastPlace = p.LastPlace
    BY DEF PlayerType
<1> HIDE DEF q, placed, off, place
<1>4. /\ q.Lobby = p.Lobby /\ q.Spectating = p.Spectating
      /\ verdict # "finish" => q.LastPlace = p.LastPlace
      /\ verdict # "finish" /\ verdict # "toWaiting" => q = p
      /\ verdict = "finish" =>
                /\ q.Racing = p.Racing /\ q.Finished = p.Finished /\ q.FinishMs = p.FinishMs
                /\ q.LastPlace = IF u \in Racers(pl, room) THEN place ELSE p.LastPlace
    BY <1>1, <1>2, <1>3
<1> QED
    BY <1>4 DEF q, place

\* A race that ends gives its racers different places, in the order of their
\* finishes, and nobody else has one.
LEMMA RaceRanked ==
    ASSUME NEW pl, NEW lb, Sound(pl, lb), NEW l \in Lobbies,
           \A u \in Present(pl, l) : pl[u].Racing \/ pl[u].LastPlace = 0,
           NEW pm, Present(pm, l) = Present(pl, l),
           \A u \in Present(pl, l) : pm[u] = PlayerAdvanced(pl, lb[l], "finish", u),
           NEW after, after.State = "Results"
    PROVE  Ranked(pm, after, l)
<1> DEFINE room == lb[l]
           M == Present(pl, l)
           R == Racers(pl, room)
           place(u) == PlaceOf(pl, room, u)
<1>1. /\ pl \in [Token -> PlayerType] /\ Seated(room) = M /\ M \subseteq Token
    BY PresentSits DEF Sound, Typed, Present
<1>2. R \subseteq M /\ \A u \in M : u \in R <=> pl[u].Racing
    BY <1>1 DEF Racers
<1>3. \A u \in M : /\ pm[u].Racing = pl[u].Racing /\ pm[u].Finished = pl[u].Finished
                   /\ pm[u].FinishMs = pl[u].FinishMs
                   /\ u \in R => pm[u].LastPlace = place(u)
                   /\ u \notin R => pm[u].LastPlace = 0
    BY <1>1, <1>2, AdvancedPlace
<1>4. \A u \in M : /\ pl[u].Slot \in Nat /\ room.Slots[pl[u].Slot] = u
                   /\ pl[u].Finished \in BOOLEAN /\ pl[u].FinishMs \in Nat
    <2> TAKE u \in M
    <2>1. u \in Token /\ pl[u].Lobby = l /\ ~pl[u].Spectating
        BY DEF Present
    <2>2. pl[u].Slot \in Slots
        BY <1>1, <2>1 DEF Sound, Seating, PlayerType, NoLobby, Lobbies
    <2>3. pl[u].Slot \in Nat
        BY <2>2 DEF Slots
    <2>4. room.Slots[pl[u].Slot] = u
        BY <2>1, <2>2 DEF Sound, Seating
    <2> QED
        BY <1>1, <2>1, <2>3, <2>4 DEF PlayerType
<1>5. ASSUME NEW t \in R, NEW u \in R, PlaceBefore(pl, t, u)
      PROVE  place(t) < place(u)
    BY <1>1, <1>2, <1>4, <1>5, PlacesFollow
<1>6. ASSUME NEW t \in R, NEW u \in R, t # u
      PROVE  PlaceBefore(pl, t, u) \/ PlaceBefore(pl, u, t)
    <2>1. t \in Token /\ u \in Token /\ pl[t].Slot # pl[u].Slot
        BY <1>1, <1>2, <1>4, <1>6
    <2> QED
        BY <1>1, <1>2, <1>4, <2>1, PlacesOrder
<1>7. \A u \in R : place(u) \in Nat
    BY CountType, <1>1, <1>2 DEF PlaceOf
<1> HIDE DEF place, M, R
<1>8. RanksDiffer(pm, l)
    <2> SUFFICES ASSUME NEW t \in M, NEW u \in M, t # u, pm[t].LastPlace > 0
                 PROVE  pm[t].LastPlace # pm[u].LastPlace
        BY DEF RanksDiffer, M
    <2>1. CASE t \in R /\ u \in R
        <3>1. place(t) # place(u)
            BY <1>5, <1>6, <1>7, <2>1
        <3> QED
            BY <1>3, <2>1, <3>1
    <2>2. CASE t \notin R \/ u \notin R
        BY <1>3, <2>2
    <2> QED
        BY <2>1, <2>2
<1>9. OthersUnplaced(pm, after, l)
    BY DEF OthersUnplaced, Live
<1>10. RanksFollow(pm, after, l)
    <2> SUFFICES ASSUME NEW t \in M, NEW u \in M, pm[t].Racing, pm[u].Racing, pm[t].Finished,
                        pm[u].Finished => pm[t].FinishMs < pm[u].FinishMs, t # u
                 PROVE  pm[t].LastPlace < pm[u].LastPlace
        BY DEF RanksFollow, M
    <2>1. t \in R /\ u \in R
        BY <1>2, <1>3
    <2>2. PlaceBefore(pl, t, u)
        <3>1. pl[t].Finished /\ (pl[u].Finished => pl[t].FinishMs < pl[u].FinishMs)
            BY <1>3
        <3> QED
            BY <1>4, <3>1 DEF PlaceBefore
    <2> QED
        BY <1>3, <1>5, <2>1, <2>2
<1> QED
    BY <1>8, <1>9, <1>10 DEF Ranked

\* Tick: the silent go, and every race that ends places those left in it.
LEMMA TickRanked ==
    ASSUME IInv, AllRanked, NEW silent \in SUBSET sessions, NEW due, Tick(silent, due)
    PROVE  AllRanked'
<1> DEFINE pk == PlayersLeft(player, silent)
           pl == [t \in Token |-> IF t \in silent THEN NewPlayer ELSE player[t]]
           lb == LobbiesLeft(player, lobby, silent)
           verdict == [l \in Lobbies |-> Verdict(pl, l, lb[l], l \in due)]
<1>1. silent \in SUBSET Token
    BY DEF IInv
<1>2. /\ Sound(pk, lb)
      /\ \A t \in silent : pk[t].Lobby = NoLobby
      /\ \A t \in Token \ silent : pk[t] = player[t]
      /\ \A l \in Lobbies : lb[l].State \in {lobby[l].State, "Waiting"}
    BY <1>1, LeaveSound DEF IInv
<1>3. /\ NewPlayer \in PlayerType /\ NewPlayer.Lobby = NoLobby
    BY ColourAssumption, WishAssumption
    DEF NewPlayer, PlayerType, AllColours, ColourCustom, NoLobby, NoSlot
<1>4. /\ pl \in [Token -> PlayerType]
      /\ \A t \in silent : pl[t] = NewPlayer
      /\ \A t \in Token \ silent : pl[t] = player[t]
    BY <1>1, <1>3 DEF IInv, Sound, Typed
<1>5. /\ player' = [t \in Token |-> IF pl[t].Lobby = NoLobby THEN pl[t]
                            ELSE PlayerAdvanced(pl, lb[pl[t].Lobby], verdict[pl[t].Lobby], t)]
      /\ lobby' = [l \in Lobbies |-> LobbyAdvanced(lb[l], verdict[l])]
    BY DEF Tick
<1> HIDE DEF pk, pl, lb
<1>6. Sound(pl, lb)
    <2>1. \A t \in Token : pl[t] = pk[t] \/ (pk[t].Lobby = NoLobby /\ pl[t] = NewPlayer)
        BY <1>2, <1>4
    <2> QED
        BY <1>2, <1>4, <2>1, OutsideSound
<1>7. \A l \in Lobbies : verdict[l] = Verdict(pl, l, lb[l], l \in due)
    OBVIOUS
<1> HIDE DEF verdict
<1>8. ASSUME NEW u \in Token
      PROVE  /\ player'[u].Lobby = pl[u].Lobby /\ player'[u].Spectating = pl[u].Spectating
             /\ pl[u].Lobby # NoLobby =>
                    player'[u] = PlayerAdvanced(pl, lb[pl[u].Lobby], verdict[pl[u].Lobby], u)
    <2>1. pl[u] \in PlayerType
        BY <1>4
    <2> QED
        BY <1>5, <2>1, AdvancedPlace
<1> SUFFICES ASSUME NEW l \in Lobbies PROVE Ranked(player', lobby'[l], l)
    BY DEF AllRanked
<1> DEFINE room == lb[l]
           v == verdict[l]
<1>9. /\ Present(player', l) = Present(pl, l)
      /\ \A u \in Present(pl, l) :
            /\ u \in Present(player, l) /\ pl[u] = player[u] /\ pl[u] \in PlayerType
            /\ player'[u] = PlayerAdvanced(pl, room, v, u)
    <2>1. Present(player', l) = Present(pl, l)
        BY <1>8 DEF Present
    <2>2. ASSUME NEW u \in Present(pl, l)
          PROVE  /\ u \in Present(player, l) /\ pl[u] = player[u] /\ pl[u] \in PlayerType
                 /\ player'[u] = PlayerAdvanced(pl, room, v, u)
        <3>1. u \in Token /\ pl[u].Lobby = l /\ ~pl[u].Spectating /\ l # NoLobby
            BY DEF Present, NoLobby, Lobbies
        <3>2. u \notin silent
            BY <1>3, <1>4, <3>1
        <3> QED
            BY <1>4, <1>8, <3>1, <3>2 DEF Present
    <2> QED
        BY <2>1, <2>2
<1>10. room \in LobbyType /\ lobby'[l] = LobbyAdvanced(room, v)
       /\ room.State \in {lobby[l].State, "Waiting"}
    BY <1>2, <1>5, <1>6 DEF Sound, Typed
<1>11. Ranked(player, lobby[l], l) /\ player \in [Token -> PlayerType]
    BY DEF AllRanked, IInv, Sound, Typed
<1>12. v = Verdict(pl, l, room, l \in due)
    BY <1>7
<1> HIDE DEF v, room
<1>13. /\ v \in {"toWaiting", "green", "finish", "stay"}
       /\ v = "green" => room.State = "Countdown"
       /\ v = "finish" => room.State = "Racing"
    BY <1>12 DEF Verdict
<1>14. CASE v = "finish"
    <2>1. lobby'[l].State = "Results"
        BY <1>10, <1>14 DEF LobbyAdvanced, LobbyType
    <2>2. lobby[l].State = "Racing"
        BY <1>10, <1>13, <1>14
    <2>3. \A u \in Present(pl, l) : pl[u].Racing \/ pl[u].LastPlace = 0
        BY <1>9, <1>11, <2>2 DEF Ranked, OthersUnplaced, Live
    <2>4. \A u \in Present(pl, l) : player'[u] = PlayerAdvanced(pl, lb[l], "finish", u)
        BY <1>9, <1>14 DEF room
    <2> QED
        BY <1>6, <1>9, <2>1, <2>3, <2>4, RaceRanked
<1>15. CASE v = "toWaiting"
    <2>1. lobby'[l].State = "Waiting"
        BY <1>10, <1>15 DEF LobbyAdvanced, LobbyType
    <2>2. \A u \in Present(player', l) :
                u \in Present(player, l) /\ player'[u].LastPlace = player[u].LastPlace
        BY <1>9, <1>15, AdvancedPlace
    <2>3. \A u \in Present(player', l) :
                u \in Present(player, l) /\ KeepsPlace(player[u], player'[u], lobby[l], lobby'[l])
        BY <2>1, <2>2 DEF KeepsPlace, Live
    <2> QED
        BY <1>11, <2>3, RankedStays
<1>16. CASE v \in {"green", "stay"}
    <2>1. \A u \in Present(player', l) : u \in Present(player, l) /\ player'[u] = player[u]
        BY <1>9, <1>16, AdvancedPlace
    <2>2. /\ Live(lobby'[l]) => Live(lobby[l])
          /\ lobby'[l].State = "Results" => lobby[l].State = "Results"
        BY <1>10, <1>13, <1>16 DEF LobbyAdvanced, LobbyType, Live
    <2>3. \A u \in Present(player', l) :
                u \in Present(player, l) /\ KeepsPlace(player[u], player'[u], lobby[l], lobby'[l])
        BY <2>1, <2>2 DEF KeepsPlace
    <2> QED
        BY <1>11, <2>3, RankedStays
<1> QED
    BY <1>13, <1>14, <1>15, <1>16

-----------------------------------------------------------------------------
(* The theorems.                                                           *)

\* Every packet and every tick keeps the places right.
LEMMA StepRanked ==
    ASSUME IInv, AllRanked, [Next]_vars
    PROVE  AllRanked'
<1>1. ASSUME NEW t \in Token, Handle(t) PROVE AllRanked'
    BY <1>1, AwayRanked, RetireRanked, KartRanked, JoinRanked, FollowerRanked,
       LeaderWishRanked, WishAssumption DEF Handle
<1>2. ASSUME NEW silent \in SUBSET sessions, NEW due \in SUBSET Timed, Tick(silent, due)
      PROVE  AllRanked'
    BY <1>2, TickRanked
<1>3. CASE UNCHANGED vars
    BY <1>3 DEF vars, AllRanked
<1> QED
    BY <1>1, <1>2, <1>3 DEF Next

LEMMA RanksSound == Spec => [](IInv /\ AllRanked)
<1>1. Init => AllRanked
    BY DEF Init, NewPlayer, AllRanked, Ranked, RanksDiffer, OthersUnplaced, RanksFollow,
           Present, NoLobby, Lobbies
<1>2. IInv /\ AllRanked /\ [Next]_vars => (IInv /\ AllRanked)'
    BY NextSound, StepRanked
<1> QED
    BY <1>1, <1>2, InitSound, PTL DEF Spec

\* Nobody in a room shares a place with anybody else there.
THEOREM PlacesDiffer == Spec => []PlacesDistinct
<1>1. AllRanked => PlacesDistinct
    BY DEF AllRanked, Ranked, RanksDiffer, Present, PlacesDistinct, Members, InLobby
<1> QED
    BY <1>1, RanksSound, PTL

\* The places of a race follow the finishes for as long as the results are up.
THEOREM PlacesStand == Spec => []PlacesMatchFinish
<1>1. ASSUME IInv, AllRanked, NEW l \in Lobbies, lobby[l].State = "Results",
             NEW t \in Racers(player, lobby[l]), NEW u \in Racers(player, lobby[l]),
             player[t].Finished /\ (player[u].Finished => player[t].FinishMs < player[u].FinishMs)
      PROVE  t = u \/ player[t].LastPlace < player[u].LastPlace
    <2>1. Seated(lobby[l]) = Present(player, l)
        BY <1>1, PresentSits DEF IInv
    <2>2. /\ t \in Present(player, l) /\ player[t].Racing
          /\ u \in Present(player, l) /\ player[u].Racing
        BY <2>1 DEF Racers
    <2>3. RanksFollow(player, lobby[l], l)
        BY <1>1 DEF AllRanked, Ranked
    <2> QED
        BY <1>1, <2>2, <2>3 DEF RanksFollow
<1>2. IInv /\ AllRanked => PlacesMatchFinish
    BY <1>1 DEF PlacesMatchFinish
<1> QED
    BY <1>2, RanksSound, PTL
=============================================================================
