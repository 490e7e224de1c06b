-------------------------- MODULE LobbyRoomsProofs --------------------------
(***************************************************************************)
(* The lobby server implements Rooms, for any number of consoles, rooms    *)
(* and slots: every step of the server is a step of Rooms or a stutter.    *)
(*                                                                         *)
(* The inductive invariant of LobbyServerProofs is all that is needed:     *)
(* slots and records agree, leaders are earliest, hosts lead, racers       *)
(* belong.                                                                 *)
(***************************************************************************)
EXTENDS LobbyRooms, LobbyServerProofs

-----------------------------------------------------------------------------
(* What the mapping makes of a sound state.                                *)

\* The players whose records name a room are those in its slots.
LEMMA PresentSits ==
    ASSUME NEW pl, NEW lb, Sound(pl, lb), NEW l \in Lobbies
    PROVE  Seated(lb[l]) = Present(pl, l)
<1>1. pl \in [Token -> PlayerType] /\ lb \in [Lobbies -> LobbyType] /\ Nil \notin Token
    BY TokenAssumption DEF Sound, Typed
<1>2. ASSUME NEW t \in Seated(lb[l])
      PROVE  t \in Present(pl, l)
    BY <1>1, <1>2, SeatedSits DEF Seated, Present
<1>3. ASSUME NEW t \in Present(pl, l)
      PROVE  t \in Seated(lb[l])
    <2>1. t \in Token /\ pl[t].Lobby = l /\ ~pl[t].Spectating
        BY <1>3 DEF Present
    <2>2. pl[t].Slot \in Slots
        <3>1. pl[t].Slot # NoSlot
            BY <2>1 DEF Sound, Seating, NoLobby, Lobbies
        <3> QED
            BY <1>1, <2>1, <3>1 DEF PlayerType
    <2>3. lb[l].Slots[pl[t].Slot] = t
        BY <2>1, <2>2 DEF Sound, Seating
    <2> QED
        BY <1>1, <2>1, <2>2, <2>3 DEF Seated
<1> QED
    BY <1>2, <1>3

\* The leader is who came first.
LEMMA LeaderFirst ==
    ASSUME NEW pl, NEW lb, Sound(pl, lb), NEW l \in Lobbies
    PROVE  LeaderToken(lb[l]) = Abstract!First(Present(pl, l), JoinOrder(pl, l))
<1> DEFINE M == Present(pl, l)
           a == LeaderToken(lb[l])
<1>1. lb[l] \in LobbyType /\ Led(pl, lb[l]) /\ NoSlot \notin Slots
    BY DEF Sound, Typed, NoSlot, Slots
<1>2. Seated(lb[l]) = M
    BY PresentSits
<1>3. CASE lb[l].Leader = NoSlot
    <2>1. M = {}
        BY <1>1, <1>2, <1>3 DEF Led, Seated
    <2> QED
        BY <1>3, <2>1 DEF LeaderToken, Abstract!First
<1>4. CASE lb[l].Leader # NoSlot
    <2>1. lb[l].Leader \in Slots /\ a = lb[l].Slots[lb[l].Leader] /\ a # Nil
        BY <1>1, <1>4 DEF LobbyType, Led, LeaderToken
    <2>2. a \in M
        BY <1>2, <2>1 DEF Seated
    <2>3. \A n \in M \ {a} : pl[a].JoinSeq < pl[n].JoinSeq
        BY <1>1, <1>2, <1>4, <2>1 DEF Led, Seated
    <2>4. \A n \in M \ {a} : <<a, n>> \in JoinOrder(pl, l)
        BY <2>2, <2>3 DEF JoinOrder
    <2>5. \A m \in M : (\A n \in M \ {m} : <<m, n>> \in JoinOrder(pl, l)) => m = a
        <3> SUFFICES ASSUME NEW m \in M, m # a, <<m, a>> \in JoinOrder(pl, l)
                     PROVE  FALSE
            BY <2>2
        <3>1. pl[m].JoinSeq < pl[a].JoinSeq
            BY DEF JoinOrder
        <3>2. pl[a].JoinSeq < pl[m].JoinSeq
            BY <2>3
        <3>3. pl[a].JoinSeq \in Nat /\ pl[m].JoinSeq \in Nat
            BY <2>2 DEF Present, Sound, Typed, PlayerType
        <3> QED
            BY <3>1, <3>2, <3>3
    <2> HIDE DEF M, a
    <2>6. (CHOOSE m \in M : \A n \in M \ {m} : <<m, n>> \in JoinOrder(pl, l)) = a
        BY <2>2, <2>4, <2>5
    <2> QED
        BY <2>2, <2>6 DEF Abstract!First, M, a
<1> QED
    BY <1>3, <1>4

\* The host of a race is in its room.
LEMMA HostPresent ==
    ASSUME NEW pl, NEW lb, Sound(pl, lb), NEW l \in Lobbies, lb[l].Host # Nil
    PROVE  /\ lb[l].Host \in Present(pl, l)
           /\ lb[l].Host = LeaderToken(lb[l])
           /\ HostGone(pl, l, lb[l]) <=> ~pl[lb[l].Host].Racing
<1>1. /\ lb[l] \in LobbyType /\ Hosted(lb[l]) /\ Led(pl, lb[l])
    BY DEF Sound, Typed
<1>2. lb[l].Leader \in Slots /\ lb[l].Host = lb[l].Slots[lb[l].Leader]
    BY <1>1 DEF LobbyType, Hosted
<1>3. lb[l].Host \in Seated(lb[l])
    BY <1>2 DEF Seated
<1>4. lb[l].Host \in Present(pl, l)
    BY <1>3, PresentSits
<1> QED
    BY <1>1, <1>2, <1>4 DEF LeaderToken, Hosted, HostGone, Present

-----------------------------------------------------------------------------
(* leave.                                                                  *)

\* Players who leave, or are replaced by new ones, are in no room.
LEMMA GonePresent ==
    ASSUME Sound(player, lobby), NEW T \in SUBSET Token, NEW pm,
           \A t \in T : pm[t].Lobby = NoLobby,
           \A t \in Token \ T : pm[t] = player[t],
           NEW l \in Lobbies
    PROVE  /\ Present(pm, l) = Present(player, l) \ T
           /\ JoinOrder(pm, l) = Abstract!Among(JoinOrder(player, l), Present(player, l) \ T)
<1>1. Present(pm, l) = Present(player, l) \ T
    BY DEF Present, NoLobby, Lobbies
<1>2. \A t \in Present(pm, l) : pm[t] = player[t]
    BY <1>1 DEF Present
<1>3. ASSUME NEW p \in JoinOrder(pm, l)
      PROVE  p \in Abstract!Among(JoinOrder(player, l), Present(player, l) \ T)
    BY <1>1, <1>2, <1>3 DEF JoinOrder, Abstract!Among
<1>4. ASSUME NEW p \in Abstract!Among(JoinOrder(player, l), Present(player, l) \ T)
      PROVE  p \in JoinOrder(pm, l)
    BY <1>1, <1>2, <1>4 DEF JoinOrder, Abstract!Among
<1>5. JoinOrder(pm, l) = Abstract!Among(JoinOrder(player, l), Present(player, l) \ T)
    BY <1>3, <1>4
<1> QED
    BY <1>1, <1>5

\* What leave does to the race that is on.
LEMMA GoneRace ==
    ASSUME Sound(player, lobby), NEW T \in SUBSET Token, NEW pm,
           \A t \in T : pm[t].Lobby = NoLobby,
           \A t \in Token \ T : pm[t] = player[t],
           NEW l \in Lobbies
    PROVE  RaceOf(pm, LobbiesLeft(player, lobby, T)[l], l) = Abstract!RaceWithout(l, T)
<1> DEFINE room == lobby[l]
           out == LobbiesLeft(player, lobby, T)[l]
           rest == Seated(room) \ T
           on == RaceOf(player, room, l)
<1>1. room \in LobbyType /\ Nil \notin Token /\ Seated(room) = Present(player, l)
    BY TokenAssumption, PresentSits DEF Sound, Typed
<1>2. /\ Present(pm, l) = rest
      /\ \A t \in rest : pm[t] = player[t]
    <2>1. /\ Present(pm, l) = Present(player, l) \ T
          /\ \A t \in Present(pm, l) : pm[t] = player[t]
        BY DEF Present, NoLobby, Lobbies
    <2> QED
        BY <1>1, <2>1
<1>3. out = LobbyLeft(player, room, T)
    BY DEF LobbiesLeft
<1>4. CASE rest = {} /\ Seated(room) # {}
    <2>1. out = Vacated(room, T)
        BY <1>3, <1>4 DEF LobbyLeft
    <2>2. out.State = "Waiting" /\ out.Host = Nil
        BY <2>1, <1>1 DEF Vacated, NewLobby, LobbyType
    <2> HIDE DEF out
    <2>3. RaceOf(pm, out, l) = Abstract!NoRace
        BY <1>2, <1>4, <2>2 DEF RaceOf, Live, HostGone, Abstract!NoRace
    <2>4. Abstract!RaceWithout(l, T) = Abstract!NoRace
        BY <1>1, <1>4 DEF Abstract!RaceWithout, members, race
    <2> QED
        BY <2>3, <2>4 DEF out
<1>5. CASE ~(rest = {} /\ Seated(room) # {})
    <2>1. out.State = room.State /\ out.Track = room.Track /\ out.Host = HostLeft(room, T)
        <3>1. HostLeft(room, T) \in Token \cup {Nil} /\ SlotsLeft(room, T) \in [Slots -> Token \cup {Nil}]
            BY <1>1 DEF HostLeft, SlotsLeft, LobbyType
        <3> DEFINE heir == Earliest(player, rest)
                   thinned == [room EXCEPT !.Slots = SlotsLeft(room, T), !.Watchers = @ \ T,
                                           !.Host = HostLeft(room, T)]
        <3>2. /\ thinned.State = room.State /\ thinned.Track = room.Track
              /\ thinned.Host = HostLeft(room, T)
              /\ LET x == [thinned EXCEPT !.Leader = player[heir].Slot,
                                          !.Nonce = player[heir].StartNonce, !.synced = TRUE]
                 IN  x.State = room.State /\ x.Track = room.Track /\ x.Host = HostLeft(room, T)
            BY <1>1 DEF LobbyType
        <3>3. out = thinned
                \/ out = [thinned EXCEPT !.Leader = player[heir].Slot,
                                         !.Nonce = player[heir].StartNonce, !.synced = TRUE]
            BY <1>3, <1>5 DEF LobbyLeft
        <3> QED
            BY <3>2, <3>3
    <2> HIDE DEF out
    <2>2. Live(out) = Live(room) /\ Roam(out) = Roam(room)
        BY <2>1 DEF Live, Roam
    <2>3. {t \in Present(pm, l) : pm[t].Racing} = {t \in Present(player, l) : player[t].Racing} \ T
        BY <1>1, <1>2
    <2>4. (IF HostGone(pm, l, out) THEN Nil ELSE out.Host)
            = (IF (IF HostGone(player, l, room) THEN Nil ELSE room.Host) \in T THEN Nil
               ELSE IF HostGone(player, l, room) THEN Nil ELSE room.Host)
        <3>1. CASE room.Host = Nil
            BY <1>1, <2>1, <3>1 DEF HostLeft, HostGone
        <3>2. CASE room.Host \in T
            BY <1>1, <2>1, <3>2 DEF HostLeft, HostGone
        <3>3. CASE room.Host # Nil /\ room.Host \notin T
            <4>1. out.Host = room.Host /\ pm[room.Host] = player[room.Host]
                BY <1>1, <2>1, <3>3 DEF HostLeft, LobbyType
            <4> QED
                BY <1>1, <3>3, <4>1 DEF HostGone
        <3> QED
            BY <3>1, <3>2, <3>3
    <2>5. Abstract!RaceWithout(l, T) =
            Abstract!Off(on, T)
        <3>1. ~(Present(player, l) # {} /\ Present(player, l) \subseteq T)
            BY <1>1, <1>5
        <3> QED
            BY <3>1 DEF Abstract!RaceWithout, members, race
    <2> QED
        BY <2>1, <2>2, <2>3, <2>4, <2>5 DEF RaceOf, Abstract!Off, out
<1> QED
    BY <1>4, <1>5

-----------------------------------------------------------------------------
(* The steps of the server.                                                *)

\* The leaders are the first of their rooms in every sound state.
LEMMA LeadersKept ==
    ASSUME IInv'
    PROVE  leader' = [d \in Lobbies |-> Abstract!First(members'[d], order'[d])]
<1>1. \A l \in Lobbies :
        LeaderToken(lobby'[l]) = Abstract!First(Present(player', l), JoinOrder(player', l))
    BY LeaderFirst DEF IInv
<1> QED
    BY <1>1 DEF leader, members, order

\* Whoever moves nowhere leaves memberships and leaders as they were.
LEMMA SeatsKept ==
    ASSUME \A t \in Token : /\ player'[t].Lobby = player[t].Lobby
                            /\ player'[t].Spectating = player[t].Spectating
                            /\ player'[t].JoinSeq = player[t].JoinSeq
    PROVE  /\ \A l \in Lobbies : Present(player', l) = Present(player, l)
           /\ UNCHANGED <<members, order>>
<1>1. \A l \in Lobbies : Present(player', l) = Present(player, l)
    BY DEF Present
<1>2. \A l \in Lobbies : JoinOrder(player', l) = JoinOrder(player, l)
    <2> TAKE l \in Lobbies
    <2>1. \A t \in Present(player, l) : player'[t].JoinSeq = player[t].JoinSeq
        BY DEF Present
    <2> QED
        BY <1>1, <2>1 DEF JoinOrder
<1> QED
    BY <1>1, <1>2 DEF members, order

\* What a race is to the players hangs on where they are and who races.
LEMMA RaceSame ==
    ASSUME NEW l \in Lobbies, lobby[l] \in LobbyType,
           \A t \in Token : /\ player'[t].Lobby = player[t].Lobby
                            /\ player'[t].Spectating = player[t].Spectating
                            /\ player'[t].Racing = player[t].Racing,
           lobby'[l].State = lobby[l].State, lobby'[l].Host = lobby[l].Host,
           lobby[l].State = "Waiting" \/ lobby'[l].Track = lobby[l].Track
    PROVE  RaceOf(player', lobby'[l], l) = RaceOf(player, lobby[l], l)
<1>1. (Live(lobby'[l]) /\ Roam(lobby'[l])) = (Live(lobby[l]) /\ Roam(lobby[l]))
    BY DEF Live, Roam
<1>2. {t \in Present(player', l) : player'[t].Racing} = {t \in Present(player, l) : player[t].Racing}
    BY DEF Present
<1>3. HostGone(player', l, lobby'[l]) <=> HostGone(player, l, lobby[l])
    BY DEF HostGone, LobbyType
<1> QED
    BY <1>1, <1>2, <1>3 DEF RaceOf

\* A handler that changes nothing a player is promised.
LEMMA StutterKept ==
    ASSUME IInv,
           \A t \in Token : /\ player'[t].Lobby = player[t].Lobby
                            /\ player'[t].Spectating = player[t].Spectating
                            /\ player'[t].JoinSeq = player[t].JoinSeq
                            /\ player'[t].Racing = player[t].Racing,
           \A l \in Lobbies :
                /\ lobby'[l].State = lobby[l].State /\ lobby'[l].Host = lobby[l].Host
                /\ lobby'[l].Slots = lobby[l].Slots /\ lobby'[l].Leader = lobby[l].Leader
                /\ lobby[l].State = "Waiting" \/ lobby'[l].Track = lobby[l].Track
    PROVE  UNCHANGED Abstract!vars
<1>1. UNCHANGED <<members, order>>
    BY SeatsKept
<1>2. UNCHANGED race
    <2>1. \A l \in Lobbies : RaceOf(player', lobby'[l], l) = RaceOf(player, lobby[l], l)
        BY RaceSame DEF IInv, Sound, Typed
    <2> QED
        BY <2>1 DEF race
<1>3. UNCHANGED leader
    BY DEF leader, LeaderToken
<1> QED
    BY <1>1, <1>2, <1>3 DEF Abstract!vars

\* HELLO and KART are nothing to the rooms.
LEMMA HelloKept == ASSUME IInv, NEW t \in Token, Hello(t) PROVE UNCHANGED Abstract!vars
<1>1. player \in [Token -> PlayerType]
    BY DEF IInv, Sound, Typed
<1>2. player[t].Lobby = NoLobby
    BY DEF IInv, Hello
<1>3. /\ player'[t].Lobby = NoLobby /\ NoLobby \notin Lobbies
      /\ \A u \in Token \ {t} : player'[u] = player[u]
    BY <1>1 DEF Hello, NewPlayer, NoLobby, Lobbies
<1>4. \A l \in Lobbies : Present(player', l) = Present(player, l)
    BY <1>2, <1>3 DEF Present
<1>5. \A l \in Lobbies : \A u \in Present(player, l) : player'[u] = player[u]
    BY <1>2, <1>3 DEF Present
<1>6. \A l \in Lobbies : JoinOrder(player', l) = JoinOrder(player, l)
    BY <1>4, <1>5 DEF JoinOrder
<1>7. \A l \in Lobbies : RaceOf(player', lobby'[l], l) = RaceOf(player, lobby[l], l)
    <2> TAKE l \in Lobbies
    <2>1. lobby' = lobby
        BY DEF Hello
    <2>2. {u \in Present(player', l) : player'[u].Racing} = {u \in Present(player, l) : player[u].Racing}
        BY <1>4, <1>5
    <2>3. HostGone(player', l, lobby[l]) <=> HostGone(player, l, lobby[l])
        <3>1. lobby[l].Host \in Token \cup {Nil}
            BY DEF IInv, Sound, Typed, LobbyType
        <3> QED
            BY <1>2, <1>3, <3>1 DEF HostGone
    <2> QED
        BY <2>1, <2>2, <2>3 DEF RaceOf
<1> QED
    BY <1>4, <1>6, <1>7 DEF Hello, members, order, race, leader, Abstract!vars

LEMMA KartKept ==
    ASSUME IInv, NEW t \in Token, NEW raceID \in RaceIDs, NEW finished \in BOOLEAN,
           NEW ms \in Times, NEW dist \in Dists, Kart(t, raceID, finished, ms, dist)
    PROVE  UNCHANGED Abstract!vars
<1>1. player \in [Token -> PlayerType]
    BY DEF IInv, Sound, Typed
<1>2. /\ player'[t].Lobby = player[t].Lobby /\ player'[t].Spectating = player[t].Spectating
      /\ player'[t].JoinSeq = player[t].JoinSeq /\ player'[t].Racing = player[t].Racing
      /\ \A u \in Token \ {t} : player'[u] = player[u]
    BY <1>1 DEF Kart, PlayerType
<1>3. lobby' = lobby
    BY DEF Kart
<1> QED
    BY <1>2, <1>3, StutterKept

\* LEAVE, and JOIN with the spectate flag: one player departs.
LEMMA LeaveKept ==
    ASSUME IInv, NEW t \in Token, NEW l \in Lobbies
    PROVE  /\ Present(PlayersLeft(player, {t}), l) = members[l] \ {t}
           /\ JoinOrder(PlayersLeft(player, {t}), l)
                = Abstract!Among(order[l], members[l] \ {t})
           /\ RaceOf(PlayersLeft(player, {t}), LobbiesLeft(player, lobby, {t})[l], l)
                = Abstract!RaceWithout(l, {t})
<1> DEFINE pm == PlayersLeft(player, {t})
<1>1. Sound(player, lobby) /\ {t} \in SUBSET Token
    BY DEF IInv
<1>2. (\A u \in {t} : pm[u].Lobby = NoLobby) /\ \A u \in Token \ {t} : pm[u] = player[u]
    BY LeaveSound DEF IInv
<1> HIDE DEF pm
<1>3. /\ Present(pm, l) = Present(player, l) \ {t}
      /\ JoinOrder(pm, l) = Abstract!Among(JoinOrder(player, l), Present(player, l) \ {t})
    BY <1>1, <1>2, GonePresent
<1>4. RaceOf(pm, LobbiesLeft(player, lobby, {t})[l], l) = Abstract!RaceWithout(l, {t})
    BY <1>1, <1>2, GoneRace
<1> QED
    BY <1>3, <1>4 DEF members, order, pm

LEMMA LeaveActionKept == ASSUME IInv, NEW t \in Token, Leave(t) PROVE Abstract!Depart(t)
<1> DEFINE pl == PlayersLeft(player, {t})
           lb == LobbiesLeft(player, lobby, {t})
<1>1. /\ pl[t].Lobby = NoLobby
      /\ \A u \in Token \ {t} : pl[u] = player[u]
    BY LeaveSound DEF IInv
<1>2. \A l \in Lobbies :
          /\ Present(pl, l) = members[l] \ {t}
          /\ JoinOrder(pl, l) = Abstract!Among(order[l], members[l] \ {t})
          /\ RaceOf(pl, lb[l], l) = Abstract!RaceWithout(l, {t})
    BY LeaveKept
<1>3. player' = pl /\ lobby' = lb
    BY DEF Leave
<1> HIDE DEF pl, lb
<1>4. /\ members' = [l \in Lobbies |-> Present(pl, l)]
      /\ order' = [l \in Lobbies |-> JoinOrder(pl, l)]
      /\ race' = [l \in Lobbies |-> RaceOf(pl, lb[l], l)]
    BY <1>3 DEF members, order, race
<1> QED
    BY <1>2, <1>4 DEF Abstract!Depart, Abstract!Gone

LEMMA SpectateKept ==
    ASSUME IInv, NEW t \in Token, NEW id \in Lobbies, Spectate(t, id)
    PROVE  Abstract!Depart(t)
<1> DEFINE pl == PlayersLeft(player, {t})
           lb == LobbiesLeft(player, lobby, {t})
<1>1. /\ Sound(pl, lb) /\ pl[t].Lobby = NoLobby
      /\ \A u \in Token \ {t} : pl[u] = player[u]
    BY LeaveSound DEF IInv
<1>2. \A l \in Lobbies :
          /\ Present(pl, l) = members[l] \ {t}
          /\ JoinOrder(pl, l) = Abstract!Among(order[l], members[l] \ {t})
          /\ RaceOf(pl, lb[l], l) = Abstract!RaceWithout(l, {t})
    BY LeaveKept
<1>3. pl \in [Token -> PlayerType] /\ lb \in [Lobbies -> LobbyType]
    BY <1>1 DEF Sound, Typed
<1>4. /\ player'[t].Spectating
      /\ \A u \in Token \ {t} : player'[u] = pl[u]
      /\ \A l \in Lobbies : /\ lobby'[l].State = lb[l].State /\ lobby'[l].Track = lb[l].Track
                            /\ lobby'[l].Host = lb[l].Host
    <2>1. \A u \in Token : pl[u] \in PlayerType
        BY <1>3
    <2>2. \A l \in Lobbies : lb[l] \in LobbyType
        BY <1>3
    <2>3. /\ player' = [pl EXCEPT ![t].Lobby = id, ![t].Slot = NoSlot, ![t].Spectating = TRUE,
                                   ![t].Racing = FALSE, ![t].Finished = FALSE, ![t].Kart = NoKart]
          /\ lobby' = [lb EXCEPT ![id].Watchers = @ \cup {t}]
        BY DEF Spectate
    <2> HIDE DEF pl, lb
    <2>4. player'[t].Spectating /\ \A u \in Token \ {t} : player'[u] = pl[u]
        BY <1>3, <2>1, <2>3 DEF PlayerType
    <2>5. \A l \in Lobbies : /\ lobby'[l].State = lb[l].State /\ lobby'[l].Track = lb[l].Track
                              /\ lobby'[l].Host = lb[l].Host
        BY <1>3, <2>2, <2>3 DEF LobbyType
    <2> QED
        BY <2>4, <2>5
<1> HIDE DEF pl, lb
<1>5. NoLobby \notin Lobbies
    BY DEF NoLobby, Lobbies
<1>6. ASSUME NEW l \in Lobbies
      PROVE  /\ Present(player', l) = Present(pl, l)
             /\ JoinOrder(player', l) = JoinOrder(pl, l)
             /\ RaceOf(player', lobby'[l], l) = RaceOf(pl, lb[l], l)
    <2>1. Present(player', l) = Present(pl, l)
        BY <1>1, <1>4, <1>5 DEF Present
    <2>2. \A u \in Present(pl, l) : u # t /\ player'[u] = pl[u]
        BY <1>1, <1>4, <1>5 DEF Present
    <2>3. JoinOrder(player', l) = JoinOrder(pl, l)
        BY <2>1, <2>2 DEF JoinOrder
    <2>4. HostGone(player', l, lobby'[l]) <=> HostGone(pl, l, lb[l])
        <3>1. lb[l].Host # Nil => lb[l].Host \in Present(pl, l)
            BY <1>1, HostPresent
        <3> QED
            BY <1>4, <2>2, <3>1 DEF HostGone
    <2>5. (Live(lobby'[l]) /\ Roam(lobby'[l])) = (Live(lb[l]) /\ Roam(lb[l]))
        BY <1>4 DEF Live, Roam
    <2>6. {u \in Present(player', l) : player'[u].Racing} = {u \in Present(pl, l) : pl[u].Racing}
        BY <2>1, <2>2
    <2> QED
        BY <1>4, <2>1, <2>3, <2>4, <2>5, <2>6 DEF RaceOf
<1>7. /\ members' = [l \in Lobbies |-> Present(player', l)]
      /\ order' = [l \in Lobbies |-> JoinOrder(player', l)]
      /\ race' = [l \in Lobbies |-> RaceOf(player', lobby'[l], l)]
    BY DEF members, order, race
<1> QED
    BY <1>2, <1>6, <1>7 DEF Abstract!Depart, Abstract!Gone

\* A player who is off the road stays in the room.
LEMMA RetireKept ==
    ASSUME IInv, NEW t \in Token, NEW raceID \in RaceIDs, Retire(t, raceID)
    PROVE  \E d \in Lobbies : Abstract!Retire(t, d)
<1> DEFINE l == player[t].Lobby
           on == RaceOf(player, lobby[l], l)
<1>1. player \in [Token -> PlayerType] /\ lobby \in [Lobbies -> LobbyType]
    BY DEF IInv, Sound, Typed
<1>2. l \in Lobbies /\ ~player[t].Spectating /\ player[t].Racing /\ Live(lobby[l])
    BY <1>1 DEF Retire, Racing, InSlot, PlayerType
<1>3. /\ \A u \in Token : /\ player'[u].Lobby = player[u].Lobby
                          /\ player'[u].Spectating = player[u].Spectating
                          /\ player'[u].JoinSeq = player[u].JoinSeq
      /\ \A u \in Token \ {t} : player'[u] = player[u]
      /\ ~player'[t].Racing
    BY <1>1 DEF Retire, Retired, PlayerType
<1>4. lobby' = lobby
    BY DEF Retire
<1> HIDE DEF l
<1>5. (\A d \in Lobbies : Present(player', d) = Present(player, d)) /\ UNCHANGED <<members, order>>
    BY <1>3, SeatsKept
<1>6. t \in Present(player, l)
    BY <1>2 DEF Present, l
<1>7. ASSUME NEW d \in Lobbies, d # l
      PROVE  RaceOf(player', lobby'[d], d) = RaceOf(player, lobby[d], d)
    <2>1. t \notin Present(player, d)
        BY <1>7 DEF Present, l
    <2>2. {u \in Present(player', d) : player'[u].Racing} = {u \in Present(player, d) : player[u].Racing}
        BY <1>3, <1>5, <2>1 DEF Present
    <2>3. HostGone(player', d, lobby[d]) <=> HostGone(player, d, lobby[d])
        <3>1. lobby[d].Host # Nil => lobby[d].Host \in Present(player, d)
            BY HostPresent DEF IInv
        <3>2. lobby[d].Host # Nil => player'[lobby[d].Host] = player[lobby[d].Host]
            BY <1>3, <2>1, <3>1 DEF Present
        <3> QED
            BY <3>2 DEF HostGone
    <2> QED
        BY <1>4, <2>2, <2>3 DEF RaceOf
<1>8. RaceOf(player', lobby'[l], l)
        = Abstract!Off(on, {t})
    <2>1. {u \in Present(player', l) : player'[u].Racing}
            = {u \in Present(player, l) : player[u].Racing} \ {t}
        BY <1>2, <1>3, <1>5 DEF Present
    <2>2. (IF HostGone(player', l, lobby[l]) THEN Nil ELSE lobby[l].Host)
            = (IF (IF HostGone(player, l, lobby[l]) THEN Nil ELSE lobby[l].Host) = t THEN Nil
               ELSE IF HostGone(player, l, lobby[l]) THEN Nil ELSE lobby[l].Host)
        <3>1. lobby[l].Host # Nil => lobby[l].Host \in Token
            BY <1>1, <1>2 DEF LobbyType, l
        <3>2. CASE lobby[l].Host = t
            BY <1>3, <3>2 DEF HostGone
        <3>3. CASE lobby[l].Host # t
            BY <1>3, <3>1, <3>3 DEF HostGone
        <3> QED
            BY <3>2, <3>3
    <2> QED
        BY <1>4, <2>1, <2>2 DEF RaceOf, Abstract!Off
<1>9. race' = [race EXCEPT ![l] = Abstract!Off(race[l], {t})]
    <2>1. race[l] = on
        BY <1>2 DEF race, l
    <2>2. race' = [d \in Lobbies |-> RaceOf(player', lobby'[d], d)]
        BY DEF race
    <2> HIDE DEF on
    <2>3. \A d \in Lobbies : race'[d] =
            IF d = l THEN Abstract!Off(on, {t}) ELSE race[d]
        BY <1>7, <1>8, <2>2 DEF race
    <2> QED
        BY <2>1, <2>2, <2>3 DEF race
<1>10. t \in race[l].racers /\ race[l].phase \in {"Countdown", "Racing"}
    <2>1. l \in Lobbies /\ player[t].Racing /\ Live(lobby[l])
        BY <1>2 DEF l
    <2> QED
        BY <1>6, <2>1 DEF race, RaceOf, Live
<1> QED
    BY <1>2, <1>5, <1>9, <1>10 DEF Abstract!Retire, l

\* A room's race is the same while its players and its record are.
LEMMA RaceElse ==
    ASSUME NEW pl, NEW lb, Sound(pl, lb), NEW pm, NEW room, NEW d \in Lobbies,
           Present(pm, d) = Present(pl, d),
           \A u \in Present(pl, d) :
                pm[u].Racing = pl[u].Racing /\ pm[u].Lobby = pl[u].Lobby,
           room.State = lb[d].State, room.Host = lb[d].Host, room.Track = lb[d].Track
    PROVE  RaceOf(pm, room, d) = RaceOf(pl, lb[d], d)
<1>1. {u \in Present(pm, d) : pm[u].Racing} = {u \in Present(pl, d) : pl[u].Racing}
    OBVIOUS
<1>2. HostGone(pm, d, room) <=> HostGone(pl, d, lb[d])
    BY HostPresent DEF HostGone
<1>3. (Live(room) /\ Roam(room)) = (Live(lb[d]) /\ Roam(lb[d]))
    BY DEF Live, Roam
<1> QED
    BY <1>1, <1>2, <1>3 DEF RaceOf

\* A wish of a player who does not lead may put it back on the lot.
LEMMA FollowerKept ==
    ASSUME IInv, NEW t \in Token, NEW wish \in WishType, FollowerWish(t, wish)
    PROVE  \/ UNCHANGED Abstract!vars
           \/ \E d \in Lobbies : Abstract!GoBack(t, d)
<1> DEFINE l == player[t].Lobby
           room == lobby[l]
           painted == [player[t] EXCEPT !.Colour = Repainted(t, wish.colour)]
           backOn == /\ player[t].nonceSeen
                     /\ wish.nonce # player[t].StartNonce
                     /\ ~player[t].Racing
                     /\ TakesLatecomers(room)
           moved == IF backOn THEN OnLot(painted, FreeGrid(player, room)) ELSE painted
           p == [moved EXCEPT !.StartNonce = wish.nonce, !.nonceSeen = TRUE]
<1>1. /\ player \in [Token -> PlayerType] /\ lobby \in [Lobbies -> LobbyType]
      /\ player[t] \in PlayerType
    BY DEF IInv, Sound, Typed
<1>2. player' = [player EXCEPT ![t] = p] /\ lobby' = lobby
    BY DEF FollowerWish
<1>3. l \in Lobbies /\ ~player[t].Spectating /\ room.Leader # player[t].Slot
    BY <1>1 DEF FollowerWish, Leads, InSlot, PlayerType
<1>4. /\ painted \in PlayerType /\ painted.Racing = player[t].Racing
      /\ painted.Lobby = player[t].Lobby
      /\ painted.Spectating = player[t].Spectating /\ painted.JoinSeq = player[t].JoinSeq
    <2>1. Repainted(t, wish.colour) \in AllColours
        BY <1>1 DEF Repainted, PlayerType, WishType
    <2> QED
        BY <1>1, <2>1 DEF PlayerType
<1>5. backOn => TakesLatecomers(room) /\ ~player[t].Racing
    OBVIOUS
<1>6. backOn \in BOOLEAN
    <2>1. player[t].nonceSeen \in BOOLEAN
        BY <1>1 DEF PlayerType
    <2> QED
        BY <2>1
<1> HIDE DEF painted, backOn, room, l
<1>7. /\ moved \in PlayerType /\ moved.Racing = (player[t].Racing \/ backOn)
      /\ moved.Lobby = player[t].Lobby
      /\ moved.Spectating = player[t].Spectating /\ moved.JoinSeq = player[t].JoinSeq
    <2>1. player[t].Racing \in BOOLEAN
        BY <1>1 DEF PlayerType
    <2>2. CASE backOn
        BY <1>4, <2>2, FreeGridType, OnLotFacts
    <2>3. CASE ~backOn
        BY <1>4, <1>6, <2>1, <2>3
    <2> QED
        BY <1>6, <2>2, <2>3
<1> HIDE DEF moved
<1>8. /\ p.Racing = moved.Racing /\ p.Lobby = player[t].Lobby
      /\ p.Spectating = player[t].Spectating /\ p.JoinSeq = player[t].JoinSeq
    BY <1>7 DEF PlayerType
<1> HIDE DEF p
<1>9. player'[t] = p /\ \A u \in Token \ {t} : player'[u] = player[u]
    BY <1>1, <1>2
<1>10. \A u \in Token : /\ player'[u].Lobby = player[u].Lobby
                        /\ player'[u].Spectating = player[u].Spectating
                        /\ player'[u].JoinSeq = player[u].JoinSeq
    BY <1>8, <1>9
<1>11. CASE ~backOn
    <2>1. player[t].Racing \in BOOLEAN
        BY <1>1 DEF PlayerType
    <2>2. \A u \in Token : player'[u].Racing = player[u].Racing
        BY <1>7, <1>8, <1>9, <1>11, <2>1
    <2> QED
        BY <1>2, <1>10, <2>2, StutterKept
<1>12. CASE backOn
    <2>1. (\A d \in Lobbies : Present(player', d) = Present(player, d)) /\ UNCHANGED <<members, order>>
        BY <1>10, SeatsKept
    <2>2. t \in Present(player, l) /\ player'[t].Racing
        BY <1>3, <1>7, <1>8, <1>9, <1>12 DEF Present, l
    <2>3. ASSUME NEW d \in Lobbies, d # l
          PROVE  RaceOf(player', lobby'[d], d) = race[d]
        <3> DEFINE pl == player'
        <3>1. \A u \in Present(player, d) : u # t
            BY <2>3 DEF Present, l
        <3>2. \A u \in Present(player, d) : pl[u].Racing = player[u].Racing /\ pl[u].Lobby = player[u].Lobby
            BY <1>9, <3>1 DEF Present
        <3>3. Present(pl, d) = Present(player, d) /\ Sound(player, lobby)
            BY <2>1 DEF IInv
        <3> HIDE DEF pl
        <3>4. RaceOf(pl, lobby[d], d) = RaceOf(player, lobby[d], d)
            BY <3>2, <3>3, RaceElse
        <3> QED
            BY <1>2, <3>4 DEF race, pl
    <2>4. HostGone(player', l, room) <=> HostGone(player, l, room)
        <3>1. Sound(player, lobby) /\ l \in Lobbies
            BY <1>3 DEF IInv
        <3>2. room.Host # Nil => room.Host \in Token /\ room.Host # t
            <4>1. CASE room.Host # Nil
                <5>1. room.Host \in Present(player, l) /\ room.Host = LeaderToken(room)
                    BY <3>1, <4>1, HostPresent DEF room
                <5>2. room.Leader \in Slots /\ room.Leader # NoSlot
                    BY <1>1, <3>1, <4>1 DEF Sound, Hosted, LobbyType, room
                <5>3. room.Slots[room.Leader] # t
                    BY <1>3, <3>1, <5>2 DEF Sound, Seating, room
                <5> QED
                    BY <5>1, <5>2, <5>3 DEF LeaderToken, Present
            <4> QED
                BY <4>1
        <3> QED
            BY <1>9, <3>2 DEF HostGone
    <2>5. RaceOf(player', lobby'[l], l) = Abstract!On(race[l], t)
        <3>1. {u \in Present(player', l) : player'[u].Racing}
                = {u \in Present(player, l) : player[u].Racing} \cup {t}
            BY <1>3, <1>9, <2>1, <2>2 DEF Present
        <3> QED
            BY <1>2, <1>3, <2>4, <3>1 DEF RaceOf, Abstract!On, race, room
    <2>6. race' = [race EXCEPT ![l] = Abstract!On(race[l], t)]
        <3>1. \A d \in Lobbies : RaceOf(player', lobby'[d], d) =
                    IF d = l THEN Abstract!On(race[l], t) ELSE race[d]
            BY <2>3, <2>5
        <3>2. race' = [d \in Lobbies |-> RaceOf(player', lobby'[d], d)]
            BY DEF race
        <3>3. race' = [d \in Lobbies |-> IF d = l THEN Abstract!On(race[l], t) ELSE race[d]]
            BY <3>1, <3>2
        <3>4. DOMAIN race = Lobbies
            BY DEF race
        <3> QED
            BY <3>3, <3>4
    <2>7. race[l].lot /\ t \in members[l]
        BY <1>3, <1>5, <1>12, <2>2 DEF race, RaceOf, TakesLatecomers, members, room
    <2>8. t # leader[l]
        <3>1. room.Leader # NoSlot => room.Leader \in Slots /\ room.Slots[room.Leader] # t
            BY <1>1, <1>3 DEF IInv, Sound, Seating, LobbyType, room
        <3> QED
            BY <1>3, <3>1, TokenAssumption DEF leader, LeaderToken, room
    <2> QED
        BY <1>3, <2>1, <2>6, <2>7, <2>8 DEF Abstract!GoBack
<1> QED
    BY <1>6, <1>11, <1>12

\* A wish of the leader: its picks, or a press that starts a race.
LEMMA LeaderWishKept ==
    ASSUME IInv, NEW t \in Token, NEW wish \in WishType, LeaderWish(t, wish)
    PROVE  \/ UNCHANGED Abstract!vars
           \/ \E d \in Lobbies, lot \in BOOLEAN : Abstract!Start(d, lot)
<1> DEFINE l == player[t].Lobby
           room == lobby[l]
           press == IsPress(room, wish.nonce)
           painted == [player EXCEPT ![t].Colour = Repainted(t, wish.colour)]
           picked == [Picked(room, wish) EXCEPT !.Nonce = wish.nonce, !.synced = TRUE]
           started == IF press THEN OnGrid(painted, picked) ELSE painted
           after == IF press THEN RaceStarted(picked) ELSE picked
<1>1. /\ Sound(player, lobby)
      /\ player \in [Token -> PlayerType] /\ lobby \in [Lobbies -> LobbyType]
    BY DEF IInv, Sound, Typed
<1>2. /\ player' = [started EXCEPT ![t].StartNonce = wish.nonce, ![t].nonceSeen = TRUE]
      /\ lobby' = [lobby EXCEPT ![l] = after]
    BY DEF LeaderWish
<1>3. /\ l \in Lobbies /\ ~player[t].Spectating
      /\ room.Leader = player[t].Slot /\ room.Leader # NoSlot
    BY SMTT(30), <1>1 DEF LeaderWish, Leads, InSlot, PlayerType, Sound, Seating
<1>4. /\ painted \in [Token -> PlayerType]
      /\ \A u \in Token :
            /\ painted[u].Lobby = player[u].Lobby
            /\ painted[u].Spectating = player[u].Spectating
            /\ painted[u].JoinSeq = player[u].JoinSeq
            /\ painted[u].Racing = player[u].Racing
    <2>1. Repainted(t, wish.colour) \in AllColours
        BY <1>1 DEF Repainted, PlayerType, WishType
    <2> DEFINE p == [player[t] EXCEPT !.Colour = Repainted(t, wish.colour)]
    <2>2. /\ p \in PlayerType /\ p.Lobby = player[t].Lobby
          /\ p.Spectating = player[t].Spectating /\ p.JoinSeq = player[t].JoinSeq
          /\ p.Racing = player[t].Racing
        BY <1>1, <2>1 DEF PlayerType
    <2>3. painted = [player EXCEPT ![t] = p]
        BY <1>1
    <2> HIDE DEF p, painted
    <2> QED
        BY <1>1, <2>2, <2>3
<1>5. /\ picked \in LobbyType /\ picked.Slots = room.Slots /\ picked.Leader = room.Leader
      /\ picked.State = room.State /\ picked.Host = room.Host
      /\ room.State = "Waiting" \/ picked.Track = room.Track
    <2>1. room \in LobbyType /\ wish.track \in Tracks /\ wish.items \in BOOLEAN
          /\ wish.nonce \in Nonces
        BY <1>1, <1>3 DEF WishType
    <2> HIDE DEF room
    <2>2. /\ Picked(room, wish) \in LobbyType
          /\ Picked(room, wish).Slots = room.Slots /\ Picked(room, wish).Leader = room.Leader
          /\ Picked(room, wish).State = room.State
          /\ Picked(room, wish).Host = room.Host
          /\ room.State = "Waiting" \/ Picked(room, wish).Track = room.Track
        BY <2>1 DEF Picked, LobbyType
    <2> QED
        BY <2>1, <2>2 DEF LobbyType
<1>6. Seated(picked) = Present(player, l) /\ Seated(picked) \subseteq Token
    <2>1. Seated(picked) = Seated(room)
        BY <1>5 DEF Seated
    <2> QED
        BY <1>1, <1>3, <2>1, PresentSits DEF Present
<1>7. press => room.State = "Waiting"
    BY DEF IsPress
<1>8. press \in BOOLEAN
    <2>1. room \in LobbyType
        BY <1>1, <1>3
    <2> QED
        BY <2>1 DEF IsPress, LobbyType
<1> HIDE DEF painted, picked, room, l, press
<1>9. /\ started \in [Token -> PlayerType]
      /\ \A u \in Token :
            /\ started[u].Lobby = player[u].Lobby
            /\ started[u].Spectating = player[u].Spectating
            /\ started[u].JoinSeq = player[u].JoinSeq
            /\ started[u].Racing = (player[u].Racing \/ (press /\ u \in Present(player, l)))
    <2>1. \A u \in Token : player[u].Racing \in BOOLEAN
        BY <1>1 DEF PlayerType
    <2>2. CASE press
        <3> DEFINE grid == OnGrid(painted, picked)
        <3>1. /\ grid \in [Token -> PlayerType]
              /\ \A u \in Token :
                    /\ grid[u].Lobby = painted[u].Lobby
                    /\ grid[u].Spectating = painted[u].Spectating
                    /\ grid[u].JoinSeq = painted[u].JoinSeq
            BY <1>4, <1>6, OnGridFacts
        <3>2. \A u \in Token : u \in Seated(picked) => grid[u].Racing = TRUE
            <4> TAKE u \in Token
            <4> HAVE u \in Seated(picked)
            <4>1. painted[u] \in PlayerType
                BY <1>4
            <4> QED
                BY <4>1 DEF OnGrid, PlayerType
        <3>3. \A u \in Token : u \notin Seated(picked) => grid[u].Racing = painted[u].Racing
            BY DEF OnGrid
        <3>4. started = grid
            BY <2>2
        <3> HIDE DEF grid, started
        <3>5. ASSUME NEW u \in Token
              PROVE  started[u].Racing = (player[u].Racing \/ u \in Present(player, l))
            <4>1. CASE u \in Seated(picked)
                BY <1>6, <3>2, <3>4, <4>1
            <4>2. CASE u \notin Seated(picked)
                BY <1>4, <1>6, <2>1, <3>3, <3>4, <4>2
            <4> QED
                BY <4>1, <4>2
        <3>6. \A u \in Token :
                    /\ started[u].Lobby = player[u].Lobby
                    /\ started[u].Spectating = player[u].Spectating
                    /\ started[u].JoinSeq = player[u].JoinSeq
            BY <1>4, <3>1, <3>4
        <3> QED
            BY <2>2, <3>1, <3>4, <3>5, <3>6
    <2>3. CASE ~press
        BY <1>4, <2>1, <2>3
    <2> QED
        BY <1>8, <2>2, <2>3
<1> HIDE DEF started
<1>10. \A u \in Token :
            /\ player'[u].Lobby = player[u].Lobby
            /\ player'[u].Spectating = player[u].Spectating
            /\ player'[u].JoinSeq = player[u].JoinSeq
            /\ player'[u].Racing = (player[u].Racing \/ (press /\ u \in Present(player, l)))
    <2> DEFINE p == [started[t] EXCEPT !.StartNonce = wish.nonce, !.nonceSeen = TRUE]
    <2>1. wish.nonce \in Nonces
        BY DEF WishType
    <2>2. /\ p.Lobby = started[t].Lobby
          /\ p.Spectating = started[t].Spectating /\ p.JoinSeq = started[t].JoinSeq
          /\ p.Racing = started[t].Racing
        BY ZenonT(60), <1>9, <2>1 DEF PlayerType
    <2>3. player' = [started EXCEPT ![t] = p]
        BY <1>2, <1>9
    <2> HIDE DEF p
    <2> QED
        BY <1>9, <2>2, <2>3
<1>11. lobby'[l] = after /\ \A d \in Lobbies \ {l} : lobby'[d] = lobby[d]
    BY <1>1, <1>2, <1>3
<1>12. (\A d \in Lobbies : Present(player', d) = Present(player, d)) /\ UNCHANGED <<members, order>>
    BY <1>10, SeatsKept
<1>13. CASE ~press
    <2>1. \A d \in Lobbies :
                /\ lobby'[d].State = lobby[d].State /\ lobby'[d].Host = lobby[d].Host
                /\ lobby'[d].Slots = lobby[d].Slots /\ lobby'[d].Leader = lobby[d].Leader
                /\ lobby[d].State = "Waiting" \/ lobby'[d].Track = lobby[d].Track
        BY <1>5, <1>11, <1>13 DEF room
    <2>2. \A u \in Token : player'[u].Racing = player[u].Racing
        <3>1. \A u \in Token : player[u].Racing \in BOOLEAN
            BY <1>1 DEF PlayerType
        <3> QED
            BY <1>10, <1>13, <3>1
    <2> QED
        BY <1>10, <2>1, <2>2, StutterKept
<1>14. CASE press
    <2>1. /\ after.State = "Countdown" /\ after.Track = picked.Track
          /\ after.Host = LeaderToken(picked)
        BY <1>5, <1>14 DEF RaceStarted, LobbyType
    <2>2. LeaderToken(picked) = leader[l]
        BY <1>3, <1>5 DEF LeaderToken, leader, room
    <2>3. leader[l] \in Present(player, l)
        <3>1. room.Leader \in Slots /\ room.Slots[room.Leader] # Nil
            BY <1>1, <1>3 DEF Sound, Led, LobbyType, room
        <3>2. leader[l] \in Seated(room)
            BY <1>3, <3>1 DEF leader, LeaderToken, Seated, room
        <3> QED
            BY <1>1, <1>3, <3>2, PresentSits DEF room
    <2> HIDE DEF after
    <2>4. RaceOf(player', lobby'[l], l) =
            [phase |-> "Countdown", lot |-> Roam(picked), racers |-> members[l],
             host |-> leader[l]]
        <3>1. {u \in Present(player', l) : player'[u].Racing} = members[l]
            BY <1>3, <1>10, <1>12, <1>14 DEF Present, members
        <3>2. ~HostGone(player', l, after)
            <4>1. after.Host = leader[l] /\ leader[l] # Nil
                BY <2>1, <2>2, <2>3, TokenAssumption DEF Present
            <4>2. player'[leader[l]].Lobby = l /\ player'[leader[l]].Racing
                BY <1>10, <1>14, <2>3 DEF Present
            <4> QED
                BY <4>1, <4>2 DEF HostGone
        <3>3. (Live(after) /\ Roam(after)) = Roam(picked)
            BY <2>1 DEF Live, Roam
        <3> QED
            BY <1>11, <2>1, <2>2, <3>1, <3>2, <3>3 DEF RaceOf
    <2>5. ASSUME NEW d \in Lobbies, d # l
          PROVE  RaceOf(player', lobby'[d], d) = race[d]
        <3> DEFINE pl == player'
        <3>1. \A u \in Present(player, d) : u \notin Present(player, l)
            BY <2>5 DEF Present
        <3>2. \A u \in Present(player, d) : pl[u].Racing = player[u].Racing /\ pl[u].Lobby = player[u].Lobby
            <4>1. \A u \in Token : player[u].Racing \in BOOLEAN
                BY <1>1 DEF PlayerType
            <4> QED
                BY <1>10, <3>1, <4>1 DEF Present
        <3>3. Present(pl, d) = Present(player, d)
            BY <1>12
        <3> HIDE DEF pl
        <3>4. RaceOf(pl, lobby[d], d) = RaceOf(player, lobby[d], d)
            BY <1>1, <3>2, <3>3, RaceElse
        <3> QED
            BY <1>11, <2>5, <3>4 DEF race, pl
    <2> DEFINE on == [phase |-> "Countdown", lot |-> Roam(picked), racers |-> members[l],
                      host |-> leader[l]]
    <2>6. race' = [race EXCEPT ![l] = on]
        <3>1. \A d \in Lobbies : RaceOf(player', lobby'[d], d) = IF d = l THEN on ELSE race[d]
            BY <2>4, <2>5
        <3>2. race' = [d \in Lobbies |-> RaceOf(player', lobby'[d], d)]
            BY DEF race
        <3> HIDE DEF on
        <3>3. race' = [d \in Lobbies |-> IF d = l THEN on ELSE race[d]]
            BY <3>1, <3>2
        <3>4. DOMAIN race = Lobbies
            BY DEF race
        <3> QED
            BY <3>3, <3>4
    <2>7. race[l].phase = "Waiting" /\ members[l] # {}
        BY <1>3, <1>7, <1>14, <2>3 DEF race, RaceOf, members, room
    <2>8. Roam(picked) \in BOOLEAN
        BY DEF Roam
    <2> QED
        BY <1>3, <1>12, <2>6, <2>7, <2>8 DEF Abstract!Start
<1> QED
    BY <1>8, <1>13, <1>14

\* A room with a free slot has room.
LEMMA RoomLeft ==
    ASSUME NEW pl, NEW lb, Sound(pl, lb), NEW d \in Lobbies, NEW slot \in Slots,
           lb[d].Slots[slot] = Nil
    PROVE  Cardinality(Present(pl, d)) < MaxPlayers
<1> DEFINE M == Present(pl, d)
           free == Slots \ {slot}
           at == [u \in M |-> pl[u].Slot]
<1>1. pl \in [Token -> PlayerType] /\ lb \in [Lobbies -> LobbyType] /\ Nil \notin Token
    BY TokenAssumption DEF Sound, Typed
<1>2. \A u \in M : /\ pl[u].Slot \in free
                   /\ lb[d].Slots[pl[u].Slot] = u
    <2> TAKE u \in M
    <2>1. u \in Token /\ pl[u].Lobby = d /\ ~pl[u].Spectating
        BY DEF Present
    <2>2. pl[u].Slot \in Slots
        <3>1. pl[u].Slot # NoSlot
            BY <2>1 DEF Sound, Seating, NoLobby, Lobbies
        <3> QED
            BY <1>1, <2>1, <3>1 DEF PlayerType
    <2>3. lb[d].Slots[pl[u].Slot] = u
        BY <2>1, <2>2 DEF Sound, Seating
    <2> QED
        BY <1>1, <2>1, <2>2, <2>3
<1> HIDE DEF M, free
<1>3. at \in Injection(M, free)
    BY <1>2 DEF Injection, IsInjective
<1>4. IsFiniteSet(free) /\ Cardinality(free) = MaxPlayers - 1
    <2>1. IsFiniteSet(Slots) /\ Cardinality(Slots) = MaxPlayers
        <3>1. 0 \in Int /\ MaxPlayers - 1 \in Int /\ ~(0 > MaxPlayers - 1)
            BY SizeAssumption
        <3>2. /\ IsFiniteSet(0 .. MaxPlayers - 1)
              /\ Cardinality(0 .. MaxPlayers - 1) = (MaxPlayers - 1) - 0 + 1
            BY <3>1, FS_Interval
        <3>3. (MaxPlayers - 1) - 0 + 1 = MaxPlayers
            BY SizeAssumption
        <3> QED
            BY <3>2, <3>3 DEF Slots
    <2> QED
        BY <2>1, FS_RemoveElement DEF free
<1>5. IsFiniteSet(M) /\ Cardinality(M) <= Cardinality(free)
    BY <1>3, <1>4, FS_Injection
<1>6. Cardinality(M) \in Nat
    BY <1>5, FS_CardinalityType
<1> QED
    BY <1>4, <1>5, <1>6, SizeAssumption DEF M

\* JOIN: whoever comes is the last in the order, and is on a lot that is open.
LEMMA JoinKept ==
    ASSUME IInv, NEW t \in Token, NEW id \in Lobbies, Join(t, id)
    PROVE  Abstract!Enter(t, id)
<1> DEFINE pl == PlayersLeft(player, {t})
           lb == LobbiesLeft(player, lobby, {t})
           slot == FreeSlot(lobby[id])
           old == lb[id]
           colour == JoinColour(pl, old, t)
           seated == [pl[t] EXCEPT !.Lobby = id, !.Slot = slot, !.JoinSeq = joinSeq + 1,
                                   !.Points = 0, !.LastPlace = 0, !.Racing = FALSE,
                                   !.Finished = FALSE, !.Kart = NoKart, !.Colour = colour]
           p == IF TakesLatecomers(old) THEN OnLot(seated, FreeGrid(pl, old)) ELSE seated
           room == [old EXCEPT !.Slots[slot] = t,
                               !.Leader = IF @ = NoSlot THEN slot ELSE @,
                               !.synced = @ /\ old.Leader # NoSlot]
<1>1. /\ Sound(pl, lb) /\ pl[t].Lobby = NoLobby
      /\ \A u \in Token \ {t} : pl[u] = player[u]
    BY LeaveSound DEF IInv
<1>2. pl \in [Token -> PlayerType] /\ lb \in [Lobbies -> LobbyType]
    BY <1>1 DEF Sound, Typed
<1>3. \A d \in Lobbies :
          /\ Present(pl, d) = members[d] \ {t}
          /\ JoinOrder(pl, d) = Abstract!Among(order[d], members[d] \ {t})
          /\ RaceOf(pl, lb[d], d) = Abstract!RaceWithout(d, {t})
    BY LeaveKept
<1>4. /\ slot \in Slots /\ lobby[id].Slots[slot] = Nil
      /\ Cardinality(members[id]) < MaxPlayers
    <2>1. slot \in Slots /\ lobby[id].Slots[slot] = Nil
        BY FreeSlotFound DEF Join
    <2> QED
        BY <2>1, RoomLeft DEF IInv, members
<1>5. player' = [pl EXCEPT ![t] = p] /\ lobby' = [lb EXCEPT ![id] = room]
    BY DEF Join
<1>6. ~pl[t].Spectating
    BY LeaveSound DEF IInv
<1>7. t \notin members[id]
    BY DEF Join, members, Present
<1>8. \A u \in Token : player[u].JoinSeq \in Nat /\ player[u].JoinSeq < joinSeq + 1
    BY DEF IInv, Sound, Typed, PlayerType
<1>9. joinSeq + 1 \in Nat
    BY DEF IInv
<1> HIDE DEF pl, lb, slot
<1>10. /\ seated \in PlayerType /\ seated.Lobby = id /\ seated.Slot = slot
       /\ ~seated.Spectating /\ ~seated.Racing /\ seated.JoinSeq = joinSeq + 1
    <2>1. colour \in AllColours
        BY <1>2, JoinColourType
    <2> HIDE DEF colour
    <2>2. /\ joinSeq + 1 \in Nat /\ 0 \in Nat /\ pl[t] \in PlayerType
          /\ id \in Lobbies \cup {NoLobby} /\ slot \in Slots \cup {NoSlot}
          /\ NoKart \in RaceIDs \cup {NoKart}
        BY <1>2, <1>4, <1>9
    <2>3. seated \in PlayerType
        BY ZenonT(60), <2>1, <2>2 DEF PlayerType
    <2>4. /\ seated.Lobby = id /\ seated.Slot = slot /\ ~seated.Racing
          /\ seated.JoinSeq = joinSeq + 1 /\ seated.Spectating = pl[t].Spectating
        BY <2>2 DEF PlayerType
    <2> QED
        BY <1>6, <2>3, <2>4
<1> HIDE DEF seated
<1>11. /\ p.Lobby = id /\ ~p.Spectating /\ p.JoinSeq = joinSeq + 1
       /\ p.Racing <=> TakesLatecomers(old)
    <2>1. CASE TakesLatecomers(old)
        BY <1>10, <2>1, FreeGridType, OnLotFacts
    <2>2. CASE ~TakesLatecomers(old)
        BY <1>10, <2>2
    <2> QED
        BY <2>1, <2>2
<1> HIDE DEF p
<1>12. room.State = old.State /\ room.Host = old.Host /\ room.Track = old.Track
    <2>1. old \in LobbyType
        BY <1>2
    <2> HIDE DEF old
    <2> QED
        BY <2>1 DEF LobbyType
<1> HIDE DEF room
<1>13. /\ player'[t] = p /\ \A u \in Token \ {t} : player'[u] = pl[u]
       /\ lobby'[id] = room /\ \A d \in Lobbies \ {id} : lobby'[d] = lb[d]
    BY <1>2, <1>5
<1>14. NoLobby \notin Lobbies
    BY DEF NoLobby, Lobbies
<1>15. \A d \in Lobbies \ {id} :
            /\ Present(player', d) = members[d] \ {t}
            /\ JoinOrder(player', d) = Abstract!Among(order[d], members[d] \ {t})
            /\ RaceOf(player', lobby'[d], d) = Abstract!RaceWithout(d, {t})
    <2> TAKE d \in Lobbies \ {id}
    <2> DEFINE pm == player'
    <2>1. Present(pm, d) = Present(pl, d)
        BY <1>1, <1>11, <1>13, <1>14 DEF Present
    <2>2. \A u \in Present(pl, d) : pm[u] = pl[u]
        BY <1>1, <1>13, <1>14 DEF Present
    <2>3. JoinOrder(pm, d) = JoinOrder(pl, d)
        BY <2>1, <2>2 DEF JoinOrder
    <2> HIDE DEF pm
    <2>4. RaceOf(pm, lb[d], d) = RaceOf(pl, lb[d], d)
        BY <1>1, <2>1, <2>2, RaceElse
    <2>5. lobby'[d] = lb[d]
        BY <1>13
    <2> QED
        BY <1>3, <2>1, <2>3, <2>4, <2>5 DEF pm
<1>16. /\ members[id] \ {t} = members[id]
       /\ Abstract!Among(order[id], members[id]) = order[id]
       /\ Abstract!RaceWithout(id, {t}) = race[id]
    <2>1. members[id] \ {t} = members[id]
        BY <1>7
    <2>2. Abstract!Among(order[id], members[id]) = order[id]
        BY DEF Abstract!Among, order, members, JoinOrder
    <2>3. Abstract!RaceWithout(id, {t}) = Abstract!Off(race[id], {t})
        BY <1>7 DEF Abstract!RaceWithout
    <2>4. race[id].racers \ {t} = race[id].racers
        BY <1>7 DEF race, RaceOf, members
    <2>5. race[id].host # t
        <3>1. lobby[id].Host # Nil => lobby[id].Host \in members[id]
            BY HostPresent DEF IInv, members
        <3> QED
            BY <1>7, <3>1, TokenAssumption DEF race, RaceOf
    <2>6. race[id] = [phase |-> race[id].phase, lot |-> race[id].lot,
                      racers |-> race[id].racers, host |-> race[id].host]
        BY DEF race, RaceOf
    <2> QED
        BY <2>1, <2>2, <2>3, <2>4, <2>5, <2>6 DEF Abstract!Off
<1>17. Present(pl, id) = members[id] /\ JoinOrder(pl, id) = order[id] /\ RaceOf(pl, old, id) = race[id]
    BY <1>3, <1>16
<1>18. Present(player', id) = members[id] \cup {t}
    BY <1>11, <1>13, <1>17 DEF Present
<1>19. JoinOrder(player', id) = order[id] \cup (members[id] \X {t})
    <2>1. \A u \in members[id] : /\ u \in Token /\ u # t
                                 /\ player'[u].JoinSeq = pl[u].JoinSeq
                                 /\ player'[u].JoinSeq \in Nat
                                 /\ player'[u].JoinSeq < joinSeq + 1
        BY <1>1, <1>7, <1>8, <1>13 DEF members, Present
    <2>2. player'[t].JoinSeq = joinSeq + 1
        BY <1>11, <1>13
    <2>3. order[id] = {q \in members[id] \X members[id] : pl[q[1]].JoinSeq < pl[q[2]].JoinSeq}
        BY <1>17 DEF JoinOrder
    <2>4. JoinOrder(player', id) =
            {q \in (members[id] \cup {t}) \X (members[id] \cup {t}) :
                player'[q[1]].JoinSeq < player'[q[2]].JoinSeq}
        BY <1>18 DEF JoinOrder
    <2>5. ASSUME NEW u \in members[id] \cup {t}, NEW v \in members[id] \cup {t}
          PROVE  player'[u].JoinSeq < player'[v].JoinSeq
                    <=> \/ u \in members[id] /\ v = t
                        \/ /\ u \in members[id] /\ v \in members[id]
                           /\ pl[u].JoinSeq < pl[v].JoinSeq
        <3>1. CASE v = t
            BY <1>7, <1>9, <2>1, <2>2, <3>1
        <3>2. CASE v # t /\ u = t
            <4>1. player'[v].JoinSeq \in Nat /\ player'[v].JoinSeq < joinSeq + 1
                BY <2>1, <3>2
            <4>2. ~(joinSeq + 1 < player'[v].JoinSeq)
                BY <1>9, <4>1
            <4> QED
                BY <1>7, <2>2, <3>2, <4>2
        <3>3. CASE v # t /\ u # t
            BY <2>1, <3>3
        <3> QED
            BY <3>1, <3>2, <3>3
    <2>6. \A q : q \in JoinOrder(player', id) <=>
                    q \in order[id] \cup (members[id] \X {t})
        <3> TAKE q
        <3>1. ASSUME q \in JoinOrder(player', id)
              PROVE  q \in order[id] \cup (members[id] \X {t})
            <4>1. /\ q = <<q[1], q[2]>> /\ q[1] \in members[id] \cup {t}
                  /\ q[2] \in members[id] \cup {t}
                  /\ player'[q[1]].JoinSeq < player'[q[2]].JoinSeq
                BY <2>4, <3>1
            <4> QED
                BY <2>3, <2>5, <4>1
        <3>2. ASSUME q \in order[id] \cup (members[id] \X {t})
              PROVE  q \in JoinOrder(player', id)
            <4>1. CASE q \in order[id]
                BY <2>3, <2>4, <2>5, <4>1
            <4>2. CASE q \in members[id] \X {t}
                BY <2>4, <2>5, <4>2
            <4> QED
                BY <3>2, <4>1, <4>2
        <3> QED
            BY <3>1, <3>2
    <2> QED
        BY <2>6
<1>20. RaceOf(player', lobby'[id], id)
            = IF race[id].lot THEN Abstract!On(race[id], t) ELSE race[id]
    <2>1. race[id].lot = TakesLatecomers(old)
        <3>1. race[id].lot = (Live(old) /\ Roam(old))
            BY <1>17 DEF RaceOf
        <3> QED
            BY <3>1 DEF TakesLatecomers
    <2>2. {u \in Present(player', id) : player'[u].Racing}
            = IF TakesLatecomers(old) THEN {u \in Present(pl, id) : pl[u].Racing} \cup {t}
              ELSE {u \in Present(pl, id) : pl[u].Racing}
        <3>1. \A u \in members[id] : u # t /\ player'[u] = pl[u]
            BY <1>7, <1>13 DEF members, Present
        <3> QED
            BY <1>11, <1>13, <1>17, <1>18, <3>1
    <2>3. HostGone(player', id, room) <=> HostGone(pl, id, old)
        <3>1. old.Host # Nil => old.Host \in Present(pl, id)
            BY <1>1, HostPresent
        <3>2. old.Host # Nil => player'[old.Host] = pl[old.Host]
            BY <1>1, <1>13, <1>14, <3>1 DEF Present
        <3> QED
            BY <1>12, <3>2 DEF HostGone
    <2>4. (Live(room) /\ Roam(room)) = (Live(old) /\ Roam(old))
        BY <1>12 DEF Live, Roam
    <2>5. RaceOf(player', room, id) =
            [phase |-> old.State, lot |-> Live(old) /\ Roam(old),
             racers |-> {u \in Present(player', id) : player'[u].Racing},
             host |-> IF HostGone(pl, id, old) THEN Nil ELSE old.Host]
        BY <1>12, <2>3, <2>4 DEF RaceOf
    <2>6. race[id] =
            [phase |-> old.State, lot |-> Live(old) /\ Roam(old),
             racers |-> {u \in Present(pl, id) : pl[u].Racing},
             host |-> IF HostGone(pl, id, old) THEN Nil ELSE old.Host]
        BY <1>17 DEF RaceOf
    <2>7. lobby'[id] = room
        BY <1>13
    <2> HIDE DEF old
    <2>8. CASE TakesLatecomers(old)
        <3> DEFINE host == IF HostGone(pl, id, old) THEN Nil ELSE old.Host
                   on == {u \in Present(pl, id) : pl[u].Racing}
                   lot == Live(old) /\ Roam(old)
        <3>1. /\ race[id].phase = old.State /\ race[id].lot = lot
              /\ race[id].racers = on /\ race[id].host = host
            BY <2>6
        <3>2. RaceOf(player', room, id) =
                [phase |-> old.State, lot |-> lot, racers |-> on \cup {t}, host |-> host]
            BY <2>2, <2>5, <2>8
        <3> HIDE DEF host, on, lot
        <3> QED
            BY <2>1, <2>7, <2>8, <3>1, <3>2 DEF Abstract!On
    <2>9. CASE ~TakesLatecomers(old)
        BY <2>1, <2>2, <2>5, <2>6, <2>7, <2>9
    <2> QED
        BY <2>8, <2>9
<1>21. /\ members' = [d \in Lobbies |-> Present(player', d)]
       /\ order' = [d \in Lobbies |-> JoinOrder(player', d)]
       /\ race' = [d \in Lobbies |-> RaceOf(player', lobby'[d], d)]
    BY DEF members, order, race
<1>22. members' = [d \in Lobbies |-> IF d = id THEN members[d] \cup {t} ELSE members[d] \ {t}]
    BY <1>15, <1>18, <1>21
<1>23. order' = [d \in Lobbies |->
                    IF d = id THEN order[d] \cup (members[d] \X {t})
                    ELSE Abstract!Among(order[d], members[d] \ {t})]
    BY <1>15, <1>19, <1>21
<1>24. race' = [d \in Lobbies |->
                    IF d # id THEN Abstract!RaceWithout(d, {t})
                    ELSE IF race[d].lot THEN Abstract!On(race[d], t) ELSE race[d]]
    BY <1>15, <1>20, <1>21
<1> QED
    BY <1>4, <1>7, <1>22, <1>23, <1>24
    DEF Abstract!Enter, Cardinality, Abstract!Cardinality, IsFiniteSet, Abstract!IsFiniteSet

\* What advance does to a room is what the clock does to its race, for a
\* deadline that has passed just when advance decides something.
LEMMA AdvanceKept ==
    ASSUME NEW pl, NEW lb, Sound(pl, lb), NEW l \in Lobbies, NEW due, NEW verdict,
           verdict = Verdict(pl, l, lb[l], due),
           NEW pm, Present(pm, l) = Present(pl, l),
           \A u \in Present(pl, l) : /\ pm[u].Lobby = pl[u].Lobby
                                     /\ pm[u] = PlayerAdvanced(pl, lb[l], verdict, u)
    PROVE  RaceOf(pm, LobbyAdvanced(lb[l], verdict), l)
                = Abstract!Advanced(RaceOf(pl, lb[l], l), verdict # "stay")
<1> DEFINE room == lb[l]
           lot == Live(room) /\ Roam(room)
           on == {u \in Present(pl, l) : pl[u].Racing}
           host == IF HostGone(pl, l, room) THEN Nil ELSE room.Host
           r == [phase |-> room.State, lot |-> lot, racers |-> on, host |-> host]
<1>1. /\ pl \in [Token -> PlayerType] /\ room \in LobbyType /\ Nil \notin Token
      /\ Seated(room) = Present(pl, l)
    BY PresentSits, TokenAssumption DEF Sound, Typed
<1>2. RaceOf(pl, lb[l], l) = r
    BY DEF RaceOf
<1>3. Racers(pl, room) = on
    BY <1>1 DEF Racers
<1>4. /\ host = Nil <=> HostGone(pl, l, room)
      /\ room.Host # Nil => room.Host \in Present(pl, l)
      /\ \A u \in Present(pl, l) : u \in Token /\ pl[u].Lobby = l
    BY <1>1, HostPresent DEF HostGone, Present
<1>5. /\ lot <=> Live(room) /\ Roam(room)
      /\ Live(room) <=> room.State \in {"Countdown", "Racing"}
      /\ Ended(pl, l, room) <=> on = {} \/ (Roam(room) /\ HostGone(pl, l, room))
      /\ lot \in BOOLEAN
    BY <1>3 DEF Live, Ended, Roam
<1>6. verdict = Verdict(pl, l, room, due)
    OBVIOUS
<1> HIDE DEF room, lot, on, host
<1>7. CASE verdict = "toWaiting"
    <2>1. \/ Live(room) /\ Ended(pl, l, room)
          \/ room.State = "Results"
        BY <1>6, <1>7 DEF Verdict
    <2>2. Abstract!Advanced(r, TRUE) = Abstract!NoRace
        BY <1>4, <1>5, <2>1 DEF Abstract!Advanced
    <2>3. \A u \in Present(pl, l) : ~pm[u].Racing
        <3> TAKE u \in Present(pl, l)
        <3>1. pm[u] = [pl[u] EXCEPT !.Racing = FALSE, !.Finished = FALSE, !.Kart = NoKart]
            <4>1. pm[u] = PlayerAdvanced(pl, room, verdict, u) /\ u \in Seated(room)
                BY <1>1 DEF room
            <4>2. PlayerAdvanced(pl, room, verdict, u) = OffTrack(pl, room, u)
                BY <1>7 DEF PlayerAdvanced
            <4> QED
                BY <4>1, <4>2 DEF OffTrack
        <3>2. pl[u] \in PlayerType
            BY <1>1, <1>4
        <3> QED
            BY <3>1, <3>2 DEF PlayerType
    <2>4. /\ LobbyAdvanced(room, verdict).State = "Waiting"
          /\ LobbyAdvanced(room, verdict).Host = Nil
        <3>1. LobbyAdvanced(room, verdict) = [room EXCEPT !.State = "Waiting", !.Host = Nil]
            BY <1>7 DEF LobbyAdvanced
        <3> QED
            BY <1>1, <3>1 DEF LobbyType
    <2>5. RaceOf(pm, LobbyAdvanced(room, verdict), l) = Abstract!NoRace
        <3>1. ~Live(LobbyAdvanced(room, verdict))
            BY <2>4 DEF Live
        <3>2. {u \in Present(pm, l) : pm[u].Racing} = {}
            BY <2>3
        <3>3. HostGone(pm, l, LobbyAdvanced(room, verdict))
            BY <2>4 DEF HostGone
        <3> QED
            BY <2>4, <3>1, <3>2, <3>3 DEF RaceOf, Abstract!NoRace
    <2> QED
        BY <1>2, <1>7, <2>2, <2>5 DEF room
<1>8. CASE verdict # "toWaiting"
    <2>1. \A u \in Present(pl, l) : pm[u].Racing = pl[u].Racing /\ pm[u].Lobby = pl[u].Lobby
        <3> TAKE u \in Present(pl, l)
        <3>1. pl[u] \in PlayerType /\ u \in Token
            BY <1>1, <1>4
        <3>2. CASE verdict = "finish"
            <4>1. pm[u] = Placed(pl, room, u)
                BY <3>2 DEF PlayerAdvanced, room
            <4>2. Placed(pl, room, u).Racing = pl[u].Racing
                BY <3>1 DEF Placed, PlayerType
            <4> QED
                BY <4>1, <4>2
        <3>3. CASE verdict # "finish"
            BY <1>8, <3>3 DEF PlayerAdvanced
        <3> QED
            BY <3>2, <3>3
    <2>2. {u \in Present(pm, l) : pm[u].Racing} = on
        BY <2>1 DEF on
    <2> DEFINE after == LobbyAdvanced(room, verdict)
    <2>3. /\ after.Host = room.Host /\ after.Track = room.Track
          /\ after.State = IF verdict = "green" THEN "Racing"
                           ELSE IF verdict = "finish" THEN "Results" ELSE room.State
        <3>1. after = IF verdict = "green" THEN [room EXCEPT !.State = "Racing"]
                      ELSE IF verdict = "finish" THEN [room EXCEPT !.State = "Results"]
                      ELSE room
            BY <1>8 DEF LobbyAdvanced
        <3> HIDE DEF after
        <3> QED
            BY <1>1, <3>1 DEF LobbyType
    <2> HIDE DEF after
    <2>4. (IF HostGone(pm, l, after) THEN Nil ELSE after.Host) = host
        <3>1. HostGone(pm, l, after) <=> HostGone(pl, l, room)
            BY <1>4, <2>1, <2>3 DEF HostGone
        <3> QED
            BY <2>3, <3>1 DEF host
    <2>5. RaceOf(pm, after, l) =
            [phase |-> after.State, lot |-> Live(after) /\ Roam(after),
             racers |-> on, host |-> host]
        BY <2>2, <2>4 DEF RaceOf
    <2>6. CASE verdict = "green"
        <3>1. room.State = "Countdown" /\ ~Ended(pl, l, room)
            BY <1>6, <2>6 DEF Verdict
        <3>2. Abstract!Advanced(r, TRUE) = [r EXCEPT !.phase = "Racing"]
            BY <1>4, <1>5, <3>1 DEF Abstract!Advanced
        <3>3. after.State = "Racing" /\ (Live(after) /\ Roam(after)) = lot
            BY <2>3, <2>6, <3>1 DEF Live, Roam, lot
        <3> QED
            BY <1>2, <2>5, <2>6, <3>2, <3>3 DEF after, room
    <2>7. CASE verdict = "finish"
        <3>1. room.State = "Racing" /\ ~Ended(pl, l, room) /\ ~Roam(room)
            BY <1>6, <2>7 DEF Verdict
        <3>2. Abstract!Advanced(r, TRUE) = [r EXCEPT !.phase = "Results"]
            BY <1>4, <1>5, <3>1 DEF Abstract!Advanced
        <3>3. after.State = "Results" /\ (Live(after) /\ Roam(after)) = lot
            BY <2>3, <2>7, <3>1 DEF Live, Roam, lot
        <3> QED
            BY <1>2, <2>5, <2>7, <3>2, <3>3 DEF after, room
    <2>8. CASE verdict # "green" /\ verdict # "finish"
        <3>1. verdict = "stay" /\ ~(Live(room) /\ Ended(pl, l, room))
            BY <1>6, <1>8, <2>8 DEF Verdict
        <3>2. Abstract!Advanced(r, FALSE) = r
            BY <1>4, <1>5, <3>1 DEF Abstract!Advanced
        <3>3. after.State = room.State /\ (Live(after) /\ Roam(after)) = lot
            BY <2>3, <2>8 DEF Live, Roam, lot
        <3> QED
            BY <1>2, <2>5, <3>1, <3>2, <3>3 DEF after, room
    <2> QED
        BY <2>6, <2>7, <2>8
<1> QED
    BY <1>7, <1>8

\* Tick: the silent are gone, and the races move on.
LEMMA TickKept ==
    ASSUME IInv, NEW silent \in SUBSET sessions, NEW due, Tick(silent, due)
    PROVE  \E T \in SUBSET Token : Abstract!Clock(T)
<1> DEFINE pk == PlayersLeft(player, silent)
           pl == [t \in Token |-> IF t \in silent THEN NewPlayer ELSE player[t]]
           lb == LobbiesLeft(player, lobby, silent)
           verdict == [l \in Lobbies |-> Verdict(pl, l, lb[l], l \in due)]
           moved == {l \in Lobbies : verdict[l] # "stay"}
           pm == player'
<1>1. silent \in SUBSET Token
    BY DEF IInv
<1>2. /\ Sound(pk, lb)
      /\ \A t \in silent : pk[t].Lobby = NoLobby
      /\ \A t \in Token \ silent : pk[t] = player[t]
    BY <1>1, LeaveSound DEF IInv
<1>3. /\ NewPlayer \in PlayerType /\ NewPlayer.Lobby = NoLobby
    BY ColourAssumption, WishAssumption
    DEF NewPlayer, PlayerType, AllColours, ColourCustom, NoLobby, NoSlot
<1>4. /\ pl \in [Token -> PlayerType]
      /\ \A t \in silent : pl[t].Lobby = NoLobby
      /\ \A t \in Token \ silent : pl[t] = player[t]
      /\ \A t \in silent : pl[t] = NewPlayer
    BY <1>1, <1>3 DEF IInv, Sound, Typed
<1>5. pm = [t \in Token |-> IF pl[t].Lobby = NoLobby THEN pl[t]
                            ELSE PlayerAdvanced(pl, lb[pl[t].Lobby], verdict[pl[t].Lobby], t)]
      /\ lobby' = [l \in Lobbies |-> LobbyAdvanced(lb[l], verdict[l])]
    BY DEF Tick
<1>6. lb = LobbiesLeft(player, lobby, silent)
    OBVIOUS
<1> HIDE DEF pk, pl, lb, pm
<1>7. Sound(pl, lb)
    <2>1. \A t \in Token : pl[t] = pk[t] \/ (pk[t].Lobby = NoLobby /\ pl[t] = NewPlayer)
        BY <1>2, <1>4
    <2> QED
        BY <1>2, <1>4, <2>1, OutsideSound
<1>8. ASSUME NEW l \in Lobbies
      PROVE  /\ Present(pl, l) = members[l] \ silent
             /\ JoinOrder(pl, l) = Abstract!Among(order[l], members[l] \ silent)
             /\ RaceOf(pl, lb[l], l) = Abstract!RaceWithout(l, silent)
    <2>1. Sound(player, lobby)
        BY DEF IInv
    <2>2. /\ Present(pl, l) = Present(player, l) \ silent
          /\ JoinOrder(pl, l) = Abstract!Among(JoinOrder(player, l), Present(player, l) \ silent)
        BY <1>1, <1>4, <2>1, GonePresent
    <2>3. RaceOf(pl, LobbiesLeft(player, lobby, silent)[l], l) = Abstract!RaceWithout(l, silent)
        BY <1>1, <1>4, <2>1, GoneRace
    <2> QED
        BY <1>6, <2>2, <2>3 DEF members, order
<1>9. ASSUME NEW u \in Token
      PROVE  /\ pm[u].Lobby = pl[u].Lobby /\ pm[u].Spectating = pl[u].Spectating
             /\ pm[u].JoinSeq = pl[u].JoinSeq
    <2>1. CASE pl[u].Lobby = NoLobby
        BY <1>5, <2>1
    <2>2. CASE pl[u].Lobby # NoLobby
        <3>1. pl[u].Lobby \in Lobbies
            BY <1>4, <2>2 DEF PlayerType
        <3>2. Seated(lb[pl[u].Lobby]) \subseteq Token
            BY <1>7, <3>1, SeatedIn
        <3>3. pm[u] = PlayerAdvanced(pl, lb[pl[u].Lobby], verdict[pl[u].Lobby], u)
            BY <1>5, <2>2
        <3> QED
            BY <1>4, <3>2, <3>3, PlayerAdvancedFacts
    <2> QED
        BY <2>1, <2>2
<1>10. ASSUME NEW l \in Lobbies
       PROVE  /\ Present(pm, l) = members[l] \ silent
              /\ JoinOrder(pm, l) = Abstract!Among(order[l], members[l] \ silent)
              /\ RaceOf(pm, lobby'[l], l)
                    = Abstract!Advanced(Abstract!RaceWithout(l, silent), l \in moved)
    <2>1. Present(pm, l) = Present(pl, l)
        BY <1>9 DEF Present
    <2>2. JoinOrder(pm, l) = JoinOrder(pl, l)
        <3>1. \A u \in Present(pl, l) : pm[u].JoinSeq = pl[u].JoinSeq
            BY <1>9 DEF Present
        <3> QED
            BY <2>1, <3>1 DEF JoinOrder
    <2>3. verdict[l] = Verdict(pl, l, lb[l], l \in due)
        OBVIOUS
    <2>4. (l \in moved) = (verdict[l] # "stay")
        OBVIOUS
    <2> HIDE DEF verdict, moved
    <2>5. \A u \in Present(pl, l) : /\ pm[u].Lobby = pl[u].Lobby
                                    /\ pm[u] = PlayerAdvanced(pl, lb[l], verdict[l], u)
        BY <1>5, <1>9 DEF Present, NoLobby, Lobbies
    <2>6. RaceOf(pm, LobbyAdvanced(lb[l], verdict[l]), l)
            = Abstract!Advanced(RaceOf(pl, lb[l], l), verdict[l] # "stay")
        BY <1>7, <2>1, <2>3, <2>5, AdvanceKept
    <2>7. lobby'[l] = LobbyAdvanced(lb[l], verdict[l])
        BY <1>5
    <2> QED
        BY <1>8, <2>1, <2>2, <2>4, <2>6, <2>7
<1> HIDE DEF verdict, moved
<1>11. /\ members' = [l \in Lobbies |-> Present(pm, l)]
       /\ order' = [l \in Lobbies |-> JoinOrder(pm, l)]
       /\ race' = [l \in Lobbies |-> RaceOf(pm, lobby'[l], l)]
    BY DEF members, order, race, pm
<1>12. moved \in SUBSET Lobbies
    BY DEF moved
<1>13. Abstract!Gone(silent)
    BY <1>10, <1>11 DEF Abstract!Gone
<1>14. race' = [l \in Lobbies |->
                    Abstract!Advanced(Abstract!RaceWithout(l, silent), l \in moved)]
    BY <1>10, <1>11
<1>15. Abstract!Clock(silent)
    BY <1>12, <1>13, <1>14 DEF Abstract!Clock
<1> QED
    BY <1>1, <1>15

-----------------------------------------------------------------------------
(* The theorem.                                                            *)

LEMMA InitKept == Init => Abstract!Init
<1> SUFFICES ASSUME Init PROVE Abstract!Init
    OBVIOUS
<1>1. ASSUME NEW l \in Lobbies
      PROVE  /\ Present(player, l) = {} /\ JoinOrder(player, l) = {}
             /\ LeaderToken(lobby[l]) = Nil
             /\ RaceOf(player, lobby[l], l) = Abstract!NoRace
    <2>1. \A t \in Token : player[t].Lobby # l
        BY DEF Init, NewPlayer, NoLobby, Lobbies
    <2>2. /\ lobby[l].Leader = NoSlot /\ lobby[l].State = "Waiting"
          /\ lobby[l].Host = Nil
        BY DEF Init, NewLobby
    <2>3. Present(player, l) = {}
        BY <2>1 DEF Present
    <2>4. JoinOrder(player, l) = {}
        BY <2>3 DEF JoinOrder
    <2> QED
        BY <2>2, <2>3, <2>4 DEF LeaderToken, RaceOf, Live, HostGone, Abstract!NoRace
<1> QED
    BY <1>1 DEF Abstract!Init, members, order, leader, race

\* Every step of the server is a step of Rooms, or is nothing to it.
LEMMA StepKept == IInv /\ IInv' /\ [Next]_vars => [Abstract!Next]_(Abstract!vars)
<1> SUFFICES ASSUME IInv, IInv', [Next]_vars PROVE [Abstract!Next]_(Abstract!vars)
    OBVIOUS
<1>1. leader' = [d \in Lobbies |-> Abstract!First(members'[d], order'[d])]
    BY LeadersKept
<1>2. ASSUME NEW t \in Token, Handle(t)
      PROVE  [Abstract!Next]_(Abstract!vars)
    <2>1. CASE Hello(t)
        BY <2>1, HelloKept
    <2>2. ASSUME NEW id \in Lobbies, Join(t, id) PROVE Abstract!Next
        <3>1. Abstract!Enter(t, id)
            BY <2>2, JoinKept
        <3> QED
            BY <1>1, <3>1 DEF Abstract!Next
    <2>3. ASSUME NEW id \in Lobbies, Spectate(t, id) PROVE Abstract!Next
        <3>1. Abstract!Depart(t)
            BY <2>3, SpectateKept
        <3> QED
            BY <1>1, <3>1 DEF Abstract!Next
    <2>4. CASE Leave(t)
        <3>1. Abstract!Depart(t)
            BY <2>4, LeaveActionKept
        <3> QED
            BY <1>1, <3>1 DEF Abstract!Next
    <2>5. ASSUME NEW wish \in Wishes, FollowerWish(t, wish)
          PROVE  [Abstract!Next]_(Abstract!vars)
        <3>1. wish \in WishType
            BY WishAssumption
        <3>2. UNCHANGED Abstract!vars \/ \E d \in Lobbies : Abstract!GoBack(t, d)
            BY <2>5, <3>1, FollowerKept
        <3> QED
            BY <1>1, <3>2 DEF Abstract!Next
    <2>6. ASSUME NEW wish \in Wishes, LeaderWish(t, wish)
          PROVE  [Abstract!Next]_(Abstract!vars)
        <3>1. wish \in WishType
            BY WishAssumption
        <3>2. \/ UNCHANGED Abstract!vars
              \/ \E d \in Lobbies, lot \in BOOLEAN : Abstract!Start(d, lot)
            BY <2>6, <3>1, LeaderWishKept
        <3> QED
            BY <1>1, <3>2 DEF Abstract!Next
    <2>7. ASSUME NEW raceID \in RaceIDs, Retire(t, raceID) PROVE Abstract!Next
        <3>1. \E d \in Lobbies : Abstract!Retire(t, d)
            BY <2>7, RetireKept
        <3> QED
            BY <1>1, <3>1 DEF Abstract!Next
    <2>8. ASSUME NEW raceID \in RaceIDs, NEW finished \in BOOLEAN, NEW ms \in Times,
                 NEW dist \in Dists, Kart(t, raceID, finished, ms, dist)
          PROVE  UNCHANGED Abstract!vars
        BY <2>8, KartKept
    <2> QED
        BY <1>2, <2>1, <2>2, <2>3, <2>4, <2>5, <2>6, <2>7, <2>8 DEF Handle
<1>3. ASSUME NEW silent \in SUBSET sessions, NEW due \in SUBSET Timed, Tick(silent, due)
      PROVE  Abstract!Next
    <2>1. \E T \in SUBSET Token : Abstract!Clock(T)
        BY <1>3, TickKept
    <2> QED
        BY <1>1, <2>1 DEF Abstract!Next
<1>4. CASE UNCHANGED vars
    <2>1. members' = members /\ order' = order /\ leader' = leader /\ race' = race
        BY <1>4 DEF vars, members, order, leader, race
    <2> QED
        BY <2>1 DEF Abstract!vars
<1> QED
    BY <1>2, <1>3, <1>4 DEF Next

\* The server keeps the promise of Rooms: rooms are led in join order, races
\* are run by who was there at the start, a Free Roam session takes
\* latecomers and lasts as long as its host, whatever order packets, silences
\* and deadlines come in.
THEOREM RoomsImplemented == Spec => RoomsKept
<1>1. Init => Abstract!Init
    BY InitKept
<1>2. IInv /\ IInv' /\ [Next]_vars => [Abstract!Next]_(Abstract!vars)
    BY StepKept
<1>3. Spec => []IInv
    BY Invariance
<1> QED
    BY <1>1, <1>2, <1>3, PTL DEF Spec, RoomsKept, Abstract!Spec
=============================================================================
