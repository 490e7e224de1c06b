------------------------- MODULE LobbyServerProofs -------------------------
(***************************************************************************)
(* Proofs about the lobby server, for any number of consoles, rooms, slots *)
(* and sessions: the safety properties of LobbyProps that do not count.    *)
(*                                                                         *)
(* The invariant is stated over a value of the players and a value of the  *)
(* rooms, as Join, Spectate and Tick build on the outcome of a leave.      *)
(*                                                                         *)
(* That a press of Start is judged once needs more: a room that compares   *)
(* nonces (synced) holds the last nonce of its own leader, whoever that    *)
(* has become.                                                             *)
(***************************************************************************)
EXTENDS LobbyProps, FiniteSetTheorems, WellFoundedInduction, TLAPS

-----------------------------------------------------------------------------
(* The two searches of the code find what they look for.                   *)

\* A non-empty set of numbers has a least one.
LEMMA LeastExists ==
    ASSUME NEW S, S \subseteq Nat, S # {}
    PROVE  \E n \in S : \A m \in S : n <= m
<1> DEFINE R == OpToRel(<, Nat)
<1>1. \E x \in S : \A y \in S : ~ (<<y, x>> \in R)
    <2>1. IsWellFoundedOn(R, Nat)
        BY NatLessThanWellFounded
    <2> HIDE DEF R
    <2> QED
        BY <2>1, WFMin
<1>2. \A x, y \in Nat : y < x => <<y, x>> \in R
    BY DEF OpToRel
<1>3. PICK n \in S : \A y \in S : ~ (<<y, n>> \in R)
    BY <1>1
<1>4. \A y \in S : ~ (y < n)
    BY <1>2, <1>3
<1> QED
    BY <1>4

\* The loops over slots, grid bays and colours: the result is in the set
\* searched, unless that is empty.
LEMMA LowestFound ==
    ASSUME NEW S, S \subseteq Nat, NEW fallback
    PROVE  /\ S = {} => LowestOr(S, fallback) = fallback
           /\ S # {} => LowestOr(S, fallback) \in S
BY LeastExists DEF LowestOr

\* The loop over the players present when a leader leaves: an earliest one.
LEMMA EarliestFound ==
    ASSUME NEW pl, NEW S, S # {}, \A q \in S : pl[q].JoinSeq \in Nat
    PROVE  /\ Earliest(pl, S) \in S
           /\ \A r \in S : pl[Earliest(pl, S)].JoinSeq <= pl[r].JoinSeq
<1> DEFINE N == {pl[q].JoinSeq : q \in S}
<1>1. PICK n \in N : \A m \in N : n <= m
    <2>1. N \subseteq Nat /\ N # {}
        OBVIOUS
    <2> HIDE DEF N
    <2> QED
        BY <2>1, LeastExists
<1>2. \E q \in S : \A r \in S : pl[q].JoinSeq <= pl[r].JoinSeq
    BY <1>1
<1> QED
    BY <1>2 DEF Earliest

-----------------------------------------------------------------------------
(* The inductive invariant.                                                *)

Typed(pl, lb) == pl \in [Token -> PlayerType] /\ lb \in [Lobbies -> LobbyType]

\* SeatsAgree of a value of the players and the rooms.
Seating(pl, lb) ==
    /\ \A t \in Token, l \in Lobbies, s \in Slots :
            lb[l].Slots[s] = t <=>
                (pl[t].Lobby = l /\ pl[t].Slot = s /\ ~pl[t].Spectating)
    /\ \A t \in Token, l \in Lobbies :
            t \in lb[l].Watchers <=> (pl[t].Lobby = l /\ pl[t].Spectating)
    /\ \A t \in Token :
            /\ pl[t].Spectating => pl[t].Lobby # NoLobby
            /\ pl[t].Slot = NoSlot <=> pl[t].Lobby = NoLobby \/ pl[t].Spectating

\* No two of a room joined at once; an empty room has no leader; a leader
\* sits in the room, and joined it before everybody else in it.
Led(pl, room) ==
    /\ \A r, s \in Slots : r # s /\ room.Slots[r] # Nil /\ room.Slots[s] # Nil =>
            pl[room.Slots[r]].JoinSeq # pl[room.Slots[s]].JoinSeq
    /\ room.Leader = NoSlot => \A s \in Slots : room.Slots[s] = Nil
    /\ room.Leader # NoSlot =>
        /\ room.Slots[room.Leader] # Nil
        /\ \A s \in Slots \ {room.Leader} : room.Slots[s] # Nil =>
                pl[room.Slots[room.Leader]].JoinSeq < pl[room.Slots[s]].JoinSeq

\* The host of a race is the leader of a room that is not waiting.
Hosted(room) ==
    room.Host # Nil =>
        /\ room.Leader # NoSlot
        /\ room.Host = room.Slots[room.Leader]
        /\ room.State # "Waiting"

\* RacersBelong of a value of the players and the rooms.
Running(pl, lb) ==
    \A t \in Token : pl[t].Racing =>
        /\ pl[t].Lobby # NoLobby /\ ~pl[t].Spectating
        /\ lb[pl[t].Lobby].State # "Waiting"

Sound(pl, lb) ==
    /\ Typed(pl, lb)
    /\ Seating(pl, lb)
    /\ \A l \in Lobbies : Led(pl, lb[l]) /\ Hosted(lb[l])
    /\ Running(pl, lb)

IInv ==
    /\ sessions \in SUBSET Token
    /\ joinSeq \in Nat
    /\ \A t \in Token : player[t].JoinSeq <= joinSeq
    /\ \A t \in Token : player[t].Lobby # NoLobby => t \in sessions
    /\ Sound(player, lobby)

-----------------------------------------------------------------------------
(* leave.                                                                  *)

\* What leave does to the player's record.
LEMMA LeftFacts ==
    ASSUME NEW p \in PlayerType
    PROVE  /\ Left(p) \in PlayerType
           /\ Left(p).Lobby = NoLobby
           /\ Left(p).JoinSeq = p.JoinSeq
           /\ p.Lobby = NoLobby => Left(p) = p
           /\ p.Lobby # NoLobby => Left(p).Slot = NoSlot /\ ~Left(p).Spectating
           /\ Left(p).Spectating => p.Spectating /\ p.Lobby = NoLobby
           /\ Left(p).Racing => p.Racing /\ (p.Lobby # NoLobby => p.Spectating)
BY ZenonT(60) DEF Left, PlayerType, NoLobby, NoSlot

\* What leave does to the room.
LEMMA LobbyLeftFacts ==
    ASSUME NEW pl \in [Token -> PlayerType], NEW room \in LobbyType,
           NEW T \in SUBSET Token,
           \A s \in Slots : room.Slots[s] # Nil => pl[room.Slots[s]].Slot = s,
           Led(pl, room), Hosted(room)
    PROVE  /\ LobbyLeft(pl, room, T) \in LobbyType
           /\ LobbyLeft(pl, room, T).Slots = SlotsLeft(room, T)
           /\ LobbyLeft(pl, room, T).Watchers = room.Watchers \ T
           /\ LobbyLeft(pl, room, T).RaceID = room.RaceID
           /\ LobbyLeft(pl, room, T).State = room.State \/ (LobbyLeft(pl, room, T).State = "Waiting" /\ Seated(room) \subseteq T)
           /\ Led(pl, LobbyLeft(pl, room, T))
           /\ Hosted(LobbyLeft(pl, room, T))
<1> DEFINE rest == Seated(room) \ T
           heir == Earliest(pl, rest)
           out == LobbyLeft(pl, room, T)
<1>1. room.Slots \in [Slots -> Token \cup {Nil}] /\ NoSlot \notin Slots /\ Nil \notin Token
    BY TokenAssumption DEF LobbyType, NoSlot, Slots
<1>2. SlotsLeft(room, T) \in [Slots -> Token \cup {Nil}]
    BY <1>1 DEF SlotsLeft
<1>3. CASE rest = {} /\ Seated(room) # {}
    <2>1. out = Vacated(room, T)
        BY <1>3 DEF LobbyLeft
    <2>2. SlotsLeft(room, T) = [s \in Slots |-> Nil]
        BY <1>1, <1>3 DEF SlotsLeft, Seated
    <2>3. /\ Vacated(room, T) \in LobbyType
          /\ Vacated(room, T).Slots = [s \in Slots |-> Nil]
          /\ Vacated(room, T).Watchers = room.Watchers \ T
          /\ Vacated(room, T).RaceID = room.RaceID
          /\ Vacated(room, T).State = "Waiting"
          /\ Vacated(room, T).Leader = NoSlot
          /\ Vacated(room, T).Host = Nil
        BY WishAssumption, TrackAssumption DEF Vacated, NewLobby, LobbyType, Phases
    <2>4. Seated(room) \subseteq T
        BY <1>3
    <2> QED
        BY <1>1, <2>1, <2>2, <2>3, <2>4 DEF Led, Hosted
<1>4. CASE rest # {} /\ LeaderToken(room) \in T
    <2>1. rest \subseteq Token /\ \A q \in rest : pl[q].JoinSeq \in Nat
        BY <1>1 DEF Seated, PlayerType
    <2>2. heir \in rest /\ \A r \in rest : pl[heir].JoinSeq <= pl[r].JoinSeq
        BY <1>4, <2>1, EarliestFound
    <2> HIDE DEF heir
    <2>3. PICK h \in Slots : room.Slots[h] = heir /\ pl[heir].Slot = h
        BY <1>1, <2>2 DEF Seated
    <2>4. out = [room EXCEPT !.Slots = SlotsLeft(room, T), !.Watchers = @ \ T,
                             !.Host = HostLeft(room, T), !.Leader = h,
                             !.Nonce = pl[heir].StartNonce, !.synced = TRUE]
        BY <1>4, <2>3 DEF LobbyLeft, LobbyType, heir
    <2>5. /\ out \in LobbyType /\ out.Slots = SlotsLeft(room, T)
          /\ out.Watchers = room.Watchers \ T /\ out.RaceID = room.RaceID
          /\ out.State = room.State /\ out.Leader = h /\ out.Host = HostLeft(room, T)
        <3>1. pl[heir].StartNonce \in Nonces
            BY <2>1, <2>2 DEF PlayerType
        <3>2. HostLeft(room, T) \in Token \cup {Nil}
            BY DEF HostLeft, LobbyType
        <3>3. room.Watchers \ T \in SUBSET Token
            BY DEF LobbyType
        <3> HIDE DEF out
        <3> QED
            BY <1>2, <2>4, <3>1, <3>2, <3>3 DEF LobbyType
    <2> HIDE DEF out
    <2>6. Led(pl, out)
        <3>0. SlotsLeft(room, T)[h] = heir /\ heir # Nil
            BY <1>1, <2>2, <2>3 DEF SlotsLeft, Seated
        <3> SUFFICES ASSUME NEW s \in Slots \ {h}, SlotsLeft(room, T)[s] # Nil
                     PROVE  pl[heir].JoinSeq < pl[room.Slots[s]].JoinSeq
            <4>1. \A s \in Slots : SlotsLeft(room, T)[s] # Nil =>
                        SlotsLeft(room, T)[s] = room.Slots[s]
                BY DEF SlotsLeft
            <4> QED
                BY <1>1, <2>5, <3>0, <4>1 DEF Led
        <3>1. room.Slots[s] \in rest
            BY <1>1 DEF SlotsLeft, Seated
        <3>2. pl[room.Slots[s]].JoinSeq # pl[heir].JoinSeq
            BY <1>1, <2>2, <2>3, <3>1 DEF Led, Seated
        <3> QED
            BY <2>1, <2>2, <3>1, <3>2
    <2>7. HostLeft(room, T) = Nil
        BY <1>1, <1>4 DEF Hosted, HostLeft, LeaderToken
    <2> QED
        BY <2>5, <2>6, <2>7 DEF Hosted, out
<1>5. CASE (rest # {} \/ Seated(room) = {}) /\ LeaderToken(room) \notin T
    <2>1. out = [room EXCEPT !.Slots = SlotsLeft(room, T), !.Watchers = @ \ T,
                             !.Host = HostLeft(room, T)]
        BY <1>5 DEF LobbyLeft
    <2>2. /\ out \in LobbyType /\ out.Slots = SlotsLeft(room, T)
          /\ out.Watchers = room.Watchers \ T /\ out.RaceID = room.RaceID
          /\ out.State = room.State /\ out.Leader = room.Leader
          /\ out.Host = HostLeft(room, T)
        <3>1. HostLeft(room, T) \in Token \cup {Nil}
            BY DEF HostLeft, LobbyType
        <3>2. room.Watchers \ T \in SUBSET Token
            BY DEF LobbyType
        <3> HIDE DEF out
        <3> QED
            BY <1>2, <2>1, <3>1, <3>2 DEF LobbyType
    <2> HIDE DEF out
    <2>3. room.Leader # NoSlot => SlotsLeft(room, T)[room.Leader] = room.Slots[room.Leader]
        BY <1>5 DEF SlotsLeft, LeaderToken, LobbyType
    <2>4. Led(pl, out)
        BY <1>1, <2>2, <2>3 DEF Led, SlotsLeft
    <2>5. Hosted(out)
        BY <2>2, <2>3, <1>1 DEF Hosted, HostLeft
    <2> QED
        BY <2>2, <2>4, <2>5 DEF out
<1>6. LeaderToken(room) \in T => Seated(room) # {}
    <2>1. room.Leader # NoSlot => room.Leader \in Slots
        BY DEF LobbyType
    <2> QED
        BY <1>1, <2>1 DEF LeaderToken, Seated
<1> QED
    BY <1>3, <1>4, <1>5, <1>6

\* The order of a room hangs on nothing but the players' join numbers.
LEMMA LedSame ==
    ASSUME NEW pl, NEW pm, NEW room \in LobbyType, Led(pl, room),
           \A t \in Token : pm[t].JoinSeq = pl[t].JoinSeq
    PROVE  Led(pm, room)
<1>1. \A s \in Slots : room.Slots[s] # Nil => room.Slots[s] \in Token
    BY DEF LobbyType
<1>2. room.Leader # NoSlot => room.Leader \in Slots
    BY DEF LobbyType
<1> QED
    BY <1>1, <1>2 DEF Led

\* Who sits where, as the leave of a set of players is handed a sound state.
LEMMA SeatedSits ==
    ASSUME NEW pl, NEW lb, Sound(pl, lb), NEW l \in Lobbies, NEW s \in Slots,
           lb[l].Slots[s] # Nil
    PROVE  /\ lb[l].Slots[s] \in Token
           /\ pl[lb[l].Slots[s]].Slot = s /\ pl[lb[l].Slots[s]].Lobby = l
           /\ ~pl[lb[l].Slots[s]].Spectating
<1>1. lb[l].Slots[s] \in Token
    BY DEF Sound, Typed, LobbyType
<1> QED
    BY <1>1 DEF Sound, Seating

\* A set of players leaving keeps the rooms sound, and each of them is in no
\* room then.
LEMMA LeaveSound ==
    ASSUME NEW pl, NEW lb, Sound(pl, lb), NEW T \in SUBSET Token
    PROVE  /\ Sound(PlayersLeft(pl, T), LobbiesLeft(pl, lb, T))
           /\ \A l \in Lobbies :
                /\ LobbiesLeft(pl, lb, T)[l].Slots = SlotsLeft(lb[l], T)
                /\ LobbiesLeft(pl, lb, T)[l].RaceID = lb[l].RaceID
                /\ LobbiesLeft(pl, lb, T)[l].State \in {lb[l].State, "Waiting"}
           /\ \A t \in T : /\ PlayersLeft(pl, T)[t].Lobby = NoLobby
                          /\ ~PlayersLeft(pl, T)[t].Spectating
           /\ \A t \in Token \ T : PlayersLeft(pl, T)[t] = pl[t]
           /\ \A t \in Token : PlayersLeft(pl, T)[t].JoinSeq = pl[t].JoinSeq
<1> DEFINE pm == PlayersLeft(pl, T)
           lc == LobbiesLeft(pl, lb, T)
<1>1. pl \in [Token -> PlayerType] /\ lb \in [Lobbies -> LobbyType]
    BY DEF Sound, Typed
<1>2. /\ pm \in [Token -> PlayerType]
      /\ \A t \in T : pm[t] = Left(pl[t])
      /\ \A t \in Token \ T : pm[t] = pl[t]
    BY <1>1, LeftFacts DEF PlayersLeft
<1>3. \A t \in Token : pm[t].JoinSeq = pl[t].JoinSeq
    BY <1>1, <1>2, LeftFacts
<1>4. \A t \in T : /\ pm[t].Lobby = NoLobby /\ pm[t].Slot = NoSlot
                   /\ ~pm[t].Racing /\ ~pm[t].Spectating
    BY <1>1, <1>2, LeftFacts DEF Sound, Seating, Running
<1>5. ASSUME NEW l \in Lobbies
      PROVE  /\ lc[l] \in LobbyType
             /\ lc[l].Slots = SlotsLeft(lb[l], T)
             /\ lc[l].Watchers = lb[l].Watchers \ T
             /\ lc[l].RaceID = lb[l].RaceID /\ lc[l].State \in {lb[l].State, "Waiting"}
             /\ lc[l].State = lb[l].State \/ Seated(lb[l]) \subseteq T
             /\ Led(pl, lc[l]) /\ Hosted(lc[l])
    <2>1. lc[l] = LobbyLeft(pl, lb[l], T)
        BY DEF LobbiesLeft
    <2>2. \A s \in Slots : lb[l].Slots[s] # Nil => pl[lb[l].Slots[s]].Slot = s
        BY SeatedSits
    <2>3. Led(pl, lb[l]) /\ Hosted(lb[l])
        BY DEF Sound
    <2> QED
        BY <1>1, <2>1, <2>2, <2>3, LobbyLeftFacts
<1>6. Typed(pm, lc)
    <2>1. lc = [l \in Lobbies |-> lc[l]]
        BY DEF LobbiesLeft
    <2> QED
        BY <1>2, <1>5, <2>1 DEF Typed
<1> HIDE DEF pm, lc
<1>7. Seating(pm, lc)
    <2>1. ASSUME NEW t \in Token, NEW l \in Lobbies, NEW s \in Slots
          PROVE  lc[l].Slots[s] = t <=>
                    (pm[t].Lobby = l /\ pm[t].Slot = s /\ ~pm[t].Spectating)
        <3>1. lc[l].Slots[s] = t <=> lb[l].Slots[s] = t /\ t \notin T
            <4>1. lc[l].Slots[s] = IF lb[l].Slots[s] \in T THEN Nil ELSE lb[l].Slots[s]
                <5>1. lc[l].Slots = SlotsLeft(lb[l], T)
                    BY <1>5
                <5> QED
                    BY <5>1 DEF SlotsLeft
            <4> QED
                BY <4>1, TokenAssumption
        <3>2. CASE t \in T
            BY <1>4, <3>1, <3>2 DEF NoLobby, Lobbies
        <3>3. CASE t \notin T
            BY <1>2, <3>1, <3>3 DEF Sound, Seating
        <3> QED
            BY <3>2, <3>3
    <2>2. ASSUME NEW t \in Token, NEW l \in Lobbies
          PROVE  t \in lc[l].Watchers <=> (pm[t].Lobby = l /\ pm[t].Spectating)
        <3>1. CASE t \in T
            BY <1>4, <1>5, <3>1 DEF NoLobby, Lobbies
        <3>2. CASE t \notin T
            BY <1>2, <1>5, <3>2 DEF Sound, Seating
        <3> QED
            BY <3>1, <3>2
    <2>3. ASSUME NEW t \in Token
          PROVE  /\ pm[t].Spectating => pm[t].Lobby # NoLobby
                 /\ pm[t].Slot = NoSlot <=> pm[t].Lobby = NoLobby \/ pm[t].Spectating
        BY <1>2, <1>4 DEF Sound, Seating
    <2> QED
        BY <2>1, <2>2, <2>3 DEF Seating
<1>8. \A l \in Lobbies : Led(pm, lc[l]) /\ Hosted(lc[l])
    BY <1>3, <1>5, LedSame
<1>9. Running(pm, lc)
    <2> SUFFICES ASSUME NEW t \in Token, pm[t].Racing
                 PROVE  /\ pm[t].Lobby # NoLobby /\ ~pm[t].Spectating
                        /\ lc[pm[t].Lobby].State # "Waiting"
        BY DEF Running
    <2>1. t \notin T /\ pm[t] = pl[t]
        BY <1>2, <1>4
    <2>2. /\ pl[t].Lobby \in Lobbies /\ pl[t].Slot \in Slots /\ ~pl[t].Spectating
          /\ lb[pl[t].Lobby].State # "Waiting"
        BY <1>1, <2>1 DEF Sound, Running, Seating, PlayerType
    <2>3. t \in Seated(lb[pl[t].Lobby])
        BY <2>2, TokenAssumption DEF Sound, Seating, Seated
    <2> QED
        BY <1>5, <2>1, <2>2, <2>3 DEF NoLobby, Lobbies
<1> QED
    BY <1>2, <1>3, <1>4, <1>5, <1>6, <1>7, <1>8, <1>9 DEF Sound, pm, lc

-----------------------------------------------------------------------------
(* What the other handlers do, over a value of the players and the rooms.  *)

\* A player in no room may be replaced by another one in no room: a new
\* session, or one that has timed out.
LEMMA OutsideSound ==
    ASSUME NEW pl, NEW lb, Sound(pl, lb), NEW pm \in [Token -> PlayerType],
           \A t \in Token : pm[t] = pl[t] \/ (pl[t].Lobby = NoLobby /\ pm[t] = NewPlayer)
    PROVE  Sound(pm, lb)
<1>1. Typed(pm, lb)
    BY DEF Sound, Typed
<1>2. /\ NewPlayer.Lobby = NoLobby /\ NewPlayer.Slot = NoSlot
      /\ ~NewPlayer.Racing /\ ~NewPlayer.Spectating
    BY DEF NewPlayer
<1>3. NoLobby \notin Lobbies /\ NoSlot \notin Slots
    BY DEF NoLobby, NoSlot, Lobbies, Slots
<1>4. Seating(pm, lb)
    BY <1>2, <1>3 DEF Sound, Seating
<1>5. ASSUME NEW l \in Lobbies
      PROVE  Led(pm, lb[l]) /\ Hosted(lb[l])
    <2>1. \A s \in Slots : lb[l].Slots[s] # Nil => pm[lb[l].Slots[s]] = pl[lb[l].Slots[s]]
        BY <1>3, SeatedSits
    <2>2. lb[l].Leader # NoSlot => lb[l].Leader \in Slots
        BY DEF Sound, Typed, LobbyType
    <2> QED
        BY <2>1, <2>2 DEF Sound, Led
<1>6. Running(pm, lb)
    BY <1>2 DEF Sound, Running
<1> QED
    BY <1>1, <1>4, <1>5, <1>6 DEF Sound

\* The newest player takes a free slot, and the lead of an empty room.
LEMMA SeatSound ==
    ASSUME NEW pl, NEW lb, Sound(pl, lb),
           NEW t \in Token, pl[t].Lobby = NoLobby,
           NEW id \in Lobbies, NEW slot \in Slots, lb[id].Slots[slot] = Nil,
           NEW p \in PlayerType, p.Lobby = id, p.Slot = slot, ~p.Spectating,
           \A u \in Token : pl[u].JoinSeq < p.JoinSeq,
           p.Racing => lb[id].State # "Waiting",
           NEW room \in LobbyType,
           room.Slots = [lb[id].Slots EXCEPT ![slot] = t],
           room.Leader = IF lb[id].Leader = NoSlot THEN slot ELSE lb[id].Leader,
           room.Watchers = lb[id].Watchers, room.State = lb[id].State,
           room.Host = lb[id].Host
    PROVE  Sound([pl EXCEPT ![t] = p], [lb EXCEPT ![id] = room])
<1> DEFINE pm == [pl EXCEPT ![t] = p]
           lc == [lb EXCEPT ![id] = room]
<1>1. pl \in [Token -> PlayerType] /\ lb \in [Lobbies -> LobbyType]
    BY DEF Sound, Typed
<1>2. /\ pm \in [Token -> PlayerType] /\ lc \in [Lobbies -> LobbyType]
      /\ pm[t] = p /\ \A u \in Token \ {t} : pm[u] = pl[u]
      /\ lc[id] = room /\ \A l \in Lobbies \ {id} : lc[l] = lb[l]
    BY <1>1
<1> HIDE DEF pm, lc
<1>3. NoLobby \notin Lobbies /\ NoSlot \notin Slots /\ Nil \notin Token
    BY TokenAssumption DEF NoLobby, NoSlot, Lobbies, Slots
<1>4. lb[id].Slots \in [Slots -> Token \cup {Nil}]
    BY <1>1 DEF LobbyType
<1>5. \A l \in Lobbies : lc[l].State = lb[l].State /\ lc[l].Watchers = lb[l].Watchers
                         /\ lc[l].Host = lb[l].Host
    BY <1>2
<1>6. Seating(pm, lc)
    <2>1. ASSUME NEW u \in Token, NEW l \in Lobbies, NEW s \in Slots
          PROVE  lc[l].Slots[s] = u <=>
                    (pm[u].Lobby = l /\ pm[u].Slot = s /\ ~pm[u].Spectating)
        <3>1. lb[l].Slots[s] = u <=> (pl[u].Lobby = l /\ pl[u].Slot = s /\ ~pl[u].Spectating)
            BY DEF Sound, Seating
        <3>2. lc[l].Slots[s] = IF l = id /\ s = slot THEN t ELSE lb[l].Slots[s]
            BY <1>2, <1>4
        <3>3. CASE u = t
            BY <1>2, <1>3, <3>1, <3>2, <3>3
        <3>4. CASE u # t
            BY <1>2, <1>3, <3>1, <3>2, <3>4
        <3> QED
            BY <3>3, <3>4
    <2>2. ASSUME NEW u \in Token, NEW l \in Lobbies
          PROVE  u \in lc[l].Watchers <=> (pm[u].Lobby = l /\ pm[u].Spectating)
        <3>1. u \in lb[l].Watchers <=> (pl[u].Lobby = l /\ pl[u].Spectating)
            BY DEF Sound, Seating
        <3> QED
            BY <1>2, <1>3, <1>5, <3>1
    <2>3. ASSUME NEW u \in Token
          PROVE  /\ pm[u].Spectating => pm[u].Lobby # NoLobby
                 /\ pm[u].Slot = NoSlot <=> pm[u].Lobby = NoLobby \/ pm[u].Spectating
        BY <1>2, <1>3 DEF Sound, Seating
    <2> QED
        BY <2>1, <2>2, <2>3 DEF Seating
<1>7. ASSUME NEW l \in Lobbies
      PROVE  Led(pm, lc[l]) /\ Hosted(lc[l])
    <2>1. \A s \in Slots : lb[l].Slots[s] # Nil =>
                lb[l].Slots[s] \in Token \ {t} /\ pm[lb[l].Slots[s]] = pl[lb[l].Slots[s]]
        BY <1>2, <1>3, SeatedSits
    <2>2. Led(pl, lb[l]) /\ Hosted(lb[l])
        BY DEF Sound
    <2>3. lb[l].Leader # NoSlot => lb[l].Leader \in Slots
        BY <1>1 DEF LobbyType
    <2>4. CASE l # id
        BY SMTT(30), <1>2, <2>1, <2>2, <2>3, <2>4 DEF Led
    <2>5. CASE l = id
        <3>1. \A s \in Slots : room.Slots[s] = IF s = slot THEN t ELSE lb[id].Slots[s]
            BY <1>4
        <3>2. \A s \in Slots \ {slot} : room.Slots[s] # Nil =>
                    room.Slots[s] = lb[id].Slots[s] /\ pm[room.Slots[s]] = pl[lb[id].Slots[s]]
                    /\ pm[room.Slots[s]].JoinSeq < pm[t].JoinSeq
                    /\ pm[room.Slots[s]].JoinSeq \in Nat
            BY <1>1, <1>2, <2>1, <2>5, <3>1 DEF PlayerType
        <3>3. room.Slots[slot] = t /\ pm[t].JoinSeq \in Nat
            BY <1>2, <3>1 DEF PlayerType
        <3>4. Led(pm, room)
            <4>1. \A r, s \in Slots : r # s /\ room.Slots[r] # Nil /\ room.Slots[s] # Nil =>
                        pm[room.Slots[r]].JoinSeq # pm[room.Slots[s]].JoinSeq
                <5> TAKE r, s \in Slots
                <5> HAVE r # s /\ room.Slots[r] # Nil /\ room.Slots[s] # Nil
                <5>1. CASE r # slot /\ s # slot
                    BY <2>1, <2>2, <2>5, <3>2, <5>1 DEF Led
                <5>2. CASE r = slot \/ s = slot
                    BY <3>2, <3>3, <5>2
                <5> QED
                    BY <5>1, <5>2
            <4>2. room.Leader # NoSlot /\ room.Slots[room.Leader] # Nil
                BY <1>3, <2>2, <2>3, <2>5, <3>1 DEF Led
            <4>3. ASSUME NEW s \in Slots \ {room.Leader}, room.Slots[s] # Nil
                  PROVE  pm[room.Slots[room.Leader]].JoinSeq < pm[room.Slots[s]].JoinSeq
                <5>1. CASE lb[id].Leader = NoSlot
                    BY <2>2, <2>5, <3>1, <4>3, <5>1 DEF Led
                <5>2. CASE lb[id].Leader # NoSlot
                    <6>1. room.Leader \in Slots \ {slot}
                        BY <2>2, <2>3, <2>5, <5>2 DEF Led
                    <6> QED
                        BY SMTT(30), <2>1, <2>2, <2>5, <3>2, <3>3, <4>2, <4>3, <5>2, <6>1 DEF Led
                <5> QED
                    BY <5>1, <5>2
            <4> QED
                BY <4>1, <4>2, <4>3 DEF Led
        <3>5. Hosted(room)
            BY <1>3, <2>2, <2>3, <2>5, <3>1 DEF Hosted, Led
        <3> QED
            BY <1>2, <2>5, <3>4, <3>5
    <2> QED
        BY <2>4, <2>5
<1>8. Running(pm, lc)
    <2> SUFFICES ASSUME NEW u \in Token, pm[u].Racing
                 PROVE  /\ pm[u].Lobby # NoLobby /\ ~pm[u].Spectating
                        /\ lc[pm[u].Lobby].State # "Waiting"
        BY DEF Running
    <2>1. CASE u = t
        BY <1>2, <1>3, <1>5, <2>1
    <2>2. CASE u # t
        <3>1. pl[u].Lobby # NoLobby /\ ~pl[u].Spectating /\ lb[pl[u].Lobby].State # "Waiting"
            BY <1>2, <2>2 DEF Sound, Running
        <3>2. pl[u].Lobby \in Lobbies
            BY <1>1, <3>1 DEF PlayerType
        <3> QED
            BY <1>2, <1>5, <2>2, <3>1, <3>2
    <2> QED
        BY <2>1, <2>2
<1> QED
    BY <1>2, <1>6, <1>7, <1>8 DEF Sound, Typed, pm, lc

\* A player in no room joins an audience.
LEMMA WatchSound ==
    ASSUME NEW pl, NEW lb, Sound(pl, lb),
           NEW t \in Token, pl[t].Lobby = NoLobby, NEW id \in Lobbies,
           NEW p \in PlayerType, p.Lobby = id, p.Slot = NoSlot, p.Spectating, ~p.Racing,
           p.JoinSeq = pl[t].JoinSeq,
           NEW room, room = [lb[id] EXCEPT !.Watchers = @ \cup {t}]
    PROVE  Sound([pl EXCEPT ![t] = p], [lb EXCEPT ![id] = room])
<1> DEFINE pm == [pl EXCEPT ![t] = p]
           lc == [lb EXCEPT ![id] = room]
<1>1. pl \in [Token -> PlayerType] /\ lb \in [Lobbies -> LobbyType]
    BY DEF Sound, Typed
<1>2. /\ room \in LobbyType
      /\ room.Slots = lb[id].Slots /\ room.Leader = lb[id].Leader
      /\ room.Watchers = lb[id].Watchers \cup {t}
      /\ room.State = lb[id].State /\ room.Host = lb[id].Host
    <2>1. lb[id].Watchers \cup {t} \in SUBSET Token
        BY <1>1 DEF LobbyType
    <2> QED
        BY <1>1, <2>1 DEF LobbyType
<1>3. /\ pm \in [Token -> PlayerType] /\ lc \in [Lobbies -> LobbyType]
      /\ pm[t] = p /\ \A u \in Token \ {t} : pm[u] = pl[u]
      /\ lc[id] = room /\ \A l \in Lobbies \ {id} : lc[l] = lb[l]
    BY <1>1, <1>2
<1> HIDE DEF pm, lc
<1>4. NoLobby \notin Lobbies /\ NoSlot \notin Slots /\ Nil \notin Token
    BY TokenAssumption DEF NoLobby, NoSlot, Lobbies, Slots
<1>5. \A l \in Lobbies :
        /\ lc[l].State = lb[l].State /\ lc[l].Slots = lb[l].Slots
        /\ lc[l].Leader = lb[l].Leader /\ lc[l].Host = lb[l].Host
    BY ZenonT(60), <1>2, <1>3
<1>6. Seating(pm, lc)
    <2>1. ASSUME NEW u \in Token, NEW l \in Lobbies, NEW s \in Slots
          PROVE  lc[l].Slots[s] = u <=>
                    (pm[u].Lobby = l /\ pm[u].Slot = s /\ ~pm[u].Spectating)
        <3>1. lb[l].Slots[s] = u <=> (pl[u].Lobby = l /\ pl[u].Slot = s /\ ~pl[u].Spectating)
            BY DEF Sound, Seating
        <3> QED
            BY <1>3, <1>4, <1>5, <3>1
    <2>2. ASSUME NEW u \in Token, NEW l \in Lobbies
          PROVE  u \in lc[l].Watchers <=> (pm[u].Lobby = l /\ pm[u].Spectating)
        <3>1. u \in lb[l].Watchers <=> (pl[u].Lobby = l /\ pl[u].Spectating)
            BY DEF Sound, Seating
        <3>2. u \in lc[l].Watchers <=> u \in lb[l].Watchers \/ (l = id /\ u = t)
            <4>1. lc[l].Watchers = IF l = id THEN lb[l].Watchers \cup {t} ELSE lb[l].Watchers
                BY ZenonT(60), <1>2, <1>3
            <4> QED
                BY <4>1
        <3>3. CASE u = t
            BY <1>3, <1>4, <3>1, <3>2, <3>3
        <3>4. CASE u # t
            BY <1>3, <3>1, <3>2, <3>4
        <3> QED
            BY <3>3, <3>4
    <2>3. ASSUME NEW u \in Token
          PROVE  /\ pm[u].Spectating => pm[u].Lobby # NoLobby
                 /\ pm[u].Slot = NoSlot <=> pm[u].Lobby = NoLobby \/ pm[u].Spectating
        BY <1>3, <1>4 DEF Sound, Seating
    <2> QED
        BY <2>1, <2>2, <2>3 DEF Seating
<1>7. ASSUME NEW l \in Lobbies
      PROVE  Led(pm, lc[l]) /\ Hosted(lc[l])
    <2>1. Led(pl, lb[l]) /\ Hosted(lb[l])
        BY DEF Sound
    <2>2. Led(pl, lc[l]) /\ Hosted(lc[l])
        BY <1>5, <2>1 DEF Led, Hosted
    <2>3. \A u \in Token : pm[u].JoinSeq = pl[u].JoinSeq
        BY <1>3
    <2> QED
        BY <1>3, <2>2, <2>3, LedSame
<1>8. Running(pm, lc)
    <2> SUFFICES ASSUME NEW u \in Token, pm[u].Racing
                 PROVE  /\ pm[u].Lobby # NoLobby /\ ~pm[u].Spectating
                        /\ lc[pm[u].Lobby].State # "Waiting"
        BY DEF Running
    <2>1. u # t /\ pm[u] = pl[u]
        BY <1>3
    <2>2. pl[u].Lobby # NoLobby /\ ~pl[u].Spectating /\ lb[pl[u].Lobby].State # "Waiting"
        BY <2>1 DEF Sound, Running
    <2>3. pl[u].Lobby \in Lobbies
        BY <1>1, <2>2 DEF PlayerType
    <2> QED
        BY <1>5, <2>1, <2>2, <2>3
<1> QED
    BY <1>3, <1>6, <1>7, <1>8 DEF Sound, Typed, pm, lc

\* A step that moves nobody keeps the rooms sound, if hosts and racers are
\* still where they belong.
LEMMA StaySound ==
    ASSUME NEW pl, NEW lb, Sound(pl, lb),
           NEW pm \in [Token -> PlayerType], NEW lc \in [Lobbies -> LobbyType],
           \A t \in Token :
                /\ pm[t].Lobby = pl[t].Lobby /\ pm[t].Slot = pl[t].Slot
                /\ pm[t].Spectating = pl[t].Spectating /\ pm[t].JoinSeq = pl[t].JoinSeq,
           \A l \in Lobbies :
                /\ lc[l].Slots = lb[l].Slots /\ lc[l].Watchers = lb[l].Watchers
                /\ lc[l].Leader = lb[l].Leader
                /\ Hosted(lc[l]),
           Running(pm, lc)
    PROVE  Sound(pm, lc)
<1>1. Typed(pm, lc)
    BY DEF Typed
<1>2. Seating(pm, lc)
    BY DEF Sound, Seating
<1>3. ASSUME NEW l \in Lobbies
      PROVE  Led(pm, lc[l])
    <2>1. Led(pl, lc[l])
        BY DEF Sound, Led
    <2> QED
        BY <2>1, LedSame
<1> QED
    BY <1>1, <1>2, <1>3 DEF Sound

-----------------------------------------------------------------------------
(* The actions.                                                            *)

\* What enterRoam leaves alone.
LEMMA OnLotFacts ==
    ASSUME NEW p \in PlayerType, NEW grid \in Nat
    PROVE  /\ OnLot(p, grid) \in PlayerType /\ OnLot(p, grid).Racing
           /\ OnLot(p, grid).Lobby = p.Lobby /\ OnLot(p, grid).Slot = p.Slot
           /\ OnLot(p, grid).Spectating = p.Spectating
           /\ OnLot(p, grid).JoinSeq = p.JoinSeq
BY DEF OnLot, PlayerType

\* The search for a free bay of the grid ends with a number.
LEMMA FreeGridType == ASSUME NEW pl, NEW room PROVE FreeGrid(pl, room) \in Nat
<1> DEFINE free == Slots \ {pl[q].Grid : q \in Racers(pl, room)}
<1>1. free \subseteq Nat
    BY DEF Slots
<1>2. FreeGrid(pl, room) = LowestOr(free, 0)
    BY DEF FreeGrid
<1> HIDE DEF free
<1>3. LowestOr(free, 0) = 0 \/ LowestOr(free, 0) \in free
    <2>1. CASE free = {}
        BY <2>1 DEF LowestOr
    <2>2. CASE free # {}
        BY <1>1, <2>2, LeastExists DEF LowestOr
    <2> QED
        BY <2>1, <2>2
<1>4. 0 \in Nat
    OBVIOUS
<1> QED
    BY <1>1, <1>2, <1>3, <1>4, Zenon

\* The search for a free slot ends with a slot of the room that is free, or
\* with none.
LEMMA FreeSlotFound ==
    ASSUME NEW room, FreeSlot(room) # NoSlot
    PROVE  FreeSlot(room) \in Slots /\ room.Slots[FreeSlot(room)] = Nil
<1> DEFINE free == {s \in Slots : room.Slots[s] = Nil}
<1>1. free \subseteq Nat
    BY DEF Slots
<1>2. FreeSlot(room) = LowestOr(free, NoSlot)
    BY DEF FreeSlot
<1> HIDE DEF free
<1>3. free # {}
    BY <1>2 DEF LowestOr
<1>4. \E n \in free : \A m \in free : n <= m
    BY <1>1, <1>3, LeastExists
<1>5. FreeSlot(room) \in free
    BY <1>2, <1>3, <1>4 DEF LowestOr
<1> QED
    BY <1>5 DEF free

\* join's search for a colour ends with a colour.
LEMMA JoinColourType ==
    ASSUME NEW pl \in [Token -> PlayerType], NEW room, NEW t \in Token
    PROVE  JoinColour(pl, room, t) \in AllColours
<1> DEFINE free == {c \in 0 .. Colours - 1 : ColourFree(pl, room, c, t)}
<1>1. free \subseteq Nat /\ free \subseteq AllColours
    BY ColourAssumption DEF AllColours, ColourCustom
<1>2. JoinColour(pl, room, t) \in {pl[t].Colour, LowestOr(free, pl[t].Colour)}
    BY DEF JoinColour
<1>3. pl[t].Colour \in AllColours
    BY DEF PlayerType
<1> HIDE DEF free
<1>4. LowestOr(free, pl[t].Colour) \in AllColours
    BY <1>1, <1>3, LowestFound
<1> QED
    BY <1>2, <1>3, <1>4

\* The rooms New makes are sound.
LEMMA InitSound == Init => IInv
<1> SUFFICES ASSUME Init PROVE IInv
    OBVIOUS
<1>1. NewPlayer \in PlayerType
    BY ColourAssumption, WishAssumption
    DEF NewPlayer, PlayerType, AllColours, ColourCustom, NoLobby, NoSlot
<1>2. ASSUME NEW r \in FirstRaceIDs
      PROVE  NewLobby(r) \in LobbyType
    BY RaceIDAssumption, TrackAssumption, WishAssumption DEF NewLobby, LobbyType, Phases
<1>3. ASSUME NEW l \in Lobbies
      PROVE  /\ lobby[l] \in LobbyType /\ lobby[l].Slots = [s \in Slots |-> Nil]
             /\ lobby[l].Watchers = {} /\ lobby[l].Leader = NoSlot /\ lobby[l].Host = Nil
    BY <1>2 DEF Init, NewLobby
<1>4. /\ NewPlayer.Lobby = NoLobby /\ NewPlayer.Slot = NoSlot /\ NewPlayer.JoinSeq = 0
      /\ ~NewPlayer.Racing /\ ~NewPlayer.Spectating
    BY DEF NewPlayer
<1>5. Typed(player, lobby)
    <2>1. lobby = [l \in Lobbies |-> lobby[l]]
        BY DEF Init
    <2> QED
        BY <1>1, <1>3, <2>1 DEF Init, Typed
<1>6. Seating(player, lobby)
    <2>1. /\ \A t \in Token : player[t] = NewPlayer
          /\ \A l \in Lobbies, s \in Slots : lobby[l].Slots[s] = Nil
          /\ NoLobby \notin Lobbies /\ Nil \notin Token
        BY <1>3, TokenAssumption DEF Init, NoLobby, Lobbies
    <2> QED
        BY <1>3, <1>4, <2>1 DEF Seating
<1>7. \A l \in Lobbies : Led(player, lobby[l]) /\ Hosted(lobby[l])
    BY <1>3 DEF Led, Hosted
<1>8. Running(player, lobby)
    BY <1>4 DEF Init, Running
<1> QED
    BY <1>4, <1>5, <1>6, <1>7, <1>8 DEF Init, IInv, Sound

\* A new session sits nowhere.
LEMMA HelloSound == ASSUME IInv, NEW t \in Token, Hello(t) PROVE IInv'
<1>1. NewPlayer \in PlayerType /\ NewPlayer.Lobby = NoLobby /\ NewPlayer.JoinSeq = 0
    BY ColourAssumption, WishAssumption
    DEF NewPlayer, PlayerType, AllColours, ColourCustom, NoLobby, NoSlot
<1>2. player' \in [Token -> PlayerType] /\ player'[t] = NewPlayer
      /\ \A u \in Token \ {t} : player'[u] = player[u]
    BY <1>1 DEF IInv, Sound, Typed, Hello
<1>3. Sound(player', lobby)
    BY <1>2, OutsideSound DEF IInv, Hello
<1> QED
    BY <1>1, <1>2, <1>3 DEF IInv, Hello

\* LEAVE: the rooms are sound without the player.
LEMMA LeaveActionSound == ASSUME IInv, NEW t \in Token, Leave(t) PROVE IInv'
<1>1. /\ Sound(player', lobby')
      /\ player'[t].Lobby = NoLobby
      /\ \A u \in Token \ {t} : player'[u] = player[u]
      /\ \A u \in Token : player'[u].JoinSeq = player[u].JoinSeq
    BY LeaveSound DEF IInv, Leave
<1> QED
    BY <1>1 DEF IInv, Leave

\* JOIN with the spectate flag: the player leaves, then joins an audience.
LEMMA SpectateSound ==
    ASSUME IInv, NEW t \in Token, NEW id \in Lobbies, Spectate(t, id)
    PROVE  IInv'
<1> DEFINE pl == PlayersLeft(player, {t})
           lb == LobbiesLeft(player, lobby, {t})
           p == [pl[t] EXCEPT !.Lobby = id, !.Slot = NoSlot, !.Spectating = TRUE,
                              !.Racing = FALSE, !.Finished = FALSE, !.Kart = NoKart]
           room == [lb[id] EXCEPT !.Watchers = @ \cup {t}]
<1>1. /\ Sound(pl, lb) /\ pl[t].Lobby = NoLobby
      /\ \A u \in Token \ {t} : pl[u] = player[u]
      /\ \A u \in Token : pl[u].JoinSeq = player[u].JoinSeq
    BY LeaveSound DEF IInv
<1>2. pl \in [Token -> PlayerType] /\ lb \in [Lobbies -> LobbyType]
    BY <1>1 DEF Sound, Typed
<1> HIDE DEF pl, lb
<1>3. player' = [pl EXCEPT ![t] = p] /\ lobby' = [lb EXCEPT ![id] = room]
    BY <1>2 DEF Spectate, pl, lb
<1>4. /\ p \in PlayerType /\ p.Lobby = id /\ p.Slot = NoSlot /\ p.Spectating /\ ~p.Racing
      /\ p.JoinSeq = pl[t].JoinSeq
    <2>1. pl[t] \in PlayerType
        BY <1>2
    <2>2. p.Lobby = id /\ p.Slot = NoSlot /\ p.Spectating /\ ~p.Racing
          /\ p.JoinSeq = pl[t].JoinSeq
        BY <2>1 DEF PlayerType
    <2>3. p \in PlayerType
        BY <2>1 DEF PlayerType, NoKart
    <2> QED
        BY <2>2, <2>3
<1> HIDE DEF p
<1>5. Sound(player', lobby')
    BY <1>1, <1>3, <1>4, WatchSound
<1>6. /\ \A u \in Token : player'[u].JoinSeq = player[u].JoinSeq
      /\ \A u \in Token \ {t} : player'[u].Lobby = player[u].Lobby
    BY <1>1, <1>2, <1>3, <1>4
<1> QED
    BY <1>5, <1>6 DEF IInv, Spectate

\* JOIN: the player leaves, then takes a slot that was free before and after.
LEMMA JoinSound ==
    ASSUME IInv, NEW t \in Token, NEW id \in Lobbies, Join(t, id)
    PROVE  IInv'
<1> DEFINE pl == PlayersLeft(player, {t})
           lb == LobbiesLeft(player, lobby, {t})
           slot == FreeSlot(lobby[id])
           old == lb[id]
           colour == JoinColour(pl, old, t)
           seated == [pl[t] EXCEPT !.Lobby = id, !.Slot = slot, !.JoinSeq = joinSeq + 1,
                                   !.Points = 0, !.LastPlace = 0, !.Racing = FALSE,
                                   !.Finished = FALSE, !.Kart = NoKart, !.Colour = colour]
           p == IF TakesLatecomers(old) THEN OnLot(seated, FreeGrid(pl, old)) ELSE seated
           room == [old EXCEPT !.Slots[slot] = t,
                               !.Leader = IF @ = NoSlot THEN slot ELSE @,
                               !.synced = @ /\ old.Leader # NoSlot]
<1>1. /\ Sound(pl, lb) /\ pl[t].Lobby = NoLobby
      /\ \A u \in Token \ {t} : pl[u] = player[u]
      /\ \A u \in Token : pl[u].JoinSeq = player[u].JoinSeq
    BY LeaveSound DEF IInv
<1>2. pl \in [Token -> PlayerType] /\ lb \in [Lobbies -> LobbyType]
    BY <1>1 DEF Sound, Typed
<1>3. slot \in Slots /\ lobby[id].Slots[slot] = Nil
    BY FreeSlotFound DEF Join
<1>4. old.Slots[slot] = Nil
    <2>1. \A l \in Lobbies : lb[l].Slots = SlotsLeft(lobby[l], {t})
        BY LeaveSound DEF IInv
    <2> QED
        BY <1>3, <2>1 DEF SlotsLeft
<1>5. player' = [pl EXCEPT ![t] = p] /\ lobby' = [lb EXCEPT ![id] = room]
    BY DEF Join
<1>6. pl[t].Spectating = FALSE
    <2>1. \A u \in {t} : ~pl[u].Spectating
        BY LeaveSound DEF IInv
    <2> QED
        BY <1>2, <2>1 DEF PlayerType
<1> HIDE DEF pl, lb, slot
<1>7. /\ seated \in PlayerType /\ seated.Lobby = id /\ seated.Slot = slot
      /\ ~seated.Spectating /\ ~seated.Racing /\ seated.JoinSeq = joinSeq + 1
    <2>1. colour \in AllColours
        BY <1>2, JoinColourType
    <2> HIDE DEF colour
    <2> QED
        <3>1. /\ joinSeq + 1 \in Nat /\ 0 \in Nat /\ pl[t] \in PlayerType
              /\ id \in Lobbies \cup {NoLobby} /\ slot \in Slots \cup {NoSlot}
              /\ NoKart \in RaceIDs \cup {NoKart}
            BY <1>2, <1>3 DEF IInv
        <3>2. seated \in PlayerType
            BY <2>1, <3>1 DEF PlayerType
        <3>3. /\ seated.Lobby = id /\ seated.Slot = slot /\ ~seated.Racing
              /\ seated.JoinSeq = joinSeq + 1 /\ seated.Spectating = pl[t].Spectating
            BY <3>1 DEF PlayerType
        <3> QED
            BY <1>6, <3>2, <3>3
<1>8. /\ p \in PlayerType /\ p.Lobby = id /\ p.Slot = slot
      /\ ~p.Spectating /\ p.JoinSeq = joinSeq + 1
      /\ p.Racing => old.State # "Waiting"
    <2> HIDE DEF seated
    <2>1. CASE TakesLatecomers(old)
        BY <1>7, <2>1, FreeGridType, OnLotFacts DEF TakesLatecomers, Live
    <2>2. CASE ~TakesLatecomers(old)
        BY <1>7, <2>2
    <2> QED
        BY <2>1, <2>2
<1>9. /\ room \in LobbyType /\ room.Slots = [old.Slots EXCEPT ![slot] = t]
      /\ room.Leader = IF old.Leader = NoSlot THEN slot ELSE old.Leader
      /\ room.Watchers = old.Watchers /\ room.State = old.State /\ room.Host = old.Host
    <2>1. old \in LobbyType
        BY <1>2
    <2> HIDE DEF old
    <2>2. [old.Slots EXCEPT ![slot] = t] \in [Slots -> Token \cup {Nil}]
        BY <1>3, <2>1 DEF LobbyType
    <2>3. /\ (IF old.Leader = NoSlot THEN slot ELSE old.Leader) \in Slots \cup {NoSlot}
          /\ (old.synced /\ old.Leader # NoSlot) \in BOOLEAN
        BY <1>3, <2>1 DEF LobbyType
    <2> QED
        BY <2>1, <2>2, <2>3 DEF LobbyType
<1> HIDE DEF p, room
<1>10. Sound(player', lobby')
    <2>1. \A u \in Token : pl[u].JoinSeq < p.JoinSeq
        BY <1>1, <1>2, <1>8 DEF IInv, PlayerType
    <2> QED
        BY <1>1, <1>3, <1>4, <1>5, <1>8, <1>9, <2>1, SeatSound
<1>11. /\ \A u \in Token : player'[u].JoinSeq <= joinSeq + 1
       /\ \A u \in Token \ {t} : player'[u].Lobby = player[u].Lobby
    <2>1. ASSUME NEW u \in Token \ {t}
          PROVE  player'[u] = player[u] /\ player[u].JoinSeq \in Nat
        BY <1>1, <1>2, <1>5 DEF IInv, Sound, Typed, PlayerType
    <2>2. player'[t] = p
        BY <1>2, <1>5
    <2> QED
        BY <1>8, <2>1, <2>2 DEF IInv
<1>12. t \in sessions /\ sessions' = sessions /\ joinSeq' = joinSeq + 1
    BY DEF Join
<1> QED
    BY <1>10, <1>11, <1>12 DEF IInv

\* Handlers that write one player's record where it sits.
LEMMA RecordSound ==
    ASSUME IInv, NEW t \in Token, NEW p \in PlayerType,
           player' = [player EXCEPT ![t] = p], UNCHANGED <<sessions, lobby, joinSeq>>,
           p.Lobby = player[t].Lobby, p.Slot = player[t].Slot,
           p.Spectating = player[t].Spectating, p.JoinSeq = player[t].JoinSeq,
           p.Racing => \/ player[t].Racing
                       \/ /\ player[t].Lobby # NoLobby /\ ~player[t].Spectating
                          /\ lobby[player[t].Lobby].State # "Waiting"
    PROVE  IInv'
<1>1. player \in [Token -> PlayerType] /\ lobby \in [Lobbies -> LobbyType]
    BY DEF IInv, Sound, Typed
<1>2. /\ player' \in [Token -> PlayerType] /\ player'[t] = p
      /\ \A u \in Token \ {t} : player'[u] = player[u]
    BY <1>1
<1>3. Running(player', lobby)
    BY <1>2 DEF IInv, Sound, Running
<1>4. \A u \in Token :
        /\ player'[u].Lobby = player[u].Lobby /\ player'[u].Slot = player[u].Slot
        /\ player'[u].Spectating = player[u].Spectating
        /\ player'[u].JoinSeq = player[u].JoinSeq
    BY <1>2
<1>5. Sound(player', lobby)
    <2>1. \A l \in Lobbies : Hosted(lobby[l])
        BY DEF IInv, Sound
    <2> QED
        BY <1>1, <1>2, <1>3, <1>4, <2>1, StaySound DEF IInv
<1> QED
    BY <1>4, <1>5 DEF IInv

\* RETIRE: the player is off the road and in its slot.
LEMMA RetireSound ==
    ASSUME IInv, NEW t \in Token, NEW raceID \in RaceIDs, Retire(t, raceID)
    PROVE  IInv'
<1>1. player[t] \in PlayerType
    BY DEF IInv, Sound, Typed
<1>2. player' = [player EXCEPT ![t] = Retired(player[t])]
    BY DEF Retire
<1>3. /\ Retired(player[t]) \in PlayerType /\ ~Retired(player[t]).Racing
      /\ Retired(player[t]).Lobby = player[t].Lobby /\ Retired(player[t]).Slot = player[t].Slot
      /\ Retired(player[t]).Spectating = player[t].Spectating
      /\ Retired(player[t]).JoinSeq = player[t].JoinSeq
    BY <1>1 DEF Retired, PlayerType, NoKart
<1>4. UNCHANGED <<sessions, lobby, joinSeq>>
    BY DEF Retire
<1> QED
    BY <1>2, <1>3, <1>4, RecordSound

\* KART: only what the player reported of its kart changes.
LEMMA KartSound ==
    ASSUME IInv, NEW t \in Token, NEW raceID \in RaceIDs, NEW finished \in BOOLEAN,
           NEW ms \in Times, NEW dist \in Dists, Kart(t, raceID, finished, ms, dist)
    PROVE  IInv'
<1> DEFINE finishes == finished /\ Finishes(player[t], lobby[player[t].Lobby])
           p == [player[t] EXCEPT !.Kart = raceID,
                                  !.Progress = IF player[t].Finished THEN @ ELSE dist,
                                  !.Finished = @ \/ finishes,
                                  !.FinishMs = IF finishes THEN ms ELSE @]
<1>1. player[t] \in PlayerType
    BY DEF IInv, Sound, Typed
<1>2. player' = [player EXCEPT ![t] = p]
    BY DEF Kart
<1>3. /\ p \in PlayerType /\ p.Racing = player[t].Racing
      /\ p.Lobby = player[t].Lobby /\ p.Slot = player[t].Slot
      /\ p.Spectating = player[t].Spectating /\ p.JoinSeq = player[t].JoinSeq
    <2>1. /\ (IF player[t].Finished THEN player[t].Progress ELSE dist) \in Nat
          /\ (IF finishes THEN ms ELSE player[t].FinishMs) \in Nat
          /\ (player[t].Finished \/ finishes) \in BOOLEAN
          /\ raceID \in RaceIDs \cup {NoKart}
        BY <1>1, KartAssumption DEF PlayerType
    <2> HIDE DEF finishes
    <2> QED
        BY <1>1, <2>1 DEF PlayerType
<1>4. UNCHANGED <<sessions, lobby, joinSeq>>
    BY DEF Kart
<1> HIDE DEF p
<1> QED
    BY <1>2, <1>3, <1>4, RecordSound

\* WISH from a follower: the player's record, and its place on a lot that is
\* open.
LEMMA FollowerWishSound ==
    ASSUME IInv, NEW t \in Token, NEW wish \in WishType, FollowerWish(t, wish)
    PROVE  IInv'
<1> DEFINE room == lobby[player[t].Lobby]
           painted == [player[t] EXCEPT !.Colour = Repainted(t, wish.colour)]
           backOn == /\ player[t].nonceSeen
                     /\ wish.nonce # player[t].StartNonce
                     /\ ~player[t].Racing
                     /\ TakesLatecomers(room)
           moved == IF backOn THEN OnLot(painted, FreeGrid(player, room)) ELSE painted
           p == [moved EXCEPT !.StartNonce = wish.nonce, !.nonceSeen = TRUE]
<1>1. player[t] \in PlayerType
    BY DEF IInv, Sound, Typed
<1>2. player' = [player EXCEPT ![t] = p]
    BY DEF FollowerWish
<1>3. /\ painted \in PlayerType /\ painted.Racing = player[t].Racing
      /\ painted.Lobby = player[t].Lobby /\ painted.Slot = player[t].Slot
      /\ painted.Spectating = player[t].Spectating /\ painted.JoinSeq = player[t].JoinSeq
    <2>1. Repainted(t, wish.colour) \in AllColours
        BY <1>1 DEF Repainted, PlayerType, WishType
    <2> QED
        BY <1>1, <2>1 DEF PlayerType
<1>4. backOn => /\ player[t].Lobby # NoLobby /\ ~player[t].Spectating
                /\ room.State # "Waiting"
    BY DEF FollowerWish, InSlot, TakesLatecomers, Live
<1> HIDE DEF painted, backOn, room
<1>5. /\ moved \in PlayerType /\ (moved.Racing => player[t].Racing \/ backOn)
      /\ moved.Lobby = player[t].Lobby /\ moved.Slot = player[t].Slot
      /\ moved.Spectating = player[t].Spectating /\ moved.JoinSeq = player[t].JoinSeq
    BY <1>3, FreeGridType, OnLotFacts
<1> HIDE DEF moved
<1>6. /\ p \in PlayerType /\ p.Racing = moved.Racing
      /\ p.Lobby = player[t].Lobby /\ p.Slot = player[t].Slot
      /\ p.Spectating = player[t].Spectating /\ p.JoinSeq = player[t].JoinSeq
    <2>1. wish.nonce \in Nonces
        BY DEF WishType
    <2> QED
        BY <1>5, <2>1 DEF PlayerType
<1>7. UNCHANGED <<sessions, lobby, joinSeq>>
    BY DEF FollowerWish
<1> HIDE DEF p
<1> QED
    BY <1>2, <1>4, <1>5, <1>6, <1>7, RecordSound DEF room

\* A set of players is finite, and counting some of them gives a number.
LEMMA CountType == ASSUME NEW S, S \subseteq Token PROVE Cardinality(S) \in Nat
BY TokenAssumption, FS_Subset, FS_CardinalityType

\* Who sits in a room, as a set.
LEMMA SeatedIn ==
    ASSUME NEW pl, NEW lb, Sound(pl, lb), NEW l \in Lobbies
    PROVE  /\ Seated(lb[l]) \subseteq Token
           /\ \A u \in Token : u \in Seated(lb[l]) <=> pl[u].Lobby = l /\ ~pl[u].Spectating
<1>1. pl \in [Token -> PlayerType] /\ lb[l].Slots \in [Slots -> Token \cup {Nil}]
    BY DEF Sound, Typed, LobbyType
<1>2. Seated(lb[l]) \subseteq Token
    BY <1>1 DEF Seated
<1>3. ASSUME NEW u \in Token
      PROVE  u \in Seated(lb[l]) <=> pl[u].Lobby = l /\ ~pl[u].Spectating
    <2>1. u \in Seated(lb[l]) <=> \E s \in Slots : lb[l].Slots[s] = u
        BY TokenAssumption DEF Seated
    <2>2. pl[u].Lobby = l /\ ~pl[u].Spectating => pl[u].Slot \in Slots
        BY <1>1 DEF Sound, Seating, PlayerType, NoLobby, Lobbies
    <2> QED
        BY <2>1, <2>2 DEF Sound, Seating
<1> QED
    BY <1>2, <1>3

\* What startRace does to a player's record.
LEMMA OnGridFacts ==
    ASSUME NEW pl \in [Token -> PlayerType], NEW room, Seated(room) \subseteq Token
    PROVE  /\ OnGrid(pl, room) \in [Token -> PlayerType]
           /\ \A u \in Token :
                /\ OnGrid(pl, room)[u].Lobby = pl[u].Lobby
                /\ OnGrid(pl, room)[u].Slot = pl[u].Slot
                /\ OnGrid(pl, room)[u].Spectating = pl[u].Spectating
                /\ OnGrid(pl, room)[u].JoinSeq = pl[u].JoinSeq
                /\ OnGrid(pl, room)[u].Racing => pl[u].Racing \/ u \in Seated(room)
<1>1. ASSUME NEW u \in Token
      PROVE  /\ OnGrid(pl, room)[u] \in PlayerType
             /\ OnGrid(pl, room)[u].Lobby = pl[u].Lobby
             /\ OnGrid(pl, room)[u].Slot = pl[u].Slot
             /\ OnGrid(pl, room)[u].Spectating = pl[u].Spectating
             /\ OnGrid(pl, room)[u].JoinSeq = pl[u].JoinSeq
             /\ OnGrid(pl, room)[u].Racing => pl[u].Racing \/ u \in Seated(room)
    <2>1. GridOf(pl, room, u) \in Nat
        BY CountType DEF GridOf
    <2>2. CASE u \in Seated(room)
        <3> DEFINE p == [pl[u] EXCEPT !.Racing = TRUE, !.Grid = GridOf(pl, room, u),
                                      !.Finished = FALSE, !.FinishMs = 0, !.Kart = NoKart,
                                      !.Progress = 0]
        <3>1. OnGrid(pl, room)[u] = p
            BY <2>2 DEF OnGrid
        <3>2. /\ p \in PlayerType /\ p.Lobby = pl[u].Lobby /\ p.Slot = pl[u].Slot
              /\ p.Spectating = pl[u].Spectating /\ p.JoinSeq = pl[u].JoinSeq
            <4>1. pl[u] \in PlayerType /\ 0 \in Nat /\ NoKart \in RaceIDs \cup {NoKart}
                OBVIOUS
            <4> QED
                BY <2>1, <4>1 DEF PlayerType
        <3> HIDE DEF p
        <3> QED
            BY <2>2, <3>1, <3>2
    <2>3. CASE u \notin Seated(room)
        BY <2>3 DEF OnGrid
    <2> QED
        BY <2>2, <2>3
<1>2. OnGrid(pl, room) = [u \in Token |-> OnGrid(pl, room)[u]]
    BY DEF OnGrid
<1> QED
    BY <1>1, <1>2

\* WISH from the leader: a press opens a race, which everybody seated is then
\* in and which the leader hosts.
LEMMA LeaderWishSound ==
    ASSUME IInv, NEW t \in Token, NEW wish \in WishType, LeaderWish(t, wish)
    PROVE  IInv'
<1> DEFINE l == player[t].Lobby
           room == lobby[l]
           press == IsPress(room, wish.nonce)
           painted == [player EXCEPT ![t].Colour = Repainted(t, wish.colour)]
           picked == [Picked(room, wish) EXCEPT !.Nonce = wish.nonce, !.synced = TRUE]
           started == IF press THEN OnGrid(painted, picked) ELSE painted
           after == IF press THEN RaceStarted(picked) ELSE picked
<1>1. /\ Sound(player, lobby)
      /\ player \in [Token -> PlayerType] /\ lobby \in [Lobbies -> LobbyType]
    BY DEF IInv, Sound, Typed
<1>2. /\ player' = [started EXCEPT ![t].StartNonce = wish.nonce, ![t].nonceSeen = TRUE]
      /\ lobby' = [lobby EXCEPT ![l] = after]
    BY DEF LeaderWish
<1>3. /\ l \in Lobbies /\ ~player[t].Spectating
      /\ room.Leader = player[t].Slot /\ room.Leader # NoSlot
    BY SMTT(30), <1>1 DEF LeaderWish, Leads, InSlot, PlayerType, Sound, Seating
<1>4. /\ painted \in [Token -> PlayerType]
      /\ \A u \in Token :
            /\ painted[u].Lobby = player[u].Lobby /\ painted[u].Slot = player[u].Slot
            /\ painted[u].Spectating = player[u].Spectating
            /\ painted[u].JoinSeq = player[u].JoinSeq
            /\ painted[u].Racing = player[u].Racing
    <2>1. Repainted(t, wish.colour) \in AllColours
        BY <1>1 DEF Repainted, PlayerType, WishType
    <2> DEFINE p == [player[t] EXCEPT !.Colour = Repainted(t, wish.colour)]
    <2>2. /\ p \in PlayerType /\ p.Lobby = player[t].Lobby /\ p.Slot = player[t].Slot
          /\ p.Spectating = player[t].Spectating /\ p.JoinSeq = player[t].JoinSeq
          /\ p.Racing = player[t].Racing
        BY <1>1, <2>1 DEF PlayerType
    <2>3. painted = [player EXCEPT ![t] = p]
        BY <1>1
    <2> HIDE DEF p, painted
    <2> QED
        BY <1>1, <2>2, <2>3
<1>5. /\ picked \in LobbyType /\ picked.Slots = room.Slots /\ picked.Leader = room.Leader
      /\ picked.Watchers = room.Watchers /\ picked.State = room.State
      /\ picked.Host = room.Host /\ picked.RaceID = room.RaceID
    <2>1. room \in LobbyType /\ wish.track \in Tracks /\ wish.items \in BOOLEAN
          /\ wish.nonce \in Nonces
        BY <1>1, <1>3 DEF WishType
    <2> HIDE DEF room
    <2>2. /\ Picked(room, wish) \in LobbyType
          /\ Picked(room, wish).Slots = room.Slots /\ Picked(room, wish).Leader = room.Leader
          /\ Picked(room, wish).Watchers = room.Watchers
          /\ Picked(room, wish).State = room.State
          /\ Picked(room, wish).Host = room.Host /\ Picked(room, wish).RaceID = room.RaceID
        BY <2>1 DEF Picked, LobbyType
    <2> QED
        BY <2>1, <2>2 DEF LobbyType
<1>6. Seated(picked) = Seated(room)
    BY <1>5 DEF Seated
<1>7. /\ Seated(room) \subseteq Token
      /\ \A u \in Token : u \in Seated(room) <=> player[u].Lobby = l /\ ~player[u].Spectating
    BY <1>1, <1>3, SeatedIn
<1> HIDE DEF painted, picked, room, l
<1>8. /\ started \in [Token -> PlayerType]
      /\ \A u \in Token :
            /\ started[u].Lobby = player[u].Lobby /\ started[u].Slot = player[u].Slot
            /\ started[u].Spectating = player[u].Spectating
            /\ started[u].JoinSeq = player[u].JoinSeq
            /\ started[u].Racing => player[u].Racing \/ (press /\ u \in Seated(room))
    BY <1>4, <1>6, <1>7, OnGridFacts
<1> HIDE DEF started
<1>9. /\ player' \in [Token -> PlayerType]
      /\ \A u \in Token :
            /\ player'[u].Lobby = player[u].Lobby /\ player'[u].Slot = player[u].Slot
            /\ player'[u].Spectating = player[u].Spectating
            /\ player'[u].JoinSeq = player[u].JoinSeq
            /\ player'[u].Racing => player[u].Racing \/ (press /\ u \in Seated(room))
    <2> DEFINE p == [started[t] EXCEPT !.StartNonce = wish.nonce, !.nonceSeen = TRUE]
    <2>1. wish.nonce \in Nonces
        BY DEF WishType
    <2>2. /\ p \in PlayerType /\ p.Lobby = started[t].Lobby /\ p.Slot = started[t].Slot
          /\ p.Spectating = started[t].Spectating /\ p.JoinSeq = started[t].JoinSeq
          /\ p.Racing = started[t].Racing
        BY ZenonT(60), <1>8, <2>1 DEF PlayerType
    <2>3. player' = [started EXCEPT ![t] = p]
        BY <1>2, <1>8
    <2> HIDE DEF p
    <2> QED
        BY <1>8, <2>2, <2>3
<1>10. /\ after \in LobbyType /\ after.Slots = room.Slots /\ after.Leader = room.Leader
       /\ after.Watchers = room.Watchers
       /\ press => after.State = "Countdown" /\ after.Host = LeaderToken(picked)
       /\ ~press => after.State = room.State /\ after.Host = room.Host
    <2>1. NextRaceID(picked.RaceID) \in RaceIDs
        BY <1>5, RaceIDAssumption DEF NextRaceID, RaceIDs, LobbyType
    <2>2. LeaderToken(picked) \in Token \cup {Nil}
        BY <1>5 DEF LeaderToken, LobbyType
    <2>3. "Countdown" \in Phases
        BY DEF Phases
    <2> QED
        BY <1>5, <2>1, <2>2, <2>3 DEF RaceStarted, LobbyType
<1>11. Hosted(after)
    <2>1. Hosted(room)
        BY <1>1, <1>3 DEF Sound, room
    <2> QED
        BY <1>3, <1>5, <1>10, <2>1 DEF Hosted, LeaderToken
<1> HIDE DEF after
<1>12. /\ lobby' \in [Lobbies -> LobbyType]
       /\ lobby'[l] = after /\ \A m \in Lobbies \ {l} : lobby'[m] = lobby[m]
    BY <1>1, <1>2, <1>3, <1>10
<1>13. Running(player', lobby')
    <2> SUFFICES ASSUME NEW u \in Token, player'[u].Racing
                 PROVE  /\ player'[u].Lobby # NoLobby /\ ~player'[u].Spectating
                        /\ lobby'[player'[u].Lobby].State # "Waiting"
        BY DEF Running
    <2>1. CASE press /\ u \in Seated(room)
        BY <1>3, <1>7, <1>9, <1>10, <1>12, <2>1 DEF NoLobby, Lobbies
    <2>2. CASE ~(press /\ u \in Seated(room))
        <3>1. /\ player[u].Lobby # NoLobby /\ ~player[u].Spectating
              /\ lobby[player[u].Lobby].State # "Waiting"
            BY <1>1, <1>9, <2>2 DEF Sound, Running
        <3>2. player[u].Lobby \in Lobbies
            BY <1>1, <3>1 DEF PlayerType
        <3>3. player[u].Lobby = l => ~press
            BY <1>7, <2>2, <3>1
        <3> QED
            BY <1>9, <1>10, <1>12, <3>1, <3>2, <3>3 DEF room
    <2> QED
        BY <2>1, <2>2
<1>14. Sound(player', lobby')
    <2>1. ASSUME NEW m \in Lobbies
          PROVE  /\ lobby'[m].Slots = lobby[m].Slots /\ lobby'[m].Watchers = lobby[m].Watchers
                 /\ lobby'[m].Leader = lobby[m].Leader /\ Hosted(lobby'[m])
        <3>1. CASE m = l
            BY <1>10, <1>11, <1>12, <3>1 DEF room
        <3>2. CASE m # l
            BY <1>1, <1>12, <3>2 DEF Sound
        <3> QED
            BY <3>1, <3>2
    <2> QED
        BY <1>1, <1>9, <1>12, <1>13, <2>1, StaySound
<1>15. UNCHANGED <<sessions, joinSeq>>
    BY DEF LeaderWish
<1> QED
    BY <1>9, <1>14, <1>15 DEF IInv

\* What advance does to a player's record and to a room.
LEMMA PlayerAdvancedFacts ==
    ASSUME NEW pl \in [Token -> PlayerType], NEW room, Seated(room) \subseteq Token,
           NEW verdict, NEW u \in Token
    PROVE  /\ PlayerAdvanced(pl, room, verdict, u) \in PlayerType
           /\ PlayerAdvanced(pl, room, verdict, u).Lobby = pl[u].Lobby
           /\ PlayerAdvanced(pl, room, verdict, u).Slot = pl[u].Slot
           /\ PlayerAdvanced(pl, room, verdict, u).Spectating = pl[u].Spectating
           /\ PlayerAdvanced(pl, room, verdict, u).JoinSeq = pl[u].JoinSeq
           /\ PlayerAdvanced(pl, room, verdict, u).Racing =>
                    pl[u].Racing /\ (u \in Seated(room) => verdict # "toWaiting")
<1> DEFINE p == PlayerAdvanced(pl, room, verdict, u)
<1>1. pl[u] \in PlayerType /\ NoKart \in RaceIDs \cup {NoKart}
    OBVIOUS
<1>2. CASE verdict = "finish"
    <2>1. PlaceOf(pl, room, u) \in Nat
        BY CountType DEF PlaceOf, Racers
    <2>2. AwardPoints(pl[u].Points, PlaceOf(pl, room, u)) \in Nat
        <3>1. pl[u].Points \in Nat
            BY <1>1 DEF PlayerType
        <3> QED
            BY <2>1, <3>1, PointsAssumption DEF AwardPoints
    <2> DEFINE q == [pl[u] EXCEPT !.LastPlace = PlaceOf(pl, room, u),
                                  !.Points = AwardPoints(@, PlaceOf(pl, room, u))]
    <2>3. p = IF u \in Racers(pl, room) THEN q ELSE pl[u]
        BY <1>2 DEF PlayerAdvanced, Placed
    <2>4. /\ q \in PlayerType /\ q.Lobby = pl[u].Lobby /\ q.Slot = pl[u].Slot
          /\ q.Spectating = pl[u].Spectating /\ q.JoinSeq = pl[u].JoinSeq
          /\ q.Racing = pl[u].Racing
        BY <1>1, <2>1, <2>2 DEF PlayerType
    <2> HIDE DEF q
    <2> QED
        BY <1>1, <1>2, <2>3, <2>4
<1>3. CASE verdict = "toWaiting"
    <2> DEFINE q == [pl[u] EXCEPT !.Racing = FALSE, !.Finished = FALSE, !.Kart = NoKart]
    <2>1. p = IF u \in Seated(room) THEN q ELSE pl[u]
        BY <1>3 DEF PlayerAdvanced, OffTrack
    <2>2. /\ q \in PlayerType /\ q.Lobby = pl[u].Lobby /\ q.Slot = pl[u].Slot
          /\ q.Spectating = pl[u].Spectating /\ q.JoinSeq = pl[u].JoinSeq
          /\ ~q.Racing
        BY <1>1 DEF PlayerType
    <2> HIDE DEF q
    <2> QED
        BY <1>1, <2>1, <2>2
<1>4. CASE verdict # "finish" /\ verdict # "toWaiting"
    BY <1>1, <1>4 DEF PlayerAdvanced
<1> QED
    BY <1>2, <1>3, <1>4

\* What advance does to a room: it stays the room it was, and a host is kept
\* no longer than the race.
LEMMA LobbyAdvancedFacts ==
    ASSUME NEW pl, NEW l, NEW room \in LobbyType, NEW due, Hosted(room),
           NEW verdict, verdict = Verdict(pl, l, room, due)
    PROVE  /\ LobbyAdvanced(room, verdict) \in LobbyType
           /\ LobbyAdvanced(room, verdict).Slots = room.Slots
           /\ LobbyAdvanced(room, verdict).Watchers = room.Watchers
           /\ LobbyAdvanced(room, verdict).Leader = room.Leader
           /\ LobbyAdvanced(room, verdict).RaceID = room.RaceID
           /\ Hosted(LobbyAdvanced(room, verdict))
           /\ room.State # "Waiting" /\ verdict # "toWaiting" =>
                    LobbyAdvanced(room, verdict).State # "Waiting"
           /\ room.State = "Waiting" => LobbyAdvanced(room, verdict).State = "Waiting"
<1>1. room.State = "Waiting" => verdict = "stay"
    BY DEF Verdict, Live
<1>2. verdict \in {"toWaiting", "green", "finish", "stay"}
    BY DEF Verdict
<1>3. CASE verdict = "green"
    <2>1. LobbyAdvanced(room, verdict) = [room EXCEPT !.State = "Racing"]
        BY <1>3 DEF LobbyAdvanced
    <2> QED
        BY <1>1, <1>3, <2>1 DEF LobbyType, Phases, Hosted
<1>4. CASE verdict = "finish"
    <2>1. LobbyAdvanced(room, verdict) = [room EXCEPT !.State = "Results"]
        BY <1>4 DEF LobbyAdvanced
    <2> QED
        BY <1>1, <1>4, <2>1 DEF LobbyType, Phases, Hosted
<1>5. CASE verdict = "toWaiting"
    <2>1. LobbyAdvanced(room, verdict) = [room EXCEPT !.State = "Waiting", !.Host = Nil]
        BY <1>5 DEF LobbyAdvanced
    <2> QED
        BY <1>1, <1>5, <2>1 DEF LobbyType, Phases, Hosted
<1>6. CASE verdict = "stay"
    BY <1>6 DEF LobbyAdvanced
<1> QED
    BY <1>2, <1>3, <1>4, <1>5, <1>6

\* Tick: the sessions that fell silent leave, then every room advances with
\* the players that are left.
LEMMA TickSound ==
    ASSUME IInv, NEW silent \in SUBSET sessions, NEW due, Tick(silent, due)
    PROVE  IInv'
<1> DEFINE pk == PlayersLeft(player, silent)
           pl == [t \in Token |-> IF t \in silent THEN NewPlayer ELSE player[t]]
           lb == LobbiesLeft(player, lobby, silent)
           verdict == [l \in Lobbies |-> Verdict(pl, l, lb[l], l \in due)]
<1>1. silent \subseteq Token
    BY DEF IInv
<1>2. /\ Sound(pk, lb)
      /\ \A t \in silent : pk[t].Lobby = NoLobby
      /\ \A t \in Token \ silent : pk[t] = player[t]
    BY <1>1, LeaveSound DEF IInv
<1>3. /\ NewPlayer \in PlayerType /\ NewPlayer.Lobby = NoLobby /\ NewPlayer.JoinSeq = 0
    BY ColourAssumption, WishAssumption
    DEF NewPlayer, PlayerType, AllColours, ColourCustom, NoLobby, NoSlot
<1>4. /\ pl \in [Token -> PlayerType]
      /\ \A t \in silent : pl[t] = NewPlayer
      /\ \A t \in Token \ silent : pl[t] = player[t]
    BY <1>1, <1>3 DEF IInv, Sound, Typed
<1>5. player' = [t \in Token |-> IF pl[t].Lobby = NoLobby THEN pl[t]
                                ELSE PlayerAdvanced(pl, lb[pl[t].Lobby], verdict[pl[t].Lobby], t)]
      /\ lobby' = [l \in Lobbies |-> LobbyAdvanced(lb[l], verdict[l])]
      /\ sessions' = sessions \ silent /\ joinSeq' = joinSeq
    BY DEF Tick
<1> HIDE DEF pk, pl, lb
<1>6. Sound(pl, lb)
    <2>1. \A t \in Token : pl[t] = pk[t] \/ (pk[t].Lobby = NoLobby /\ pl[t] = NewPlayer)
        BY <1>2, <1>4
    <2> QED
        BY <1>2, <1>4, <2>1, OutsideSound
<1>7. ASSUME NEW l \in Lobbies
      PROVE  /\ lb[l] \in LobbyType /\ Hosted(lb[l]) /\ Seated(lb[l]) \subseteq Token
             /\ verdict[l] = Verdict(pl, l, lb[l], l \in due)
             /\ \A u \in Token : u \in Seated(lb[l]) <=> pl[u].Lobby = l /\ ~pl[u].Spectating
    BY <1>6, SeatedIn DEF Sound, Typed
<1> HIDE DEF verdict
<1>8. ASSUME NEW l \in Lobbies
      PROVE  /\ lobby'[l] \in LobbyType /\ lobby'[l].Slots = lb[l].Slots
             /\ lobby'[l].Watchers = lb[l].Watchers /\ lobby'[l].Leader = lb[l].Leader
             /\ Hosted(lobby'[l])
             /\ lb[l].State # "Waiting" /\ verdict[l] # "toWaiting" =>
                    lobby'[l].State # "Waiting"
    <2>1. lobby'[l] = LobbyAdvanced(lb[l], verdict[l])
        BY <1>5
    <2> QED
        BY <1>7, <2>1, LobbyAdvancedFacts
<1>9. ASSUME NEW u \in Token
      PROVE  /\ player'[u] \in PlayerType
             /\ player'[u].Lobby = pl[u].Lobby /\ player'[u].Slot = pl[u].Slot
             /\ player'[u].Spectating = pl[u].Spectating
             /\ player'[u].JoinSeq = pl[u].JoinSeq
             /\ player'[u].Racing => /\ pl[u].Racing
                                     /\ pl[u].Lobby \in Lobbies /\ ~pl[u].Spectating =>
                                            verdict[pl[u].Lobby] # "toWaiting"
    <2>1. CASE pl[u].Lobby = NoLobby
        BY <1>4, <1>5, <2>1 DEF NoLobby, Lobbies
    <2>2. CASE pl[u].Lobby # NoLobby
        <3>1. pl[u].Lobby \in Lobbies
            BY <1>4, <2>2 DEF PlayerType
        <3>2. player'[u] = PlayerAdvanced(pl, lb[pl[u].Lobby], verdict[pl[u].Lobby], u)
            BY <1>5, <2>2
        <3> QED
            BY <1>4, <1>7, <3>1, <3>2, PlayerAdvancedFacts
    <2> QED
        BY <2>1, <2>2
<1>10. Running(player', lobby')
    <2> SUFFICES ASSUME NEW u \in Token, player'[u].Racing
                 PROVE  /\ player'[u].Lobby # NoLobby /\ ~player'[u].Spectating
                        /\ lobby'[player'[u].Lobby].State # "Waiting"
        BY DEF Running
    <2>1. /\ pl[u].Lobby # NoLobby /\ ~pl[u].Spectating
          /\ lb[pl[u].Lobby].State # "Waiting"
        BY <1>6, <1>9 DEF Sound, Running
    <2>2. pl[u].Lobby \in Lobbies
        BY <1>4, <2>1 DEF PlayerType
    <2> QED
        BY <1>8, <1>9, <2>1, <2>2
<1>11. player' \in [Token -> PlayerType] /\ lobby' \in [Lobbies -> LobbyType]
    BY <1>5, <1>8, <1>9
<1>12. Sound(player', lobby')
    BY <1>6, <1>8, <1>9, <1>10, <1>11, StaySound
<1>13. \A u \in Token : player'[u].JoinSeq <= joinSeq
    BY <1>3, <1>4, <1>9 DEF IInv
<1>14. \A u \in Token : player'[u].Lobby # NoLobby => u \in sessions \ silent
    BY <1>3, <1>4, <1>9 DEF IInv
<1> QED
    BY <1>5, <1>12, <1>13, <1>14 DEF IInv

-----------------------------------------------------------------------------
(* The theorems.                                                           *)

\* Every packet and every tick keeps the rooms sound.
LEMMA NextSound == IInv /\ [Next]_vars => IInv'
<1> SUFFICES ASSUME IInv, [Next]_vars PROVE IInv'
    OBVIOUS
<1>1. ASSUME NEW t \in Token, Handle(t) PROVE IInv'
    <2>1. CASE Hello(t)
        BY <2>1, HelloSound
    <2>2. ASSUME NEW id \in Lobbies, Join(t, id) PROVE IInv'
        BY <2>2, JoinSound
    <2>3. ASSUME NEW id \in Lobbies, Spectate(t, id) PROVE IInv'
        BY <2>3, SpectateSound
    <2>4. CASE Leave(t)
        BY <2>4, LeaveActionSound
    <2>5. ASSUME NEW wish \in Wishes, FollowerWish(t, wish) PROVE IInv'
        BY <2>5, FollowerWishSound, WishAssumption
    <2>6. ASSUME NEW wish \in Wishes, LeaderWish(t, wish) PROVE IInv'
        BY <2>6, LeaderWishSound, WishAssumption
    <2>7. ASSUME NEW raceID \in RaceIDs, Retire(t, raceID) PROVE IInv'
        BY <2>7, RetireSound
    <2>8. ASSUME NEW raceID \in RaceIDs, NEW finished \in BOOLEAN, NEW ms \in Times,
                 NEW dist \in Dists, Kart(t, raceID, finished, ms, dist)
          PROVE  IInv'
        BY <2>8, KartSound
    <2> QED
        BY <1>1, <2>1, <2>2, <2>3, <2>4, <2>5, <2>6, <2>7, <2>8 DEF Handle
<1>2. ASSUME NEW silent \in SUBSET sessions, NEW due \in SUBSET Timed, Tick(silent, due)
      PROVE  IInv'
    BY <1>2, TickSound
<1>3. CASE UNCHANGED vars
    BY <1>3 DEF vars, IInv, Sound, Typed, Seating, Led, Hosted, Running
<1> QED
    BY <1>1, <1>2, <1>3 DEF Next

\* The invariant holds in every state the server reaches.
THEOREM Invariance == Spec => []IInv
BY InitSound, NextSound, PTL DEF Spec

\* The server's maps and rooms hold values of their types.
THEOREM TypesHold == Spec => []TypeOK
<1>1. IInv => TypeOK
    BY DEF IInv, Sound, Typed, TypeOK
<1> QED
    BY <1>1, Invariance, PTL

\* The rooms and the players' records always agree on who is where, although
\* join, spectate, leave and Tick write the two sides apart.
THEOREM SeatsHold == Spec => []SeatsAgree
<1>1. IInv => SeatsAgree
    BY DEF IInv, Sound, Seating, SeatsAgree
<1> QED
    BY <1>1, Invariance, PTL

\* Nobody is ever flagged as racing outside a room with a race or results on.
THEOREM RacersHold == Spec => []RacersBelong
<1>1. IInv => RacersBelong
    BY DEF IInv, Sound, Running, RacersBelong
<1> QED
    BY <1>1, Invariance, PTL

\* Whoever opened the race leads the room for as long as the server
\* remembers it.
THEOREM HostsLead == Spec => []HostLeads
<1>1. IInv => HostLeads
    BY DEF IInv, Sound, Hosted, HostLeads, LeaderToken
<1> QED
    BY <1>1, Invariance, PTL

\* A room is led exactly while somebody sits in it, by its earliest joiner.
THEOREM LeadersHold == Spec => []LeaderIsEarliest
<1>1. ASSUME IInv PROVE LeaderIsEarliest
    <2> SUFFICES ASSUME NEW l \in Lobbies
                 PROVE  /\ lobby[l].Leader = NoSlot <=> Members(l) = {}
                        /\ lobby[l].Leader # NoSlot =>
                            /\ LeaderToken(lobby[l]) \in Members(l)
                            /\ \A t \in Members(l) \ {LeaderToken(lobby[l])} :
                                 player[LeaderToken(lobby[l])].JoinSeq < player[t].JoinSeq
        BY DEF LeaderIsEarliest
    <2>1. Led(player, lobby[l]) /\ lobby[l] \in LobbyType
        BY <1>1 DEF IInv, Sound, Typed
    <2>2. Members(l) = Seated(lobby[l])
        BY <1>1, SeatedIn DEF IInv, Members, InLobby
    <2>3. \A t \in Members(l) : \E s \in Slots : lobby[l].Slots[s] = t /\ t # Nil
        BY <2>2 DEF Seated
    <2>4. \A s \in Slots : lobby[l].Slots[s] # Nil => lobby[l].Slots[s] \in Members(l)
        BY <2>2 DEF Seated
    <2>5. lobby[l].Leader # NoSlot => lobby[l].Leader \in Slots
        BY <2>1 DEF LobbyType
    <2> QED
        BY <2>1, <2>3, <2>4, <2>5 DEF Led, LeaderToken
<1> QED
    BY <1>1, Invariance, PTL

-----------------------------------------------------------------------------
(* What a step may never do: race ids and finishes.                        *)

\* The room goes on with the race it had, or with none.
KeepsRace(l) ==
    /\ lobby'[l].RaceID = lobby[l].RaceID
    /\ lobby[l].State = "Waiting" => lobby'[l].State = "Waiting"

\* Leaving gives no room a new race, and what join and spectate then write
\* into the room they lead to is no part of its race.
LEMMA LeavingKeepsRace ==
    ASSUME IInv, NEW T \in SUBSET Token, NEW l \in Lobbies
    PROVE  /\ LobbiesLeft(player, lobby, T) \in [Lobbies -> LobbyType]
           /\ LobbiesLeft(player, lobby, T)[l].RaceID = lobby[l].RaceID
           /\ lobby[l].State = "Waiting" => LobbiesLeft(player, lobby, T)[l].State = "Waiting"
BY LeaveSound DEF IInv, Sound, Typed

\* JOIN, plain or with the spectate flag, gives no room a new race.
LEMMA ComingKeepsRace ==
    ASSUME IInv, NEW t \in Token, NEW id \in Lobbies, Join(t, id) \/ Spectate(t, id),
           NEW l \in Lobbies
    PROVE  KeepsRace(l)
<1> DEFINE lb == LobbiesLeft(player, lobby, {t})
<1>1. /\ lb \in [Lobbies -> LobbyType] /\ lb[l].RaceID = lobby[l].RaceID
      /\ lobby[l].State = "Waiting" => lb[l].State = "Waiting"
    BY LeavingKeepsRace
<1> HIDE DEF lb
<1>2. \E room : /\ lobby' = [lb EXCEPT ![id] = room]
                /\ room.RaceID = lb[id].RaceID /\ room.State = lb[id].State
    <2>1. lb[id] \in LobbyType
        BY <1>1
    <2>2. CASE Join(t, id)
        <3> DEFINE slot == FreeSlot(lobby[id])
                   room == [lb[id] EXCEPT !.Slots[slot] = t,
                                          !.Leader = IF @ = NoSlot THEN slot ELSE @,
                                          !.synced = @ /\ lb[id].Leader # NoSlot]
        <3>1. lobby' = [lb EXCEPT ![id] = room]
            BY <2>2 DEF Join, lb
        <3>2. room.RaceID = lb[id].RaceID /\ room.State = lb[id].State
            BY <2>1 DEF LobbyType
        <3> QED
            BY <3>1, <3>2
    <2>3. CASE Spectate(t, id)
        <3> DEFINE room == [lb[id] EXCEPT !.Watchers = @ \cup {t}]
        <3>1. lobby' = [lb EXCEPT ![id] = room]
            BY <1>1, <2>3 DEF Spectate, lb
        <3>2. room.RaceID = lb[id].RaceID /\ room.State = lb[id].State
            BY <2>1 DEF LobbyType
        <3> QED
            BY <3>1, <3>2
    <2> QED
        BY <2>2, <2>3
<1> QED
    BY <1>1, <1>2 DEF KeepsRace

\* A press gives the leader's room the next race id, and a WISH that is no
\* press leaves its race alone.
LEMMA WishMovesOn ==
    ASSUME IInv, NEW t \in Token, NEW wish \in WishType, LeaderWish(t, wish),
           NEW l \in Lobbies
    PROVE  \/ KeepsRace(l)
           \/ /\ lobby[l].State = "Waiting" /\ lobby'[l].State = "Countdown"
              /\ lobby'[l].RaceID = NextRaceID(lobby[l].RaceID)
<1> DEFINE m == player[t].Lobby
           press == IsPress(lobby[m], wish.nonce)
           picked == [Picked(lobby[m], wish) EXCEPT !.Nonce = wish.nonce, !.synced = TRUE]
<1>1. lobby \in [Lobbies -> LobbyType] /\ m \in Lobbies
    BY DEF IInv, Sound, Typed, LeaderWish, Leads, InSlot, PlayerType
<1>2. lobby' = [lobby EXCEPT ![m] = IF press THEN RaceStarted(picked) ELSE picked]
    BY DEF LeaderWish
<1>3. /\ picked.State = lobby[m].State /\ picked.RaceID = lobby[m].RaceID
      /\ RaceStarted(picked).State = "Countdown"
      /\ RaceStarted(picked).RaceID = NextRaceID(lobby[m].RaceID)
    BY <1>1 DEF Picked, RaceStarted, LobbyType
<1>4. press => lobby[m].State = "Waiting"
    BY DEF IsPress
<1> HIDE DEF m, press, picked
<1> QED
    BY <1>1, <1>2, <1>3, <1>4 DEF KeepsRace

\* A tick ends races and starts none.
LEMMA TickKeepsRace ==
    ASSUME IInv, NEW silent \in SUBSET sessions, NEW due, Tick(silent, due),
           NEW l \in Lobbies
    PROVE  KeepsRace(l)
<1> DEFINE pl == [t \in Token |-> IF t \in silent THEN NewPlayer ELSE player[t]]
           lb == LobbiesLeft(player, lobby, silent)
           verdict == [k \in Lobbies |-> Verdict(pl, k, lb[k], k \in due)]
<1>1. silent \in SUBSET Token
    BY DEF IInv
<1>2. /\ lb[l] \in LobbyType /\ lb[l].RaceID = lobby[l].RaceID
      /\ lobby[l].State = "Waiting" => lb[l].State = "Waiting"
    BY <1>1, LeavingKeepsRace
<1>3. Hosted(lb[l])
    BY <1>1, LeaveSound DEF IInv, Sound
<1>4. lobby'[l] = LobbyAdvanced(lb[l], verdict[l])
    BY DEF Tick
<1> HIDE DEF pl, lb
<1>5. verdict[l] = Verdict(pl, l, lb[l], l \in due)
    OBVIOUS
<1> HIDE DEF verdict
<1> QED
    BY <1>2, <1>3, <1>4, <1>5, LobbyAdvancedFacts DEF KeepsRace

\* Every step of the server moves race ids on as RaceIDsMoveOn says.
LEMMA RaceIDStep ==
    ASSUME IInv, [Next]_vars, NEW l \in Lobbies
    PROVE  \/ KeepsRace(l)
           \/ /\ lobby[l].State = "Waiting" /\ lobby'[l].State = "Countdown"
              /\ lobby'[l].RaceID = NextRaceID(lobby[l].RaceID)
<1>1. CASE UNCHANGED lobby
    BY <1>1 DEF KeepsRace
<1>2. ASSUME NEW t \in Token, Leave(t) PROVE KeepsRace(l)
    BY <1>2, LeavingKeepsRace DEF Leave, KeepsRace
<1>3. ASSUME NEW t \in Token, Handle(t)
      PROVE  \/ KeepsRace(l)
             \/ /\ lobby[l].State = "Waiting" /\ lobby'[l].State = "Countdown"
                /\ lobby'[l].RaceID = NextRaceID(lobby[l].RaceID)
    <2>1. \/ UNCHANGED lobby \/ Leave(t)
          \/ \E id \in Lobbies : Join(t, id) \/ Spectate(t, id)
          \/ \E wish \in Wishes : LeaderWish(t, wish)
        <3>1. Hello(t) => UNCHANGED lobby
            BY DEF Hello
        <3>2. \A wish \in Wishes : FollowerWish(t, wish) => UNCHANGED lobby
            BY DEF FollowerWish
        <3>3. \A raceID \in RaceIDs : Retire(t, raceID) => UNCHANGED lobby
            BY DEF Retire
        <3>4. \A raceID \in RaceIDs, finished \in BOOLEAN, ms \in Times, dist \in Dists :
                Kart(t, raceID, finished, ms, dist) => UNCHANGED lobby
            BY DEF Kart
        <3> QED
            BY <1>3, <3>1, <3>2, <3>3, <3>4 DEF Handle
    <2> QED
        BY <1>1, <1>2, <1>3, <2>1, ComingKeepsRace, WishMovesOn, WishAssumption
<1>4. ASSUME NEW silent \in SUBSET sessions, NEW due \in SUBSET Timed, Tick(silent, due)
      PROVE  KeepsRace(l)
    BY <1>4, TickKeepsRace
<1> QED
    BY <1>1, <1>3, <1>4 DEF Next, vars

\* A race gets an id that is not 0 and not the last one of its room, and only
\* a start changes a room's race id: the byte wraps to 1, and a room that
\* empties keeps its count.
THEOREM RaceIDsHold == Spec => RaceIDsMoveOn
<1>1. ASSUME NEW r \in RaceIDs
      PROVE  NextRaceID(r) # r /\ NextRaceID(r) # 0
    BY RaceIDAssumption DEF RaceIDs, NextRaceID
<1>2. ASSUME IInv, [Next]_vars, NEW l \in Lobbies
      PROVE  /\ lobby[l].State = "Waiting" /\ lobby'[l].State # "Waiting" =>
                    lobby'[l].RaceID # lobby[l].RaceID /\ lobby'[l].RaceID # 0
             /\ lobby'[l].RaceID # lobby[l].RaceID =>
                    lobby[l].State = "Waiting" /\ lobby'[l].State = "Countdown"
    <2>1. lobby[l].RaceID \in RaceIDs
        BY <1>2 DEF IInv, Sound, Typed, LobbyType
    <2> QED
        BY <1>1, <1>2, <2>1, RaceIDStep DEF KeepsRace
<1>3. IInv /\ [Next]_vars =>
        [\A l \in Lobbies :
            /\ lobby[l].State = "Waiting" /\ lobby'[l].State # "Waiting" =>
                    lobby'[l].RaceID # lobby[l].RaceID /\ lobby'[l].RaceID # 0
            /\ lobby'[l].RaceID # lobby[l].RaceID =>
                    lobby[l].State = "Waiting" /\ lobby'[l].State = "Countdown"]_vars
    BY <1>2
<1> QED
    BY <1>3, Invariance, PTL DEF Spec, RaceIDsMoveOn

-----------------------------------------------------------------------------
(* Presses of Start.                                                       *)

NonceKept(pl, room) ==
    room.synced /\ room.Leader # NoSlot => room.Nonce = pl[LeaderToken(room)].StartNonce

NoncesKept == \A l \in Lobbies : NonceKept(player, lobby[l])

NInv == IInv /\ NoncesKept

\* A leader sits in the slot its room names, by its own record too.
LEMMA LeaderSits ==
    ASSUME NEW pl, NEW lb, Sound(pl, lb), NEW l \in Lobbies, lb[l].Leader # NoSlot
    PROVE  /\ LeaderToken(lb[l]) \in Token /\ LeaderToken(lb[l]) = lb[l].Slots[lb[l].Leader]
           /\ pl[LeaderToken(lb[l])].Lobby = l /\ ~pl[LeaderToken(lb[l])].Spectating
           /\ pl[LeaderToken(lb[l])].Slot = lb[l].Leader /\ lb[l].Leader \in Slots
<1>1. lb[l].Leader \in Slots
    BY DEF Sound, Typed, LobbyType
<1>2. lb[l].Slots[lb[l].Leader] # Nil
    BY DEF Sound, Led
<1> QED
    BY <1>1, <1>2, SeatedSits DEF LeaderToken

\* What keeps the leader, its nonce and the room's nonce keeps the relation.
LEMMA SameLead ==
    ASSUME NEW pl, NEW pm, NEW room, NEW new, NonceKept(pl, room),
           new.Leader = room.Leader, new.synced => room.synced, new.Nonce = room.Nonce,
           room.Leader # NoSlot =>
                /\ LeaderToken(new) = LeaderToken(room)
                /\ pm[LeaderToken(room)].StartNonce = pl[LeaderToken(room)].StartNonce
    PROVE  NonceKept(pm, new)
BY DEF NonceKept

\* Whoever inherits the lead brings its own nonce along.
LEMMA LeavingKeepsNonce ==
    ASSUME NEW pl, NEW lb, Sound(pl, lb), NEW T \in SUBSET Token, NEW l \in Lobbies,
           NonceKept(pl, lb[l]), NEW pm,
           \A t \in Token \ T : pm[t].StartNonce = pl[t].StartNonce
    PROVE  NonceKept(pm, LobbiesLeft(pl, lb, T)[l])
<1> DEFINE room == lb[l]
           rest == Seated(room) \ T
           heir == Earliest(pl, rest)
           thinned == [room EXCEPT !.Slots = SlotsLeft(room, T), !.Watchers = @ \ T,
                                   !.Host = HostLeft(room, T)]
           out == LobbyLeft(pl, room, T)
<1>1. LobbiesLeft(pl, lb, T)[l] = out
    BY DEF LobbiesLeft
<1>2. room \in LobbyType /\ pl \in [Token -> PlayerType] /\ NoSlot \notin Slots
    BY DEF Sound, Typed, NoSlot, Slots
<1>3. CASE rest = {} /\ Seated(room) # {}
    <2>1. out = Vacated(room, T)
        BY <1>3 DEF LobbyLeft
    <2>2. Vacated(room, T).Leader = NoSlot
        BY DEF Vacated, NewLobby
    <2> QED
        BY <1>1, <2>1, <2>2 DEF NonceKept
<1>4. CASE ~(rest = {} /\ Seated(room) # {}) /\ LeaderToken(room) \in T
    <2>1. out = [thinned EXCEPT !.Leader = pl[heir].Slot, !.Nonce = pl[heir].StartNonce,
                                !.synced = TRUE]
        BY <1>4 DEF LobbyLeft
    <2>2. /\ out.Slots = SlotsLeft(room, T) /\ out.Leader = pl[heir].Slot
          /\ out.Nonce = pl[heir].StartNonce
        BY <1>2, <2>1 DEF LobbyType
    <2>3. room.Leader # NoSlot
        BY <1>4, TokenAssumption DEF LeaderToken
    <2>4. LeaderToken(room) \in Seated(room)
        BY <2>3, <1>2, LeaderSits, TokenAssumption DEF Seated
    <2>5. rest # {} /\ rest \subseteq Token
        BY <1>2, <1>4, <2>4 DEF Seated, LobbyType
    <2>6. \A q \in rest : pl[q].JoinSeq \in Nat
        BY <1>2, <2>5 DEF PlayerType
    <2>7. heir \in rest
        BY <2>5, <2>6, EarliestFound
    <2>8. PICK s \in Slots : room.Slots[s] = heir /\ heir # Nil
        BY <2>7 DEF Seated
    <2>9. pl[heir].Slot = s
        BY <2>8, SeatedSits
    <2>10. SlotsLeft(room, T)[s] = heir
        BY <2>7, <2>8 DEF SlotsLeft
    <2>11. LeaderToken(out) = heir
        BY <1>2, <2>2, <2>9, <2>10 DEF LeaderToken
    <2>12. pm[heir].StartNonce = pl[heir].StartNonce
        BY <2>5, <2>7
    <2> HIDE DEF out, heir
    <2> QED
        BY <1>1, <2>2, <2>11, <2>12 DEF NonceKept
<1>5. CASE ~(rest = {} /\ Seated(room) # {}) /\ LeaderToken(room) \notin T
    <2>1. out = thinned
        BY <1>5 DEF LobbyLeft
    <2>2. /\ out.Slots = SlotsLeft(room, T) /\ out.Leader = room.Leader
          /\ out.Nonce = room.Nonce /\ out.synced = room.synced
        BY <1>2, <2>1 DEF LobbyType
    <2>3. ASSUME room.Leader # NoSlot
          PROVE  /\ LeaderToken(out) = LeaderToken(room)
                 /\ pm[LeaderToken(room)].StartNonce = pl[LeaderToken(room)].StartNonce
        <3>1. /\ LeaderToken(room) \in Token \ T /\ room.Leader \in Slots
              /\ LeaderToken(room) = room.Slots[room.Leader]
            BY <1>5, <2>3, LeaderSits
        <3>2. SlotsLeft(room, T)[room.Leader] = LeaderToken(room)
            BY <3>1 DEF SlotsLeft
        <3>3. LeaderToken(out) = LeaderToken(room)
            BY <2>2, <2>3, <3>2 DEF LeaderToken
        <3> QED
            BY <3>1, <3>3
    <2> HIDE DEF out
    <2> QED
        BY <1>1, <2>2, <2>3, SameLead
<1> QED
    BY <1>3, <1>4, <1>5

\* A step that leaves the rooms alone keeps the nonces, unless it writes the
\* nonce of somebody who leads.
LEMMA RecordKeepsNonces ==
    ASSUME NInv, UNCHANGED lobby,
           \A l \in Lobbies : lobby[l].Leader # NoSlot =>
                player'[LeaderToken(lobby[l])].StartNonce
                    = player[LeaderToken(lobby[l])].StartNonce
    PROVE  NoncesKept'
BY SameLead DEF NInv, NoncesKept, NonceKept

-----------------------------------------------------------------------------
(* One lemma for each kind of step.                                        *)

\* JOIN: the newcomer leads only a room that does not compare nonces yet.
LEMMA JoinKeepsNonces ==
    ASSUME NInv, NEW t \in Token, NEW id \in Lobbies, Join(t, id), NEW l \in Lobbies
    PROVE  NonceKept(player', lobby'[l])
<1> DEFINE slot == FreeSlot(lobby[id])
           pl == PlayersLeft(player, {t})
           lb == LobbiesLeft(player, lobby, {t})
           new == [lb[id] EXCEPT !.Slots[slot] = t,
                                 !.Leader = IF @ = NoSlot THEN slot ELSE @,
                                 !.synced = @ /\ lb[id].Leader # NoSlot]
<1>1. /\ Sound(pl, lb) /\ pl[t].Lobby = NoLobby
      /\ lb[id].Slots = SlotsLeft(lobby[id], {t})
      /\ \A u \in Token \ {t} : pl[u] = player[u]
    BY LeaveSound DEF NInv, IInv
<1>2. \A u \in Token \ {t} : player'[u] = player[u]
    BY SMTT(30), <1>1 DEF Join
<1>3. NonceKept(player', lb[l])
    BY <1>2, LeavingKeepsNonce DEF NInv, NoncesKept, IInv
<1>4. lobby' = [lb EXCEPT ![id] = new] /\ slot # NoSlot
    BY DEF Join
<1>5. lb \in [Lobbies -> LobbyType]
    BY <1>1 DEF Sound, Typed
<1>6. slot \in Slots /\ lb[id].Slots[slot] = Nil
    <2>1. slot \in Slots /\ lobby[id].Slots[slot] = Nil
        BY <1>4, FreeSlotFound
    <2> HIDE DEF slot
    <2> QED
        BY <1>1, <2>1 DEF SlotsLeft
<1> HIDE DEF slot, lb, pl
<1>7. CASE l # id
    BY <1>3, <1>4, <1>5, <1>7
<1>8. CASE l = id /\ lb[id].Leader = NoSlot
    <2>1. ~new.synced
        BY ZenonT(60), <1>5, <1>8 DEF LobbyType
    <2> QED
        BY <1>4, <1>5, <1>8, <2>1 DEF NonceKept
<1>9. CASE l = id /\ lb[id].Leader # NoSlot
    <2>1. /\ new.Leader = lb[id].Leader /\ new.Nonce = lb[id].Nonce
          /\ new.synced => lb[id].synced
          /\ new.Slots = [lb[id].Slots EXCEPT ![slot] = t]
        BY <1>5, <1>9 DEF LobbyType
    <2>2. /\ LeaderToken(lb[id]) \in Token /\ lb[id].Leader \in Slots
          /\ LeaderToken(lb[id]) = lb[id].Slots[lb[id].Leader]
        BY <1>1, <1>9, LeaderSits
    <2>3. lb[id].Leader # slot
        BY <1>6, <2>2, TokenAssumption
    <2>4. lb[id].Slots \in [Slots -> Token \cup {Nil}]
        BY <1>5 DEF LobbyType
    <2>5. new.Slots[lb[id].Leader] = lb[id].Slots[lb[id].Leader]
        BY <2>1, <2>2, <2>3, <2>4
    <2> HIDE DEF new
    <2>6. LeaderToken(new) = LeaderToken(lb[id])
        BY <1>9, <2>1, <2>2, <2>5 DEF LeaderToken
    <2>7. lobby'[l] = new
        BY <1>4, <1>5, <1>9
    <2> QED
        BY <1>3, <1>9, <2>1, <2>6, <2>7, SameLead
<1> QED
    BY <1>7, <1>8, <1>9

\* JOIN with the spectate flag: the audience has no part in it.
LEMMA SpectateKeepsNonces ==
    ASSUME NInv, NEW t \in Token, NEW id \in Lobbies, Spectate(t, id), NEW l \in Lobbies
    PROVE  NonceKept(player', lobby'[l])
<1> DEFINE pl == PlayersLeft(player, {t})
           lb == LobbiesLeft(player, lobby, {t})
           new == [lb[id] EXCEPT !.Watchers = @ \cup {t}]
<1>1. /\ Sound(pl, lb) /\ \A u \in Token \ {t} : pl[u] = player[u]
    BY LeaveSound DEF NInv, IInv
<1>2. \A u \in Token \ {t} : player'[u] = player[u]
    <2>1. DOMAIN pl = Token
        BY DEF PlayersLeft
    <2>2. \A u \in Token \ {t} : player'[u] = pl[u]
        BY <2>1 DEF Spectate
    <2> QED
        BY <1>1, <2>2
<1>3. NonceKept(player', lb[l])
    BY <1>2, LeavingKeepsNonce DEF NInv, NoncesKept, IInv
<1>4. lobby' = [lb EXCEPT ![id] = new]
    BY DEF Spectate
<1>5. lb \in [Lobbies -> LobbyType]
    BY <1>1 DEF Sound, Typed
<1> HIDE DEF lb, pl
<1>6. /\ new.Leader = lb[id].Leader /\ new.Nonce = lb[id].Nonce
      /\ new.synced = lb[id].synced /\ new.Slots = lb[id].Slots
    BY <1>5 DEF LobbyType
<1>7. LeaderToken(new) = LeaderToken(lb[id])
    BY <1>6 DEF LeaderToken
<1>8. lobby'[l] = IF l = id THEN new ELSE lb[l]
    BY <1>4, <1>5
<1> HIDE DEF new
<1> QED
    BY <1>3, <1>6, <1>7, <1>8, SameLead

\* WISH of the leader: room and leader take the same nonce.
LEMMA WishKeepsNonces ==
    ASSUME NInv, NEW t \in Token, NEW wish \in WishType, LeaderWish(t, wish),
           NEW l \in Lobbies
    PROVE  /\ NonceKept(player', lobby'[l])
           /\ player'[t].StartNonce = wish.nonce
           /\ l # player[t].Lobby => lobby'[l] = lobby[l]
           /\ l = player[t].Lobby =>
                /\ LeaderToken(lobby[l]) = t
                /\ lobby'[l].State # lobby[l].State => IsPress(lobby[l], wish.nonce)
<1> DEFINE m == player[t].Lobby
           press == IsPress(lobby[m], wish.nonce)
           painted == [player EXCEPT ![t].Colour = Repainted(t, wish.colour)]
           picked == [Picked(lobby[m], wish) EXCEPT !.Nonce = wish.nonce, !.synced = TRUE]
           new == IF press THEN RaceStarted(picked) ELSE picked
           started == IF press THEN OnGrid(painted, picked) ELSE painted
<1>1. /\ lobby \in [Lobbies -> LobbyType] /\ player \in [Token -> PlayerType]
      /\ m \in Lobbies /\ lobby[m].Leader # NoSlot
    <2>1. lobby \in [Lobbies -> LobbyType] /\ player \in [Token -> PlayerType]
        BY DEF NInv, IInv, Sound, Typed
    <2>2. /\ player[t].Lobby # NoLobby /\ ~player[t].Spectating
          /\ lobby[m].Leader = player[t].Slot
        BY DEF LeaderWish, Leads, InSlot
    <2>3. m \in Lobbies
        BY <2>1, <2>2 DEF PlayerType
    <2>4. player[t].Slot # NoSlot
        BY <2>2 DEF NInv, IInv, Sound, Seating
    <2> QED
        BY <2>1, <2>2, <2>3, <2>4
<1>2. lobby' = [lobby EXCEPT ![m] = new]
    BY DEF LeaderWish
<1>3. player' = [started EXCEPT ![t].StartNonce = wish.nonce, ![t].nonceSeen = TRUE]
    BY DEF LeaderWish
<1>4. /\ picked.Nonce = wish.nonce /\ picked.Leader = lobby[m].Leader
      /\ picked.Slots = lobby[m].Slots /\ picked.State = lobby[m].State
    BY <1>1 DEF Picked, LobbyType
<1>5. /\ new.Nonce = wish.nonce /\ new.Leader = lobby[m].Leader
      /\ new.Slots = lobby[m].Slots
      /\ new.State # lobby[m].State => press
    BY <1>1, <1>4 DEF RaceStarted, LobbyType, Picked
<1>6. LeaderToken(lobby[m]) = t
    <2>1. lobby[m].Leader = player[t].Slot /\ ~player[t].Spectating
        BY DEF LeaderWish, Leads, InSlot
    <2>2. player[t].Slot \in Slots
        BY <1>1, <2>1 DEF PlayerType
    <2>3. lobby[m].Slots[player[t].Slot] = t
        BY <1>1, <2>1, <2>2 DEF NInv, IInv, Sound, Seating
    <2> QED
        BY <1>1, <2>1, <2>3 DEF LeaderToken
<1>7. LeaderToken(new) = t
    BY <1>1, <1>5, <1>6 DEF LeaderToken
<1>8. /\ player'[t].StartNonce = wish.nonce
      /\ \A u \in Token \ {t} : player'[u].StartNonce = player[u].StartNonce
    <2>1. painted \in [Token -> PlayerType]
          /\ \A u \in Token : painted[u].StartNonce = player[u].StartNonce
        <3>1. \A u \in Token \ {t} : painted[u] = player[u]
            BY <1>1
        <3>2. painted[t] = [player[t] EXCEPT !.Colour = Repainted(t, wish.colour)]
            BY <1>1
        <3>3. Repainted(t, wish.colour) \in AllColours
            BY <1>1 DEF Repainted, WishType, PlayerType
        <3>4. painted[t] \in PlayerType /\ painted[t].StartNonce = player[t].StartNonce
            BY <1>1, <3>2, <3>3 DEF PlayerType
        <3>5. painted \in [Token -> PlayerType]
            BY <1>1, <3>1, <3>4
        <3> QED
            BY <1>1, <3>1, <3>4, <3>5
    <2> HIDE DEF painted, picked
    <2>2. \A u \in Token : OnGrid(painted, picked)[u].StartNonce = painted[u].StartNonce
        BY <2>1 DEF OnGrid, PlayerType
    <2>3. /\ \A u \in Token : started[u].StartNonce = player[u].StartNonce
          /\ DOMAIN started = Token
        BY <2>1, <2>2 DEF OnGrid
    <2>4. "StartNonce" \in DOMAIN started[t]
        BY <2>1 DEF OnGrid, PlayerType
    <2> HIDE DEF started
    <2> QED
        BY <1>3, <2>3, <2>4
<1> HIDE DEF m, new, press, started, picked, painted
<1>9. lobby'[m] = new /\ (l # m => lobby'[l] = lobby[l])
    BY <1>1, <1>2
<1>10. NonceKept(player', lobby'[l])
    <2>1. CASE l = m
        BY <1>5, <1>7, <1>8, <1>9, <2>1 DEF NonceKept
    <2>2. CASE l # m
        <3>1. lobby[l].Leader # NoSlot =>
                LeaderToken(lobby[l]) \in Token /\ player[LeaderToken(lobby[l])].Lobby = l
            BY LeaderSits DEF NInv, IInv
        <3>2. lobby[l].Leader # NoSlot => LeaderToken(lobby[l]) # t
            BY <2>2, <3>1 DEF m
        <3>3. NonceKept(player, lobby[l])
            BY DEF NInv, NoncesKept
        <3> QED
            BY <1>8, <1>9, <2>2, <3>1, <3>2, <3>3 DEF NonceKept
    <2> QED
        BY <2>1, <2>2
<1> QED
    BY <1>5, <1>6, <1>8, <1>9, <1>10 DEF m, press

\* The other packets: nobody who leads gets another nonce.
LEMMA RecordsKeepNonces ==
    ASSUME NInv, NEW t \in Token,
           \/ Hello(t)
           \/ \E wish \in Wishes : FollowerWish(t, wish)
           \/ \E raceID \in RaceIDs : Retire(t, raceID)
           \/ \E raceID \in RaceIDs, finished \in BOOLEAN, ms \in Times, dist \in Dists :
                Kart(t, raceID, finished, ms, dist)
    PROVE  UNCHANGED lobby /\ NoncesKept'
<1>1. player \in [Token -> PlayerType]
    BY DEF NInv, IInv, Sound, Typed
<1>2. \A u \in Token \ {t} : player'[u] = player[u]
    BY <1>1 DEF Hello, FollowerWish, Retire, Kart
<1>3. UNCHANGED lobby
    BY DEF Hello, FollowerWish, Retire, Kart
<1>4. ASSUME NEW l \in Lobbies, lobby[l].Leader # NoSlot
      PROVE  player'[LeaderToken(lobby[l])].StartNonce
                = player[LeaderToken(lobby[l])].StartNonce
    <2> DEFINE q == LeaderToken(lobby[l])
    <2>1. /\ q \in Token /\ player[q].Lobby = l /\ ~player[q].Spectating
          /\ player[q].Slot = lobby[l].Leader
        BY <1>4, LeaderSits DEF NInv, IInv
    <2>2. NoLobby \notin Lobbies
        BY DEF NoLobby, Lobbies
    <2>3. q \in sessions /\ Leads(q)
        BY <2>1, <2>2 DEF NInv, IInv, Leads, InSlot
    <2> HIDE DEF q
    <2>4. ASSUME NEW raceID \in RaceIDs, Retire(t, raceID)
          PROVE  player'[t].StartNonce = player[t].StartNonce
        BY <1>1, <2>4 DEF Retire, Retired, PlayerType
    <2>5. ASSUME NEW raceID, NEW finished, NEW ms, NEW dist, Kart(t, raceID, finished, ms, dist)
          PROVE  player'[t].StartNonce = player[t].StartNonce
        <3>1. player[t] \in PlayerType
            BY <1>1
        <3>2. \E prog, fin, at : player'[t] =
                [player[t] EXCEPT !.Kart = raceID, !.Progress = prog, !.Finished = fin,
                                  !.FinishMs = at]
            BY <1>1, <2>5 DEF Kart
        <3> QED
            BY <3>1, <3>2 DEF PlayerType
    <2>6. Hello(t) => q # t
        BY <2>3 DEF Hello
    <2>7. \A wish \in Wishes : FollowerWish(t, wish) => q # t
        BY <2>3 DEF FollowerWish
    <2>8. q = t => player'[t].StartNonce = player[t].StartNonce
        BY <2>4, <2>5, <2>6, <2>7
    <2> QED
        BY <1>2, <2>1, <2>8 DEF q
<1> QED
    BY <1>3, <1>4, RecordKeepsNonces

\* A tick: a successor's nonce counts, and advance writes no nonce.
LEMMA TickKeepsNonces ==
    ASSUME NInv, NEW silent \in SUBSET sessions, NEW due, Tick(silent, due), NEW l \in Lobbies
    PROVE  NonceKept(player', lobby'[l])
<1> DEFINE pl == [t \in Token |-> IF t \in silent THEN NewPlayer ELSE player[t]]
           lb == LobbiesLeft(player, lobby, silent)
           verdict == [k \in Lobbies |-> Verdict(pl, k, lb[k], k \in due)]
<1>1. silent \in SUBSET Token
    BY DEF NInv, IInv
<1>2. lb \in [Lobbies -> LobbyType] /\ pl \in [Token -> PlayerType]
    <2>1. NewPlayer \in PlayerType
        BY WishAssumption, ColourAssumption
           DEF NewPlayer, PlayerType, AllColours, NoLobby, NoSlot, NoKart, ColourCustom
    <2> QED
        BY <1>1, <2>1, LeaveSound DEF NInv, IInv, Sound, Typed
<1>3. \A t \in Token \ silent : pl[t].StartNonce = player[t].StartNonce
    OBVIOUS
<1>4. NonceKept(pl, lb[l])
    <2> HIDE DEF pl
    <2> QED
        BY <1>1, <1>3, LeavingKeepsNonce DEF NInv, NoncesKept, IInv
<1>5. /\ player' = [t \in Token |->
                        IF pl[t].Lobby = NoLobby THEN pl[t]
                        ELSE PlayerAdvanced(pl, lb[pl[t].Lobby], verdict[pl[t].Lobby], t)]
      /\ lobby'[l] = LobbyAdvanced(lb[l], verdict[l])
    BY DEF Tick
<1> HIDE DEF lb, pl, verdict
<1>6. ASSUME NEW room, NEW v, NEW t \in Token
      PROVE  PlayerAdvanced(pl, room, v, t).StartNonce = pl[t].StartNonce
    <2>1. pl[t] \in PlayerType
        BY <1>2
    <2>2. /\ [pl[t] EXCEPT !.LastPlace = PlaceOf(pl, room, t),
                           !.Points = AwardPoints(@, PlaceOf(pl, room, t))].StartNonce
                = pl[t].StartNonce
          /\ [pl[t] EXCEPT !.Racing = FALSE, !.Finished = FALSE, !.Kart = NoKart].StartNonce
                = pl[t].StartNonce
        BY <2>1 DEF PlayerType
    <2>3. Placed(pl, room, t).StartNonce = pl[t].StartNonce
        BY <2>2 DEF Placed
    <2>4. OffTrack(pl, room, t).StartNonce = pl[t].StartNonce
        BY <2>2 DEF OffTrack
    <2> QED
        BY <2>3, <2>4 DEF PlayerAdvanced
<1>7. \A t \in Token : player'[t].StartNonce = pl[t].StartNonce
    BY <1>5, <1>6
<1>8. /\ lobby'[l].Leader = lb[l].Leader /\ lobby'[l].Nonce = lb[l].Nonce
      /\ lobby'[l].synced = lb[l].synced /\ lobby'[l].Slots = lb[l].Slots
    BY <1>2, <1>5 DEF LobbyAdvanced, LobbyType
<1>9. LeaderToken(lobby'[l]) = LeaderToken(lb[l])
    BY <1>8 DEF LeaderToken
<1>10. lb[l].Leader # NoSlot => LeaderToken(lb[l]) \in Token
    <2>1. Sound(PlayersLeft(player, silent), lb)
        BY <1>1, LeaveSound DEF NInv, IInv, lb
    <2> QED
        BY <2>1, LeaderSits
<1> QED
    BY <1>4, <1>7, <1>8, <1>9, <1>10, SameLead

-----------------------------------------------------------------------------
(* The theorem.                                                            *)

\* Every step keeps the nonces, and starts a race only on a new one.
LEMMA StartStep ==
    ASSUME NInv, [Next]_vars
    PROVE  /\ NInv'
           /\ \A l \in Lobbies :
                lobby[l].State = "Waiting" /\ lobby'[l].State = "Countdown" =>
                    player'[LeaderToken(lobby[l])].StartNonce
                        # player[LeaderToken(lobby[l])].StartNonce
<1> DEFINE Starts(l) == lobby[l].State = "Waiting" /\ lobby'[l].State = "Countdown"
           Pressed(l) == player'[LeaderToken(lobby[l])].StartNonce
                            # player[LeaderToken(lobby[l])].StartNonce
<1>1. IInv'
    BY NextSound DEF NInv
<1>2. ASSUME NEW t \in Token, NEW id \in Lobbies, Join(t, id) \/ Spectate(t, id)
      PROVE  NoncesKept' /\ \A l \in Lobbies : ~Starts(l)
    BY <1>2, JoinKeepsNonces, SpectateKeepsNonces, ComingKeepsRace
       DEF NInv, NoncesKept, KeepsRace
<1>3. ASSUME NEW t \in Token, Leave(t)
      PROVE  NoncesKept' /\ \A l \in Lobbies : ~Starts(l)
    <2>1. player' = PlayersLeft(player, {t}) /\ lobby' = LobbiesLeft(player, lobby, {t})
        BY <1>3 DEF Leave
    <2>2. \A u \in Token \ {t} : player'[u].StartNonce = player[u].StartNonce
        BY <2>1 DEF PlayersLeft
    <2>3. \A l \in Lobbies : NonceKept(player', lobby'[l])
        BY <2>1, <2>2, LeavingKeepsNonce DEF NInv, NoncesKept, IInv
    <2>4. \A l \in Lobbies : lobby[l].State = "Waiting" => lobby'[l].State = "Waiting"
        BY <2>1, LeavingKeepsRace DEF NInv
    <2> QED
        BY <2>3, <2>4 DEF NoncesKept
<1>4. ASSUME NEW t \in Token, NEW wish \in Wishes, LeaderWish(t, wish)
      PROVE  NoncesKept' /\ \A l \in Lobbies : Starts(l) => Pressed(l)
    <2>1. wish \in WishType
        BY WishAssumption
    <2>2. NoncesKept'
        BY <1>4, <2>1, WishKeepsNonces DEF NoncesKept
    <2>3. ASSUME NEW l \in Lobbies, Starts(l) PROVE Pressed(l)
        <3>1. /\ l = player[t].Lobby /\ LeaderToken(lobby[l]) = t
              /\ IsPress(lobby[l], wish.nonce) /\ player'[t].StartNonce = wish.nonce
            BY <1>4, <2>1, <2>3, WishKeepsNonces
        <3>2. lobby[l].Leader # NoSlot
            BY <3>1, TokenAssumption DEF LeaderToken
        <3>3. lobby[l].Nonce = player[t].StartNonce
            BY <3>1, <3>2 DEF NInv, NoncesKept, NonceKept, IsPress
        <3> QED
            BY <3>1, <3>3 DEF IsPress
    <2> QED
        BY <2>2, <2>3
<1>5. ASSUME NEW t \in Token, Handle(t)
      PROVE  NoncesKept' /\ \A l \in Lobbies : Starts(l) => Pressed(l)
    <2>1. CASE \/ Hello(t)
               \/ \E wish \in Wishes : FollowerWish(t, wish)
               \/ \E raceID \in RaceIDs : Retire(t, raceID)
               \/ \E raceID \in RaceIDs, finished \in BOOLEAN, ms \in Times, dist \in Dists :
                    Kart(t, raceID, finished, ms, dist)
        BY <2>1, RecordsKeepNonces
    <2>2. CASE \E id \in Lobbies : Join(t, id) \/ Spectate(t, id)
        BY <2>2, <1>2
    <2>3. CASE Leave(t)
        BY <2>3, <1>3
    <2>4. CASE \E wish \in Wishes : LeaderWish(t, wish)
        BY <2>4, <1>4
    <2> QED
        BY <1>5, <2>1, <2>2, <2>3, <2>4 DEF Handle
<1>6. ASSUME NEW silent \in SUBSET sessions, NEW due \in SUBSET Timed, Tick(silent, due)
      PROVE  NoncesKept' /\ \A l \in Lobbies : ~Starts(l)
    BY <1>6, TickKeepsNonces, TickKeepsRace DEF NInv, NoncesKept, KeepsRace
<1>7. CASE UNCHANGED vars
    <2>1. lobby' = lobby /\ player' = player
        BY <1>7 DEF vars
    <2>2. NoncesKept'
        BY <2>1 DEF NInv, NoncesKept, NonceKept, LeaderToken
    <2>3. \A l \in Lobbies : ~Starts(l)
        BY <2>1
    <2> QED
        BY <1>1, <2>2, <2>3 DEF NInv
<1> QED
    BY <1>1, <1>5, <1>6, <1>7 DEF Next, NInv

\* A room as New makes it compares no nonces yet.
LEMMA FirstSound == Init => NInv
<1>1. \A r : ~NewLobby(r).synced
    BY DEF NewLobby
<1>2. ASSUME Init, NEW l \in Lobbies PROVE ~lobby[l].synced
    BY <1>1, <1>2 DEF Init
<1>3. Init => NoncesKept
    BY <1>2 DEF NoncesKept, NonceKept
<1> QED
    BY <1>3, InitSound DEF NInv

\* No race starts on a wish whose nonce the server already had from that
\* console, however it is resent and whoever leads by then.
THEOREM PressesCountOnce == Spec => PressStartsOnce
<1>1. Init => NInv
    BY FirstSound
<1>2. NInv /\ [Next]_vars => NInv'
    BY StartStep
<1>3. NInv /\ [Next]_vars =>
        [\A l \in Lobbies :
            lobby[l].State = "Waiting" /\ lobby'[l].State = "Countdown" =>
                player'[LeaderToken(lobby[l])].StartNonce
                    # player[LeaderToken(lobby[l])].StartNonce]_vars
    BY StartStep
<1> QED
    BY <1>1, <1>2, <1>3, PTL DEF Spec, PressStartsOnce
=============================================================================
