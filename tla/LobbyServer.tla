---------------------------- MODULE LobbyServer ----------------------------
(***************************************************************************)
(* The DreamKarts online lobby server: server/lobby/server.go.             *)
(*                                                                         *)
(* One goroutine owns the Server value and calls Handle, Relay and Tick,   *)
(* so each packet handler is one step, and so is a whole Tick.  What is    *)
(* concurrent is the consoles: the steps below come in any order, from any *)
(* session, with any arguments a packet can carry.                         *)
(*                                                                         *)
(* Time is abstracted.  The server compares `now' with deadlines; here a   *)
(* Tick is given the set of sessions whose silence has outlasted their     *)
(* timeout and the set of lobbies whose current deadline has passed, and   *)
(* both are arbitrary.                                                     *)
(*                                                                         *)
(* The words of a packet that no decision depends on (name, address, laps, *)
(* cc, palette picks, kart bytes) are left out, as are the demo lobby      *)
(* (a flag of cmd/dreamkarts-lobby turns it off) and the chat relay.       *)
(***************************************************************************)
EXTENDS Integers, FiniteSets

CONSTANTS
    Token,          \* session tokens, one per console
    Nil,            \* Go's nil, where a pointer to a Player may be
    MaxLobbies,     \* rooms (10)
    MaxPlayers,     \* slots of a room (6)
    MaxSessions,    \* sessions the server holds (300)
    Colours,        \* preset colours, numbered from 0 (8)
    Tracks,         \* tracks the leader may pick
    RoamTrack,      \* the Night Meet lot: a start there opens Free Roam (9)
    MaxRaceID,      \* race ids are bytes (255)
    FirstRaceIDs,   \* the ids New may draw for its lobbies (any byte)
    Nonces,         \* start nonces (bytes)
    Wishes,         \* the WISH bodies consoles send: see WishType
    PlacePoints,    \* points by place, from place 1
    PointsMod,      \* points are kept modulo this (2^16)
    Times,          \* finish times a kart packet may carry, in ms
    Dists,          \* laps and lap distance a kart packet may carry
    MaxJoinSeq      \* bound on the joins of a run: the code's counter has 64 bits

Lobbies == 0 .. MaxLobbies - 1
Slots == 0 .. MaxPlayers - 1
NoLobby == -1
NoSlot == -1
NoKart == -1
ColourCustom == Colours
AllColours == 0 .. ColourCustom
RaceIDs == 0 .. MaxRaceID
WishType == [colour : AllColours, track : Tracks, items : BOOLEAN, nonce : Nonces]
Phases == {"Waiting", "Countdown", "Racing", "Results"}

ASSUME TokenAssumption == IsFiniteSet(Token) /\ Nil \notin Token
ASSUME SizeAssumption ==
    /\ MaxLobbies \in Nat \ {0}
    /\ MaxPlayers \in Nat \ {0}
    /\ MaxSessions \in Nat
    /\ MaxJoinSeq \in Nat
ASSUME ColourAssumption == Colours \in Nat /\ Colours >= MaxPlayers
ASSUME TrackAssumption == 0 \in Tracks
ASSUME RaceIDAssumption ==
    /\ MaxRaceID \in Nat /\ MaxRaceID >= 2
    /\ FirstRaceIDs \subseteq RaceIDs
ASSUME WishAssumption == 0 \in Nonces /\ Wishes \subseteq WishType
ASSUME PointsAssumption ==
    /\ PointsMod \in Nat \ {0}
    /\ PlacePoints \in [1 .. MaxPlayers -> Nat]
ASSUME KartAssumption == Times \subseteq Nat /\ Dists \subseteq Nat

VARIABLES
    sessions,   \* the tokens with a session: the keys of Server.players
    player,     \* Token -> Player; NewPlayer for a token without a session
    lobby,      \* Lobbies -> Lobby
    joinSeq     \* Server.joinSeq, the joins so far

vars == <<sessions, player, lobby, joinSeq>>

PlayerType ==
    [Lobby : Lobbies \cup {NoLobby}, Slot : Slots \cup {NoSlot},
     JoinSeq : Nat, Spectating : BOOLEAN, Colour : AllColours,
     Points : Nat, LastPlace : Nat, StartNonce : Nonces, nonceSeen : BOOLEAN,
     Racing : BOOLEAN, Grid : Nat, Kart : RaceIDs \cup {NoKart},
     Finished : BOOLEAN, FinishMs : Nat, Progress : Nat]

LobbyType ==
    [Slots : [Slots -> Token \cup {Nil}], Watchers : SUBSET Token,
     Leader : Slots \cup {NoSlot}, Track : Tracks, Items : BOOLEAN,
     State : Phases, RaceID : RaceIDs, Host : Token \cup {Nil},
     Nonce : Nonces, synced : BOOLEAN]

\* A session as hello makes it.  Kart stands for the kart bytes the server
\* relays: the id of the race they were sent for, or NoKart while the code's
\* HasKart is false.
NewPlayer ==
    [Lobby |-> NoLobby, Slot |-> NoSlot, JoinSeq |-> 0, Spectating |-> FALSE,
     Colour |-> 0, Points |-> 0, LastPlace |-> 0, StartNonce |-> 0,
     nonceSeen |-> FALSE, Racing |-> FALSE, Grid |-> 0, Kart |-> NoKart,
     Finished |-> FALSE, FinishMs |-> 0, Progress |-> 0]

\* A lobby as New makes it.
NewLobby(raceID) ==
    [Slots |-> [s \in Slots |-> Nil], Watchers |-> {}, Leader |-> NoSlot,
     Track |-> 0, Items |-> TRUE, State |-> "Waiting", RaceID |-> raceID,
     Host |-> Nil, Nonce |-> 0, synced |-> FALSE]

Init ==
    /\ sessions = {}
    /\ player = [t \in Token |-> NewPlayer]
    /\ lobby \in [Lobbies -> {NewLobby(r) : r \in FirstRaceIDs}]
    /\ joinSeq = 0

-----------------------------------------------------------------------------
(* What a lobby holds.  These take the players and one room explicitly:    *)
(* a handler that calls several of the server's methods applies them in    *)
(* turn to intermediate values of the two.                                 *)

Seated(room) == {room.Slots[s] : s \in Slots} \ {Nil}

Racers(pl, room) == {q \in Seated(room) : pl[q].Racing}

Roam(room) == room.Track = RoamTrack

Live(room) == room.State \in {"Countdown", "Racing"}

LeaderToken(room) == IF room.Leader = NoSlot THEN Nil ELSE room.Slots[room.Leader]

\* The player who started the race has retired from it or left the lobby.
HostGone(pl, l, room) ==
    \/ room.Host = Nil
    \/ pl[room.Host].Lobby # l
    \/ ~pl[room.Host].Racing

\* A preset colour is one player's; the custom one is anybody's.
ColourFree(pl, room, c, t) ==
    c = ColourCustom \/ \A q \in Seated(room) \ {t} : pl[q].Colour # c

\* The lowest of a set of numbers, or the fallback the code's loop ends with.
LowestOr(S, fallback) ==
    IF S = {} THEN fallback ELSE CHOOSE n \in S : \A m \in S : n <= m

FreeSlot(room) == LowestOr({s \in Slots : room.Slots[s] = Nil}, NoSlot)

NextGrid(pl, room) == Cardinality(Racers(pl, room))  \* mutant: counts, finds no gap

FreeGrid(pl, room) ==
    LowestOr(Slots \ {pl[q].Grid : q \in Racers(pl, room)}, 0)

OwnColour(pl, room, t) == pl[t].Colour  \* mutant: does not look at the room

JoinColour(pl, room, t) ==
    IF ColourFree(pl, room, pl[t].Colour, t)
    THEN pl[t].Colour
    ELSE LowestOr({c \in 0 .. Colours - 1 : ColourFree(pl, room, c, t)}, pl[t].Colour)

\* p, put on the lot of a Free Roam session in progress (enterRoam).
OnLot(p, grid) ==
    [p EXCEPT !.Racing = TRUE, !.Grid = grid, !.Finished = FALSE, !.FinishMs = 0,
              !.Kart = NoKart, !.Progress = 0, !.LastPlace = 0]

-----------------------------------------------------------------------------
(* leave, for every player of T at once: a Tick drops several sessions,    *)
(* and what is left does not depend on the order it drops them in.         *)

\* mutants: one flag of the player outlives its visit
LeftWatching(p) == [p EXCEPT !.Lobby = NoLobby, !.Slot = NoSlot, !.Racing = FALSE]
LeftRacing(p) == [p EXCEPT !.Lobby = NoLobby, !.Slot = NoSlot, !.Spectating = FALSE]

\* One player's record once it has left; a player in no lobby is unchanged.
Left(p) ==
    IF p.Lobby = NoLobby THEN p
    ELSE [p EXCEPT !.Lobby = NoLobby, !.Slot = NoSlot, !.Spectating = FALSE,
                   !.Racing = @ /\ p.Spectating]

PlayersLeft(pl, T) == [t \in Token |-> IF t \in T THEN Left(pl[t]) ELSE pl[t]]

LowestSeated(pl, S) == CHOOSE q \in S : \A r \in S : pl[q].Slot <= pl[r].Slot  \* mutant

\* The earliest joiner of a set of players.
Earliest(pl, S) == CHOOSE q \in S : \A r \in S : pl[q].JoinSeq <= pl[r].JoinSeq

HostKept(room, T) == room.Host  \* mutant: the host may come back as the host

HostLeft(room, T) == IF room.Host \in T THEN Nil ELSE room.Host

SlotsLeft(room, T) == [s \in Slots |-> IF room.Slots[s] \in T THEN Nil ELSE room.Slots[s]]

\* mutant: the race ids start again
VacatedAnew(room, T) == [NewLobby(0) EXCEPT !.Watchers = room.Watchers \ T]

\* The room its last player leaves is made anew, but for its track, race id
\* and audience; the new literal leaves the power-ups switch out.
Vacated(room, T) ==
    [NewLobby(room.RaceID) EXCEPT !.Track = room.Track, !.Items = FALSE,
                                  !.Watchers = room.Watchers \ T]

LobbyLeft(pl, room, T) ==
    LET rest == Seated(room) \ T
        heir == Earliest(pl, rest)
        thinned == [room EXCEPT !.Slots = SlotsLeft(room, T), !.Watchers = @ \ T,
                                !.Host = HostLeft(room, T)]
    IN  IF rest = {} /\ Seated(room) # {} THEN Vacated(room, T)
        ELSE IF LeaderToken(room) \in T
        THEN [thinned EXCEPT !.Leader = pl[heir].Slot, !.Nonce = pl[heir].StartNonce,
                             !.synced = TRUE]
        ELSE thinned

LobbiesLeft(pl, lb, T) == [l \in Lobbies |-> LobbyLeft(pl, lb[l], T)]

-----------------------------------------------------------------------------
(* startRace, finishRace, toWaiting and advance.                           *)

RaceIDAfter(r) == r + 1  \* mutant: a byte in the code, and not one here

NextRaceID(r) == IF r = MaxRaceID THEN 1 ELSE r + 1

\* Most points at the back, then join order.
GridBefore(pl, a, b) ==
    \/ pl[a].Points < pl[b].Points
    \/ pl[a].Points = pl[b].Points /\ pl[a].JoinSeq < pl[b].JoinSeq

GridOf(pl, room, t) == Cardinality({q \in Seated(room) : GridBefore(pl, q, t)})

OnGrid(pl, room) ==
    [t \in Token |->
        IF t \in Seated(room)
        THEN [pl[t] EXCEPT !.Racing = TRUE, !.Grid = GridOf(pl, room, t),
                           !.Finished = FALSE, !.FinishMs = 0, !.Kart = NoKart,
                           !.Progress = 0]
        ELSE pl[t]]

RaceStarted(room) ==
    [room EXCEPT !.RaceID = NextRaceID(@), !.State = "Countdown", !.Host = LeaderToken(room)]

\* Finishers by time, then the rest by distance; ties stay in slot order.
PlaceBefore(pl, a, b) ==
    IF pl[a].Finished # pl[b].Finished THEN pl[a].Finished
    ELSE IF pl[a].Finished
    THEN \/ pl[a].FinishMs < pl[b].FinishMs
         \/ pl[a].FinishMs = pl[b].FinishMs /\ pl[a].Slot < pl[b].Slot
    ELSE \/ pl[a].Progress > pl[b].Progress
         \/ pl[a].Progress = pl[b].Progress /\ pl[a].Slot < pl[b].Slot

PlaceOf(pl, room, t) ==
    1 + Cardinality({q \in Racers(pl, room) : PlaceBefore(pl, q, t)})

AwardPoints(points, place) ==
    IF place \in DOMAIN PlacePoints THEN (points + PlacePoints[place]) % PointsMod ELSE points

Placed(pl, room, t) ==
    IF t \in Racers(pl, room)
    THEN [pl[t] EXCEPT !.LastPlace = PlaceOf(pl, room, t),
                       !.Points = AwardPoints(@, PlaceOf(pl, room, t))]
    ELSE pl[t]

OffTrack(pl, room, t) ==
    IF t \in Seated(room)
    THEN [pl[t] EXCEPT !.Racing = FALSE, !.Finished = FALSE, !.Kart = NoKart]
    ELSE pl[t]

Deserted(pl, l, room) == Racers(pl, room) = {}  \* mutant of Ended

\* A race or session that nobody is in, or a Free Roam session without its
\* host, ends at once and with no results.
Ended(pl, l, room) ==
    \/ Racers(pl, room) = {}
    \/ Roam(room) /\ HostGone(pl, l, room)

AllDone(pl, room, due) == \A q \in Racers(pl, room) : pl[q].Finished  \* mutant of RaceOver

RaceOver(pl, room, due) == due \/ \A q \in Racers(pl, room) : pl[q].Finished

\* What advance decides for lobby l; due says that the deadline its state
\* waits on has passed: the green light, FinishGrace after the first
\* finisher or MaxRaceLen, or the end of the results.
Verdict(pl, l, room, due) ==
    CASE Live(room) /\ Ended(pl, l, room) -> "toWaiting"
      [] room.State = "Countdown" /\ ~Ended(pl, l, room) /\ due -> "green"
      [] room.State = "Racing" /\ ~Ended(pl, l, room) /\ ~Roam(room)
            /\ RaceOver(pl, room, due) -> "finish"
      [] room.State = "Results" /\ due -> "toWaiting"
      [] OTHER -> "stay"

LobbyAdvanced(room, verdict) ==
    CASE verdict = "green" -> [room EXCEPT !.State = "Racing"]
      [] verdict = "finish" -> [room EXCEPT !.State = "Results"]
      [] verdict = "toWaiting" -> [room EXCEPT !.State = "Waiting", !.Host = Nil]
      [] OTHER -> room

PlayerAdvanced(pl, room, verdict, t) ==
    CASE verdict = "finish" -> Placed(pl, room, t)
      [] verdict = "toWaiting" -> OffTrack(pl, room, t)
      [] OTHER -> pl[t]

-----------------------------------------------------------------------------
(* The packet handlers.  A packet that its handler ignores, or answers     *)
(* without changing anything, is a stuttering step and has no action.      *)

\* HELLO from a new token.  (From a known one it only renews the welcome.)
Hello(t) ==
    /\ t \notin sessions
    /\ Cardinality(sessions) < MaxSessions
    /\ sessions' = sessions \cup {t}
    /\ player' = [player EXCEPT ![t] = NewPlayer]
    /\ UNCHANGED <<lobby, joinSeq>>

RaceOn(room) == Live(room)  \* mutant of TakesLatecomers: any race takes them

TakesLatecomers(room) == Roam(room) /\ Live(room)

\* JOIN lobby id.  A player already seated there just gets the state again;
\* a full lobby turns it away before it gives up what it has elsewhere.
Join(t, id) ==
    LET slot == FreeSlot(lobby[id])
        pl == PlayersLeft(player, {t})
        lb == LobbiesLeft(player, lobby, {t})
        room == lb[id]
        seated == [pl[t] EXCEPT !.Lobby = id, !.Slot = slot, !.JoinSeq = joinSeq + 1,
                                !.Points = 0, !.LastPlace = 0, !.Racing = FALSE,
                                !.Finished = FALSE, !.Kart = NoKart,
                                !.Colour = JoinColour(pl, room, t)]
    IN  /\ t \in sessions
        /\ player[t].Lobby = id => player[t].Spectating
        /\ slot # NoSlot
        /\ joinSeq < MaxJoinSeq
        /\ joinSeq' = joinSeq + 1
        /\ player' = [pl EXCEPT ![t] =
                        IF TakesLatecomers(room)
                        THEN OnLot(seated, FreeGrid(pl, room))
                        ELSE seated]
        /\ lobby' = [lb EXCEPT ![id] =
                        [room EXCEPT !.Slots[slot] = t,
                                     !.Leader = IF @ = NoSlot THEN slot ELSE @,
                                     !.synced = @ /\ room.Leader # NoSlot]]
        /\ UNCHANGED sessions

\* JOIN with the spectate flag.
Spectate(t, id) ==
    /\ t \in sessions
    /\ player[t].Lobby = id => ~player[t].Spectating
    /\ player' = [PlayersLeft(player, {t}) EXCEPT
                    ![t].Lobby = id, ![t].Slot = NoSlot, ![t].Spectating = TRUE,
                    ![t].Racing = FALSE, ![t].Finished = FALSE, ![t].Kart = NoKart]
    /\ lobby' = [LobbiesLeft(player, lobby, {t}) EXCEPT ![id].Watchers = @ \cup {t}]
    /\ UNCHANGED <<sessions, joinSeq>>

\* LEAVE.
Leave(t) ==
    /\ t \in sessions
    /\ player[t].Lobby # NoLobby
    /\ player' = PlayersLeft(player, {t})
    /\ lobby' = LobbiesLeft(player, lobby, {t})
    /\ UNCHANGED <<sessions, joinSeq>>

\* Every WISH of a seated player may change its colour while its room waits.
Repainted(t, colour) ==
    LET room == lobby[player[t].Lobby]
    IN  IF room.State = "Waiting" /\ ColourFree(player, room, colour, t)
        THEN colour ELSE player[t].Colour

InSlot(t) == t \in sessions /\ player[t].Lobby # NoLobby /\ ~player[t].Spectating

Leads(t) == InSlot(t) /\ lobby[player[t].Lobby].Leader = player[t].Slot

\* WISH from a player who does not lead: its colour, and a start nonce that
\* puts it back on the lot of a Free Roam session it is not on.
FollowerWish(t, wish) ==
    LET room == lobby[player[t].Lobby]
        painted == [player[t] EXCEPT !.Colour = Repainted(t, wish.colour)]
        backOn == /\ player[t].nonceSeen
                  /\ wish.nonce # player[t].StartNonce
                  /\ ~player[t].Racing
                  /\ TakesLatecomers(room)
        moved == IF backOn THEN OnLot(painted, FreeGrid(player, room)) ELSE painted
    IN  /\ InSlot(t) /\ ~Leads(t)
        /\ player' = [player EXCEPT ![t] =
                        [moved EXCEPT !.StartNonce = wish.nonce, !.nonceSeen = TRUE]]
        /\ UNCHANGED <<sessions, lobby, joinSeq>>

\* The room with the leader's picks, which count only while it waits.
Picked(room, wish) ==
    IF room.State = "Waiting"
    THEN [room EXCEPT !.Track = wish.track, !.Items = wish.items]
    ELSE room

IsNewNonce(room, nonce) == room.State = "Waiting" /\ nonce # room.Nonce  \* mutant

\* A leader's nonce that is not the lobby's current one is a press of Start.
\* The first nonce from a leader with a fresh seat only sets the current one.
IsPress(room, nonce) == room.State = "Waiting" /\ room.synced /\ nonce # room.Nonce

\* WISH from the leader.
LeaderWish(t, wish) ==
    LET l == player[t].Lobby
        room == lobby[l]
        press == IsPress(room, wish.nonce)
        painted == [player EXCEPT ![t].Colour = Repainted(t, wish.colour)]
        picked == [Picked(room, wish) EXCEPT !.Nonce = wish.nonce, !.synced = TRUE]
        started == IF press THEN OnGrid(painted, picked) ELSE painted
    IN  /\ Leads(t)
        /\ player' = [started EXCEPT ![t].StartNonce = wish.nonce, ![t].nonceSeen = TRUE]
        /\ lobby' = [lobby EXCEPT ![l] = IF press THEN RaceStarted(picked) ELSE picked]
        /\ UNCHANGED <<sessions, joinSeq>>

Racing(t) == InSlot(t) /\ player[t].Racing

\* mutant of Retired: a place from an earlier race stays
OffTheRoad(p) == [p EXCEPT !.Racing = FALSE, !.Finished = FALSE, !.Kart = NoKart]

Retired(p) ==
    [p EXCEPT !.Racing = FALSE, !.Finished = FALSE, !.Kart = NoKart, !.LastPlace = 0]

\* RETIRE from race raceID, which must be the one that is on.
Retire(t, raceID) ==
    LET room == lobby[player[t].Lobby]
    IN  /\ Racing(t)
        /\ raceID = room.RaceID
        /\ Live(room)
        /\ player' = [player EXCEPT ![t] = Retired(@)]
        /\ UNCHANGED <<sessions, lobby, joinSeq>>

KartTaken(room, raceID) == room.State # "Waiting"  \* mutant: any race's kart

KartCounts(room, raceID) == raceID = room.RaceID /\ room.State # "Waiting"

\* mutants of Finishes: a finish is taken again; one is taken after the race
FinishesAgain(p, room) == room.State = "Racing" /\ ~Roam(room)
FinishesLate(p, room) == ~p.Finished /\ ~Roam(room)

Finishes(p, room) == ~p.Finished /\ room.State = "Racing" /\ ~Roam(room)

\* KART for race raceID: where the kart is, and once it has finished, when.
Kart(t, raceID, finished, ms, dist) ==
    LET room == lobby[player[t].Lobby]
        p == player[t]
        finishes == finished /\ Finishes(p, room)
    IN  /\ Racing(t)
        /\ KartCounts(room, raceID)
        /\ player' = [player EXCEPT ![t] =
                        [p EXCEPT !.Kart = raceID,
                                  !.Progress = IF p.Finished THEN @ ELSE dist,
                                  !.Finished = @ \/ finishes,
                                  !.FinishMs = IF finishes THEN ms ELSE @]]
        /\ UNCHANGED <<sessions, lobby, joinSeq>>

-----------------------------------------------------------------------------
(* Tick: the sessions of `silent' are dropped, then every lobby advances.  *)

Tick(silent, due) ==
    LET pl == [t \in Token |-> IF t \in silent THEN NewPlayer ELSE player[t]]
        lb == LobbiesLeft(player, lobby, silent)
        verdict == [l \in Lobbies |-> Verdict(pl, l, lb[l], l \in due)]
    IN  /\ sessions' = sessions \ silent
        /\ player' = [t \in Token |->
                        IF pl[t].Lobby = NoLobby THEN pl[t]
                        ELSE PlayerAdvanced(pl, lb[pl[t].Lobby], verdict[pl[t].Lobby], t)]
        /\ lobby' = [l \in Lobbies |-> LobbyAdvanced(lb[l], verdict[l])]
        /\ UNCHANGED joinSeq

\* The lobbies whose state waits on a deadline.
Timed == {l \in Lobbies : lobby[l].State # "Waiting"}

Handle(t) ==
    \/ Hello(t)
    \/ \E id \in Lobbies : Join(t, id) \/ Spectate(t, id)
    \/ Leave(t)
    \/ \E wish \in Wishes : FollowerWish(t, wish) \/ LeaderWish(t, wish)
    \/ \E raceID \in RaceIDs : Retire(t, raceID)
    \/ \E raceID \in RaceIDs, finished \in BOOLEAN, ms \in Times, dist \in Dists :
            Kart(t, raceID, finished, ms, dist)

Next ==
    \/ \E t \in Token : Handle(t)
    \/ \E silent \in SUBSET sessions, due \in SUBSET Timed : Tick(silent, due)

Spec == Init /\ [][Next]_vars

\* Tick runs every 20 ms and a deadline that has passed stays passed, so a
\* lobby that goes on waiting on one meets a tick that finds it passed; and
\* one that drops nobody, as sessions time out once each.
Due(l) == \E due \in SUBSET Timed : l \in due /\ Tick({}, due)

FairSpec == Spec /\ \A l \in Lobbies : WF_vars(Due(l))
=============================================================================
