----------------------------- MODULE LobbyProps -----------------------------
(***************************************************************************)
(* What the lobby server's rooms promise, over the state of LobbyServer.   *)
(***************************************************************************)
EXTENDS LobbyServer

\* The variables hold values of their types.
TypeOK ==
    /\ sessions \in SUBSET Token
    /\ player \in [Token -> PlayerType]
    /\ lobby \in [Lobbies -> LobbyType]
    /\ joinSeq \in Nat

InLobby(t, l) == player[t].Lobby = l

\* Who is in a room, by the players' own records.
Members(l) == {t \in Token : InLobby(t, l) /\ ~player[t].Spectating}

-----------------------------------------------------------------------------
(* Safety.                                                                 *)

\* The rooms and the players tell the same story: a slot holds the player
\* whose record names it, a watcher is in one audience and in no slot, and
\* only sessions are anywhere.  join, spectate, leave and the timeouts in
\* Tick each write both sides.
SeatsAgree ==
    /\ \A t \in Token, l \in Lobbies, s \in Slots :
            lobby[l].Slots[s] = t <=>
                (player[t].Lobby = l /\ player[t].Slot = s /\ ~player[t].Spectating)
    /\ \A t \in Token, l \in Lobbies :
            t \in lobby[l].Watchers <=> (player[t].Lobby = l /\ player[t].Spectating)
    /\ \A t \in Token :
            /\ player[t].Lobby # NoLobby => t \in sessions
            /\ player[t].Spectating => player[t].Lobby # NoLobby
            /\ player[t].Slot = NoSlot <=> player[t].Lobby = NoLobby \/ player[t].Spectating

\* A room is led exactly while somebody sits in it, and by whoever of those
\* present joined it first (the succession in leave keeps join order).
LeaderIsEarliest ==
    \A l \in Lobbies :
        /\ lobby[l].Leader = NoSlot <=> Members(l) = {}
        /\ lobby[l].Leader # NoSlot =>
                /\ LeaderToken(lobby[l]) \in Members(l)
                /\ \A t \in Members(l) \ {LeaderToken(lobby[l])} :
                        player[LeaderToken(lobby[l])].JoinSeq < player[t].JoinSeq

\* Two players of a room never wear the same preset colour, however they
\* came by it: from another room, from a wish, or from join's own pick.
ColoursDistinct ==
    \A l \in Lobbies : \A t, u \in Members(l) :
        t # u /\ player[t].Colour = player[u].Colour => player[t].Colour = ColourCustom

\* A player is racing only in a room with a race or its results on.  A race
\* flag left behind would put its kart into the next room's RACE packets.
RacersBelong ==
    \A t \in Token : player[t].Racing =>
        /\ player[t].Lobby # NoLobby /\ ~player[t].Spectating
        /\ lobby[player[t].Lobby].State # "Waiting"

\* Racers of one room stand on different grid slots, the latecomers of a
\* Free Roam session (freeGrid) included.
GridsDistinct ==
    \A l \in Lobbies : \A t, u \in Members(l) :
        t # u /\ player[t].Racing /\ player[u].Racing => player[t].Grid # player[u].Grid

\* While the player who opened a race is remembered it is the room's leader,
\* sitting in it: leave forgets it in the step that hands the lead on.
HostLeads ==
    \A l \in Lobbies : lobby[l].Host # Nil =>
        lobby[l].Host = LeaderToken(lobby[l]) /\ lobby[l].State # "Waiting"

\* A relayed kart was sent for the race that is on, never for an earlier one
\* of this room or of the room its player was in before.
RelayIsCurrent ==
    \A t \in Token : player[t].Racing /\ player[t].Kart # NoKart =>
        player[t].Kart = lobby[player[t].Lobby].RaceID

\* Nobody in a room shares a place with anybody else, whoever left, retired
\* or joined since the places were given.
PlacesDistinct ==
    \A l \in Lobbies : \A t, u \in Members(l) :
        t # u /\ player[t].LastPlace > 0 => player[t].LastPlace # player[u].LastPlace

\* The places of a race follow the finishes: a finisher is placed before all
\* who did not finish and all who took longer, and nothing sent once the
\* results are up changes that.
PlacesMatchFinish ==
    \A l \in Lobbies : lobby[l].State = "Results" =>
        \A t, u \in Racers(player, lobby[l]) :
            player[t].Finished /\ (player[u].Finished => player[t].FinishMs < player[u].FinishMs) =>
                t = u \/ player[t].LastPlace < player[u].LastPlace

-----------------------------------------------------------------------------
(* What a step may never do.                                               *)

\* A race gets an id that is not 0 and not the last one of its room, so that
\* consoles see a new race; and nothing else changes a room's race id, not
\* even the last player leaving.
RaceIDsMoveOn ==
    [][\A l \in Lobbies :
        /\ lobby[l].State = "Waiting" /\ lobby'[l].State # "Waiting" =>
                lobby'[l].RaceID # lobby[l].RaceID /\ lobby'[l].RaceID # 0
        /\ lobby'[l].RaceID # lobby[l].RaceID =>
                lobby[l].State = "Waiting" /\ lobby'[l].State = "Countdown"]_vars

\* A press of Start is judged once: a race starts on a wish whose nonce is
\* not the last one the server had from that console, however often the wish
\* is sent again, in whichever room, and whoever led when it was first heard.
PressStartsOnce ==
    [][\A l \in Lobbies :
        lobby[l].State = "Waiting" /\ lobby'[l].State = "Countdown" =>
            player'[LeaderToken(lobby[l])].StartNonce
                # player[LeaderToken(lobby[l])].StartNonce]_vars

\* On a course the racers are fixed when the countdown starts: nobody gets
\* into a race that is on, whether by joining, wishing or coming back.
NoLateEntry ==
    [][\A l \in Lobbies :
        Live(lobby[l]) /\ ~Roam(lobby[l]) /\ Live(lobby'[l]) =>
            Racers(player', lobby'[l]) \subseteq Racers(player, lobby[l])]_vars

\* Once the host of a Free Roam session has gone, the session is over at the
\* next tick: no step brings the host back to it, not even a return to the
\* room before that tick.
HostStaysGone ==
    [][\A l \in Lobbies :
        Live(lobby[l]) /\ Roam(lobby[l]) /\ HostGone(player, l, lobby[l]) =>
            \/ lobby'[l].State = "Waiting"
            \/ Live(lobby'[l]) /\ HostGone(player', l, lobby'[l])]_vars

\* A finish stands: a racer that has finished keeps the time it was given
\* first until it leaves or the race is over for it, whatever its later kart
\* packets say.
FinishStands ==
    [][\A t \in Token :
        /\ player[t].Racing /\ player[t].Finished
        /\ player'[t].Racing /\ player'[t].Lobby = player[t].Lobby
        => player'[t].Finished /\ player'[t].FinishMs = player[t].FinishMs]_vars

-----------------------------------------------------------------------------
(* Liveness, under FairSpec.                                               *)

\* A race on a course comes to its end and the room waits again, however
\* many racers stop sending, never finish or leave.
RacesEnd ==
    \A l \in Lobbies : (l \in Timed /\ ~Roam(lobby[l])) ~> (lobby[l].State = "Waiting")

\* A Free Roam session whose host has gone goes back to waiting.
SessionsEnd ==
    \A l \in Lobbies :
        (Live(lobby[l]) /\ Roam(lobby[l]) /\ HostGone(player, l, lobby[l])) ~>
            (lobby[l].State = "Waiting")
-----------------------------------------------------------------------------
(* What the comments of the server say, and its steps do not.              *)

\* Power-ups are "the leader's choice; on by default" (server.go): a room
\* that nobody leads has them on.
ItemsOnByDefault ==
    \A l \in Lobbies : lobby[l].Leader = NoSlot => lobby[l].Items
=============================================================================
