----------------------------- MODULE OnlineProps -----------------------------
(***************************************************************************)
(* What a console that plays online may count on, over OnlinePlay.         *)
(***************************************************************************)
EXTENDS OnlinePlay

\* The variables of the consoles and the network hold values of their types.
OnlineTypeOK ==
    /\ console \in [Consoles -> ConsoleType]
    /\ \A c \in Consoles :
        /\ Len(up[c]) <= Capacity /\ \A i \in 1 .. Len(up[c]) : up[c][i] \in UpType
        /\ Len(down[c]) <= Capacity /\ \A i \in 1 .. Len(down[c]) : down[c][i] \in DownType
    /\ outages \in 0 .. MaxOutages

-----------------------------------------------------------------------------
(* Safety.                                                                 *)

\* The server knows the session the console is in.
Known(c) == console[c].token \in sessions

\* The server has a console in lobby id, in the given part.
Has(c, id, watching) ==
    InLobby(console[c].token, id) /\ player[console[c].token].Spectating = watching

\* "A lost packet costs a quarter of a second, never a desync": once nothing
\* is on its way, a console that takes itself to be in a lobby is there for
\* the server too, and in the part it asked for.
RoomsAgree ==
    \A c \in Consoles :
        console[c].state = "Lobby" /\ Known(c) /\ up[c] = <<>> /\ down[c] = <<>> =>
            Has(c, console[c].join_id, console[c].spectating)

\* In its first visit, be it many sessions after it was switched on, a console
\* that the server knows is where it takes itself to be, and in the part it
\* asked for, whatever is lost, sent again, timed out or restarted, whatever is
\* still on its way, and however many sessions have come and gone without a
\* visit.  Nothing tells the packets of one visit from those of another, be it
\* of the same session or of the one before: of a second visit it is not true.
FirstVisitsAgree ==
    \A c \in Consoles :
        console[c].visits = 1 /\ console[c].state = "Lobby" /\ Known(c) =>
            Has(c, console[c].join_id, console[c].spectating)

-----------------------------------------------------------------------------
(* Liveness, under OnlineFair.                                             *)

\* A console that is joining comes to an end of it: it is in, turned away or
\* lost, however many packets are lost on the way.
JoinSettles ==
    \A c \in Consoles : console[c].state = "Joining" ~> console[c].state # "Joining"

\* The leader's press of Start starts a race, unless it loses the lead, or
\* the session, or goes.
PressSettles ==
    \A c \in Consoles, t \in Token :
        (/\ Plays(c) /\ t = console[c].token /\ t \in sessions /\ Leads(t)
         /\ lobby[player[t].Lobby].State = "Waiting"
         /\ IsPress(lobby[player[t].Lobby], console[c].start_nonce)) ~>
            (~Plays(c) \/ t # console[c].token \/ t \notin sessions \/ ~Leads(t)
                \/ lobby[player[t].Lobby].State # "Waiting")

\* A request to retire does not stand for ever.
RetireSettles ==
    \A c \in Consoles :
        (Plays(c) /\ console[c].retire_id # NoRace) ~>
            (~Plays(c) \/ console[c].retire_id = NoRace)

\* The room a console shows is not the one the server has its session in, or
\* is shown from another side.
Astray(c) ==
    /\ console[c].state = "Lobby" /\ Known(c)
    /\ ~Has(c, console[c].shown.id, console[c].shown.watching)

\* A desync does not last: a console that a LOBBY packet of an earlier visit
\* has led into a room is told of the room it is in, or, where it is in none,
\* hears nothing and gives up: a server that has it in no room must not answer
\* what keeps its session alive.
DesyncEnds == \A c \in Consoles : Astray(c) ~> ~Astray(c)

-----------------------------------------------------------------------------
(* What the protocol's description says, and its steps do not.             *)

\* "A lost packet costs a quarter of a second, never a desync": a console
\* that has left a lobby does not keep its seat there for good.
SeatIsGivenUp ==
    \A c \in Consoles :
        (console[c].state = "Browse" /\ player[console[c].token].Lobby # NoLobby) ~>
            (console[c].state # "Browse" \/ player[console[c].token].Lobby = NoLobby)

\* "A console's first wish after joining is never taken as a press": who
\* has not pressed Start in its session starts no race.
RacesArePressed ==
    [][\A c \in Consoles, l \in Lobbies :
        lobby[l].State = "Waiting" /\ lobby'[l].State = "Countdown"
        /\ LeaderToken(lobby[l]) = console[c].token =>
            console[c].pressed]_onlineVars
=============================================================================
