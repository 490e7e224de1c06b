----------------------------- MODULE LobbyRooms -----------------------------
(***************************************************************************)
(* The lobby server implements Rooms: what its slots, records and flags    *)
(* stand for, and the abstract specification over that.                    *)
(***************************************************************************)
EXTENDS LobbyProps

\* Who is in room l, by the players' records, and who of them joined first.
Present(pl, l) == {t \in Token : pl[t].Lobby = l /\ ~pl[t].Spectating}

JoinOrder(pl, l) ==
    {p \in Present(pl, l) \X Present(pl, l) : pl[p[1]].JoinSeq < pl[p[2]].JoinSeq}

RaceOf(pl, room, l) ==
    [phase |-> room.State,
     lot |-> Live(room) /\ Roam(room),
     racers |-> {t \in Present(pl, l) : pl[t].Racing},
     host |-> IF HostGone(pl, l, room) THEN Nil ELSE room.Host]

members == [l \in Lobbies |-> Present(player, l)]
order == [l \in Lobbies |-> JoinOrder(player, l)]
leader == [l \in Lobbies |-> LeaderToken(lobby[l])]
race == [l \in Lobbies |-> RaceOf(player, lobby[l], l)]

Abstract == INSTANCE Rooms WITH
    People <- Token, None <- Nil, Doors <- Lobbies, Places <- MaxPlayers

\* The server keeps the promise: every step of a handler or of Tick, with all
\* the methods it calls, is one step of Rooms or changes nothing there.
RoomsKept == Abstract!Spec
=============================================================================
