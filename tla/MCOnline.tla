------------------------------ MODULE MCOnline ------------------------------
(***************************************************************************)
(* Small instances of consoles and the lobby server for TLC.               *)
(***************************************************************************)
EXTENDS OnlineProps, TLC

(***************************************************************************)
(* What a state is to the checker.  The players' colours, places and       *)
(* points decide nothing here, and join numbers of one room are only       *)
(* compared.  Whose nonce the server has heard decides nothing where all   *)
(* the wishes carry one nonce, which is never a press of Start.  A client  *)
(* that is no console's and watches can do next what one that browses can, *)
(* and nobody sees the difference.                                         *)
(***************************************************************************)
Presses == Cardinality(Nonces) > 1

Rank(t) ==
    Cardinality({u \in Members(player[t].Lobby) : player[u].JoinSeq < player[t].JoinSeq})

Seen(t) ==
    LET p == player[t]
    IN  <<t \in sessions, p.Lobby, p.Slot, p.Spectating, p.Racing, p.StartNonce,
          Presses /\ p.nonceSeen, IF InSlot(t) THEN Rank(t) ELSE 0>>

SeenStranger(t) ==
    IF InSlot(t) THEN Seen(t)
    ELSE <<t \in sessions, player[t].StartNonce, Presses /\ player[t].nonceSeen>>

RoomSeen(room) ==
    <<room.Slots, room.Leader, room.Track, room.State, room.RaceID, room.Host,
      Presses /\ room.synced, IF room.synced THEN room.Nonce ELSE 0>>

OnlineView ==
    <<[t \in Token |-> IF t \in UNION Consoles THEN Seen(t) ELSE SeenStranger(t)],
      [l \in Lobbies |-> RoomSeen(lobby[l])], console, up, down, outages>>

\* Any start on any track, all in the colour that anybody may wear.
StartWishes == [colour : {ColourCustom}, track : Tracks, items : {TRUE}, nonce : Nonces]

\* Which of its tokens a console makes first is no matter.
TokenSymmetry == UNION {Permutations(c) : c \in Consoles}

MCPlacePoints == [i \in 1 .. MaxPlayers |-> 0]
=============================================================================
