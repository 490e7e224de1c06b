------------------------------ MODULE MCLobby ------------------------------
(***************************************************************************)
(* Small instances of the lobby server for TLC.                            *)
(***************************************************************************)
EXTENDS LobbyRooms, Sequences

(***************************************************************************)
(* What a state is to the checker.  Consoles are interchangeable, so a     *)
(* token is named by where it is.  Join numbers of one room are only       *)
(* compared, so ranks stand for them.  What join sets anew for whoever     *)
(* takes a slot is left out for those who sit nowhere, and what a start    *)
(* sets anew for the racers is left out for those who do not race.  States *)
(* that agree on this view take the same steps to states that agree on it, *)
(* and no property tells them apart: the view is exact, and the runs that  *)
(* use it need no bound on the number of joins.                            *)
(***************************************************************************)
RankInRoom(t) ==
    Cardinality({u \in Members(player[t].Lobby) : player[u].JoinSeq < player[t].JoinSeq})

Standing(t) ==
    LET p == player[t]
    IN  IF t \notin sessions THEN <<>>
        ELSE <<p.Lobby, p.Slot, p.Spectating, p.Racing, p.StartNonce, p.nonceSeen>>

Placing(t) ==
    IF InSlot(t) THEN <<RankInRoom(t), player[t].Points, player[t].LastPlace>> ELSE <<>>

RaceState(t) ==
    IF InSlot(t) /\ player[t].Racing
    THEN <<player[t].Grid, player[t].Finished,
           IF player[t].Finished THEN player[t].FinishMs ELSE player[t].Progress>>
    ELSE <<>>

LastKart(t) ==
    IF InSlot(t) /\ player[t].Racing THEN <<player[t].Kart>> ELSE <<>>

Anonymous(What(_)) ==
    <<[l \in Lobbies |->
        [lobby[l] EXCEPT
            !.Slots = [s \in Slots |-> IF @[s] = Nil THEN <<>> ELSE What(@[s])],
            !.Host = {s \in Slots : lobby[l].Host # Nil /\ lobby[l].Slots[s] = lobby[l].Host},
            !.Watchers = {}]],
      LET standing == {t \in Token : ~InSlot(t)}
      IN  [w \in {What(t) : t \in standing} |-> Cardinality({t \in standing : What(t) = w})]>>

\* Colours, places and relayed karts decide nothing but themselves: a run
\* leaves out those its properties are not about.  Nor does it matter to a
\* race whether who sits nowhere watches or browses: either may join.  A race
\* id is only compared with the one a packet brings, which may be any.
SeatSeen(t) == <<Standing(t), Placing(t), player[t].Colour>>
RaceSeen(t) ==
    IF InSlot(t) THEN <<Standing(t), RankInRoom(t), player[t].Points, RaceState(t)>>
    ELSE <<t \in sessions, player[t].Racing, player[t].StartNonce, player[t].nonceSeen>>
ResultSeen(t) == <<Standing(t), Placing(t), RaceState(t), LastKart(t)>>
SeatView == Anonymous(SeatSeen)
RaceView ==
    LET view == Anonymous(RaceSeen)
    IN  [view EXCEPT ![1] = [l \in Lobbies |-> [view[1][l] EXCEPT !.RaceID = 0]]]
ResultView == Anonymous(ResultSeen)

\* Wishes of the instances: any colour and nothing else; and any start on any
\* track, from players who all want the first colour.
PaintWishes == [colour : {0, ColourCustom}, track : {0}, items : {TRUE}, nonce : Nonces]
StartWishes == [colour : {0}, track : Tracks, items : {TRUE}, nonce : Nonces]

\* Points by place: few enough values to keep the instance small, and enough
\* to tell the places apart.
MCPlacePoints == [i \in 1 .. MaxPlayers |-> MaxPlayers - i]
=============================================================================
