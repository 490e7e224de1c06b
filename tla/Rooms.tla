------------------------------- MODULE Rooms -------------------------------
(***************************************************************************)
(* What the lobby server promises its players: rooms that are led in join  *)
(* order, races that those present at the start race, and Free Roam        *)
(* sessions that last for as long as their host stays.  Slots, packets,    *)
(* nonces, join numbers and the audience are how the server keeps the      *)
(* promise, and are not here.                                              *)
(***************************************************************************)
EXTENDS Integers, FiniteSets

CONSTANTS
    People,     \* who may be in a room
    None,       \* nobody
    Doors,      \* the rooms
    Places      \* how many a room takes

VARIABLES
    members,    \* Doors -> the people in the room
    order,      \* Doors -> the pairs of them of whom the first came first
    leader,     \* Doors -> who leads the room
    race        \* Doors -> what is going on there

vars == <<members, order, leader, race>>

\* lot says that the race that is on is a Free Roam session; host is who
\* opened it, until it is off the road.
NoRace == [phase |-> "Waiting", lot |-> FALSE, racers |-> {}, host |-> None]

\* Whoever came before everybody else.
First(M, before) ==
    IF M = {} THEN None ELSE CHOOSE m \in M : \A n \in M \ {m} : <<m, n>> \in before

Among(before, M) == {p \in before : p[1] \in M /\ p[2] \in M}

Init ==
    /\ members = [d \in Doors |-> {}]
    /\ order = [d \in Doors |-> {}]
    /\ leader = [d \in Doors |-> None]
    /\ race = [d \in Doors |-> NoRace]

-----------------------------------------------------------------------------
(* Coming and going.  The last one out ends what was going on.             *)

Gone(T) ==
    /\ members' = [d \in Doors |-> members[d] \ T]
    /\ order' = [d \in Doors |-> Among(order[d], members[d] \ T)]

\* The race with the people of T off the road, and with t on it.
Off(r, T) ==
    [phase |-> r.phase, lot |-> r.lot, racers |-> r.racers \ T,
     host |-> IF r.host \in T THEN None ELSE r.host]
On(r, t) == [phase |-> r.phase, lot |-> r.lot, racers |-> r.racers \cup {t}, host |-> r.host]

RaceWithout(d, T) ==
    IF members[d] # {} /\ members[d] \subseteq T THEN NoRace ELSE Off(race[d], T)

Depart(t) ==
    /\ Gone({t})
    /\ race' = [d \in Doors |-> RaceWithout(d, {t})]

\* A Free Roam session takes latecomers, a race does not.
Enter(t, d) ==
    /\ t \notin members[d]
    /\ Cardinality(members[d]) < Places
    /\ members' = [e \in Doors |-> IF e = d THEN members[e] \cup {t} ELSE members[e] \ {t}]
    /\ order' = [e \in Doors |->
                    IF e = d THEN order[e] \cup (members[e] \X {t})
                    ELSE Among(order[e], members[e] \ {t})]
    /\ race' = [e \in Doors |->
                    IF e # d THEN RaceWithout(e, {t})
                    ELSE IF race[e].lot THEN On(race[e], t) ELSE race[e]]

-----------------------------------------------------------------------------
(* The race.                                                               *)

\* The leader starts a race, or a session on the lot, of all who are there.
Start(d, lot) ==
    /\ UNCHANGED <<members, order>>
    /\ race[d].phase = "Waiting"
    /\ members[d] # {}
    /\ race' = [race EXCEPT ![d] = [phase |-> "Countdown", lot |-> lot,
                                    racers |-> members[d], host |-> leader[d]]]

Retire(t, d) ==
    /\ UNCHANGED <<members, order>>
    /\ t \in race[d].racers
    /\ race[d].phase \in {"Countdown", "Racing"}
    /\ race' = [race EXCEPT ![d] = Off(race[d], {t})]

\* Anybody but the leader may go back on the lot.
GoBack(t, d) ==
    /\ UNCHANGED <<members, order>>
    /\ race[d].lot
    /\ t \in members[d] /\ t # leader[d]
    /\ race' = [race EXCEPT ![d] = On(race[d], t)]

\* A race that nobody is in is over at once, and so is a Free Roam session
\* without its host, which nothing else ends; a race has results.
Advanced(r, due) ==
    CASE r.phase \in {"Countdown", "Racing"}
            /\ (r.racers = {} \/ (r.lot /\ r.host = None)) -> NoRace
      [] r.phase = "Countdown" /\ r.racers # {} /\ (r.lot => r.host # None) /\ due ->
            [r EXCEPT !.phase = "Racing"]
      [] r.phase = "Racing" /\ r.racers # {} /\ ~r.lot /\ due -> [r EXCEPT !.phase = "Results"]
      [] r.phase = "Results" /\ due -> NoRace
      [] OTHER -> r

\* The clock: the people of T were silent for too long, and the rooms move on.
Clock(T) ==
    /\ Gone(T)
    /\ \E due \in SUBSET Doors :
            race' = [d \in Doors |-> Advanced(RaceWithout(d, T), d \in due)]

Next ==
    /\ \/ \E T \in SUBSET People : Clock(T)
       \/ \E t \in People :
            Depart(t) \/ \E d \in Doors : Enter(t, d) \/ Retire(t, d) \/ GoBack(t, d)
       \/ \E d \in Doors, lot \in BOOLEAN : Start(d, lot)
    /\ leader' = [d \in Doors |-> First(members'[d], order'[d])]

Spec == Init /\ [][Next]_vars
=============================================================================
