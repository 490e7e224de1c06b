----------------------------- MODULE ChatProofs -----------------------------
(***************************************************************************)
(* Proof that the room is told a line once, for any id window, meter and   *)
(* capacity.  The argument follows the queue to the server: the lines in   *)
(* it never decrease, a line behind a LEAVE is newer than all before it,   *)
(* and so a SAY of a line that was relayed already meets the record that   *)
(* relayed it, with its id still the newest.  The line the console says is *)
(* treated as the last of the queue.  A second part follows the echoes     *)
(* back through the console's first visit: a line reported as said was     *)
(* relayed, though its id had been the id of another.                      *)
(***************************************************************************)
EXTENDS Chat, TLAPS

SayPacket == [type: {"SAY"}, id: Nat, line: Nat]
SeatPacket == [type: {"JOIN", "LEAVE"}]
Hearable == [type: {"CHAT"}, slot: Nat, id: Nat] \cup [type: {"LOBBY"}, you: Nat]

\* The i-th packet of a queue is a SAY of a line that may be relayed.
SaysLine(q, i) == i \in 1 .. Len(q) /\ q[i].type = "SAY" /\ q[i].line # 0
Leaves(q, i) == i \in 1 .. Len(q) /\ q[i].type = "LEAVE"

Packets == SayPacket \cup SeatPacket
Mouths == [state: {"Browse", "Joining", "Lobby"}, you: Nat, say: {"Idle", "Sending", "Sent", "Failed"},
           id: Nat, line: Nat, unheard: Nat, joins: Nat]
Desks == [seated: BOOLEAN, slot: Nat, seen: BOOLEAN, id: Nat, tokens: Int]

\* What is on its way to the server, up to the line that m says.
InOrder(q, m) ==
    /\ \A i, j \in 1 .. Len(q) : i < j /\ SaysLine(q, i) /\ SaysLine(q, j) =>
            /\ q[i].line <= q[j].line
            /\ q[i].line = q[j].line => q[i].id = q[j].id /\ \A k \in i .. j : ~Leaves(q, k)
    /\ \A i \in 1 .. Len(q) : SaysLine(q, i) /\ m.line # 0 =>
            /\ q[i].line <= m.line
            /\ q[i].line = m.line => q[i].id = m.id /\ \A k \in i .. Len(q) : ~Leaves(q, k)

\* Where d has relayed r, and meets one of its lines again.
Behind(q, m, d, r) ==
    \A n \in 1 .. Len(r) :
        /\ \A i \in 1 .. Len(q) : SaysLine(q, i) =>
                /\ r[n] <= q[i].line
                /\ r[n] = q[i].line =>
                        d.seated /\ d.seen /\ d.id = q[i].id /\ \A k \in 1 .. i : ~Leaves(q, k)
        /\ m.line # 0 =>
                /\ r[n] <= m.line
                /\ r[n] = m.line =>
                        d.seated /\ d.seen /\ d.id = m.id /\ \A k \in 1 .. Len(q) : ~Leaves(q, k)

\* Every line was said.
WasSaid(q, m, r, said) ==
    /\ \A i \in 1 .. Len(q) : SaysLine(q, i) => q[i].line <= said
    /\ m.line <= said
    /\ \A n \in 1 .. Len(r) : r[n] <= said

Sound(q, m, d, r) == InOrder(q, m) /\ Behind(q, m, d, r)

ChatTypes ==
    /\ hearing \in Seq(Hearable)
    /\ lines \in Nat /\ mouth \in Mouths /\ desk \in Desks
    /\ saying \in Seq(Packets) /\ relayed \in Seq(Nat)
    /\ WasSaid(saying, mouth, relayed, lines)

ChatInv == ChatTypes /\ Sound(saying, mouth, desk, relayed) /\ LineOnce

-----------------------------------------------------------------------------
(* What the queue does.                                                    *)

\* The head of the queue goes, and the rest moves up.
LEMMA QueueMoves ==
    ASSUME NEW S, NEW q \in Seq(S), q # <<>>
    PROVE  /\ Tail(q) \in Seq(S) /\ Len(Tail(q)) = Len(q) - 1 /\ Len(q) \in Nat /\ Len(q) > 0
           /\ Head(q) = q[1] /\ Head(q) \in S
           /\ \A i \in 1 .. Len(q) - 1 : Tail(q)[i] = q[i + 1]
OBVIOUS

\* What goes out comes last, or is dropped.
LEMMA QueueGrows ==
    ASSUME NEW S, NEW q \in Seq(S), NEW p \in S
    PROVE  \/ Posted(q, p) = q
           \/ /\ Posted(q, p) = Append(q, p) /\ Posted(q, p) \in Seq(S)
              /\ Len(Posted(q, p)) = Len(q) + 1
              /\ Posted(q, p)[Len(q) + 1] = p
              /\ \A i \in 1 .. Len(q) : Posted(q, p)[i] = q[i]
BY DEF Posted

LEMMA LinesAreNumbers ==
    ASSUME NEW q \in Seq(Packets), NEW i, SaysLine(q, i)
    PROVE  q[i].line \in Nat
<1>1. q[i] \in Packets /\ q[i].type = "SAY"
    BY DEF SaysLine
<1> QED
    BY <1>1 DEF Packets, SayPacket, SeatPacket

\* A queue without its head is in order if the whole was.
LEMMA TailInOrder ==
    ASSUME NEW q \in Seq(Packets), q # <<>>, NEW m \in Mouths, NEW d \in Desks, NEW r \in Seq(Nat),
           Sound(q, m, d, r)
    PROVE  Sound(Tail(q), m, d, r)
<1> DEFINE t == Tail(q)
<1>1. /\ Len(t) = Len(q) - 1 /\ Len(q) \in Nat /\ Len(q) > 0
      /\ \A i \in 1 .. Len(t) : t[i] = q[i + 1] /\ i + 1 \in 1 .. Len(q)
    BY QueueMoves
<1> HIDE DEF t
<1>2. \A i \in 1 .. Len(t) : SaysLine(t, i) => SaysLine(q, i + 1)
    BY <1>1 DEF SaysLine
<1>3. \A i \in 1 .. Len(t) : Leaves(t, i) => Leaves(q, i + 1)
    BY <1>1 DEF Leaves
<1>6. InOrder(q, m) /\ Behind(q, m, d, r)
    BY DEF Sound
<1>4. InOrder(t, m)
    <2>1. ASSUME NEW i \in 1 .. Len(t), NEW j \in 1 .. Len(t), i < j, SaysLine(t, i), SaysLine(t, j)
          PROVE  /\ t[i].line <= t[j].line
                 /\ t[i].line = t[j].line => t[i].id = t[j].id /\ \A k \in i .. j : ~Leaves(t, k)
        <3>1. SaysLine(q, i + 1) /\ SaysLine(q, j + 1) /\ i + 1 < j + 1
              /\ i + 1 \in 1 .. Len(q) /\ j + 1 \in 1 .. Len(q) /\ t[i] = q[i + 1] /\ t[j] = q[j + 1]
            BY <1>1, <1>2, <2>1
        <3>2. \A k \in i .. j : k \in 1 .. Len(t) /\ k + 1 \in i + 1 .. j + 1
            BY <1>1
        <3>3. /\ q[i + 1].line <= q[j + 1].line
              /\ q[i + 1].line = q[j + 1].line =>
                    q[i + 1].id = q[j + 1].id /\ \A k \in i + 1 .. j + 1 : ~Leaves(q, k)
            BY <1>6, <3>1 DEF InOrder
        <3> QED
            BY <1>3, <3>1, <3>2, <3>3
    <2>2. ASSUME NEW i \in 1 .. Len(t), SaysLine(t, i), m.line # 0
          PROVE  /\ t[i].line <= m.line
                 /\ t[i].line = m.line => t[i].id = m.id /\ \A k \in i .. Len(t) : ~Leaves(t, k)
        <3>1. SaysLine(q, i + 1) /\ i + 1 \in 1 .. Len(q) /\ t[i] = q[i + 1]
            BY <1>1, <1>2, <2>2
        <3>2. \A k \in i .. Len(t) : k \in 1 .. Len(t) /\ k + 1 \in i + 1 .. Len(q)
            BY <1>1
        <3>3. /\ q[i + 1].line <= m.line
              /\ q[i + 1].line = m.line => q[i + 1].id = m.id /\ \A k \in i + 1 .. Len(q) : ~Leaves(q, k)
            BY <1>6, <2>2, <3>1 DEF InOrder
        <3> QED
            BY <1>3, <3>1, <3>2, <3>3
    <2> QED
        BY <2>1, <2>2 DEF InOrder
<1>5. Behind(t, m, d, r)
    <2>1. ASSUME NEW n \in 1 .. Len(r), NEW i \in 1 .. Len(t), SaysLine(t, i)
          PROVE  /\ r[n] <= t[i].line
                 /\ r[n] = t[i].line =>
                        d.seated /\ d.seen /\ d.id = t[i].id /\ \A k \in 1 .. i : ~Leaves(t, k)
        <3>1. SaysLine(q, i + 1) /\ i + 1 \in 1 .. Len(q) /\ t[i] = q[i + 1]
            BY <1>1, <1>2, <2>1
        <3>2. \A k \in 1 .. i : k \in 1 .. Len(t) /\ k + 1 \in 1 .. i + 1
            BY <1>1
        <3>3. /\ r[n] <= q[i + 1].line
              /\ r[n] = q[i + 1].line =>
                    d.seated /\ d.seen /\ d.id = q[i + 1].id /\ \A k \in 1 .. i + 1 : ~Leaves(q, k)
            BY <1>6, <3>1 DEF Behind
        <3> QED
            BY <1>3, <3>1, <3>2, <3>3
    <2>2. ASSUME NEW n \in 1 .. Len(r), m.line # 0
          PROVE  /\ r[n] <= m.line
                 /\ r[n] = m.line =>
                        d.seated /\ d.seen /\ d.id = m.id /\ \A k \in 1 .. Len(t) : ~Leaves(t, k)
        <3>1. \A k \in 1 .. Len(t) : k + 1 \in 1 .. Len(q)
            BY <1>1
        <3> QED
            BY <1>3, <1>6, <2>2, <3>1 DEF Behind
    <2> QED
        BY <2>1, <2>2 DEF Behind
<1> QED
    BY <1>4, <1>5 DEF t, Sound

\* A line that is given up, or kept, leaves the rest in order.
LEMMA LineForgotten ==
    ASSUME NEW q \in Seq(Packets), NEW m \in Mouths, NEW d \in Desks, NEW r \in Seq(Nat),
           Sound(q, m, d, r), NEW new \in Mouths,
           new.line = 0 \/ (new.line = m.line /\ new.id = m.id)
    PROVE  Sound(q, new, d, r)
BY DEF Sound, InOrder, Behind

\* A line that is newer than all before it.
LEMMA LineSaid ==
    ASSUME NEW q \in Seq(Packets), NEW m \in Mouths, NEW d \in Desks, NEW r \in Seq(Nat),
           Sound(q, m, d, r), NEW said \in Nat, WasSaid(q, m, r, said),
           NEW new \in Mouths, new.line = said + 1
    PROVE  Sound(q, new, d, r) /\ WasSaid(q, new, r, said + 1)
<1>1. \A i \in 1 .. Len(q) : SaysLine(q, i) => q[i].line \in Nat /\ q[i].line <= said
    BY LinesAreNumbers DEF WasSaid
<1>2. \A n \in 1 .. Len(r) : r[n] \in Nat /\ r[n] <= said
    BY DEF WasSaid
<1>3. InOrder(q, new)
    BY <1>1 DEF Sound, InOrder
<1>4. Behind(q, new, d, r)
    BY <1>2 DEF Sound, Behind
<1>5. WasSaid(q, new, r, said + 1)
    BY <1>1, <1>2 DEF WasSaid
<1> QED
    BY <1>3, <1>4, <1>5 DEF Sound

\* What the console sends comes last: a LEAVE after which it has no line, or
\* its line.
LEMMA PostedInOrder ==
    ASSUME NEW q \in Seq(Packets), NEW m \in Mouths, NEW d \in Desks, NEW r \in Seq(Nat),
           Sound(q, m, d, r), NEW said \in Nat, WasSaid(q, m, r, said), NEW p \in Packets,
           p.type = "LEAVE" => m.line = 0,
           p.type = "SAY" => p.id = m.id /\ p.line = m.line
    PROVE  /\ Posted(q, p) \in Seq(Packets) /\ Sound(Posted(q, p), m, d, r)
           /\ WasSaid(Posted(q, p), m, r, said)
<1> DEFINE e == Posted(q, p)
<1>1. CASE e = q
    BY <1>1
<1>2. CASE e # q
    <2>1. /\ e \in Seq(Packets) /\ Len(q) \in Nat /\ Len(e) = Len(q) + 1 /\ e[Len(q) + 1] = p
          /\ \A i \in 1 .. Len(q) : e[i] = q[i]
        BY <1>2, QueueGrows
    <2> HIDE DEF e
    <2>2. \A i \in 1 .. Len(q) : (SaysLine(e, i) <=> SaysLine(q, i)) /\ (Leaves(e, i) <=> Leaves(q, i))
        BY <2>1 DEF SaysLine, Leaves
    <2>3. SaysLine(e, Len(q) + 1) => p.id = m.id /\ p.line = m.line /\ m.line # 0 /\ ~Leaves(e, Len(q) + 1)
        BY <2>1 DEF SaysLine, Leaves
    <2>4. Leaves(e, Len(q) + 1) => m.line = 0
        BY <2>1 DEF Leaves
    <2>5. \A i \in 1 .. Len(e) : i \in 1 .. Len(q) \/ i = Len(q) + 1
        BY <2>1
    <2>6. ASSUME NEW i \in 1 .. Len(q), SaysLine(q, i), m.line # 0, q[i].line = m.line
          PROVE  \A k \in i .. Len(e) : ~Leaves(e, k)
        <3>1. \A k \in i .. Len(e) : k \in i .. Len(q) \/ k = Len(q) + 1
            BY <2>1
        <3>2. \A k \in i .. Len(q) : ~Leaves(q, k) /\ k \in 1 .. Len(q)
            BY <2>6 DEF Sound, InOrder
        <3> QED
            BY <2>2, <2>4, <2>6, <3>1, <3>2
    <2>7. ASSUME NEW i \in 1 .. Len(e), NEW j \in 1 .. Len(e), i < j, SaysLine(e, i), SaysLine(e, j)
          PROVE  /\ e[i].line <= e[j].line
                 /\ e[i].line = e[j].line => e[i].id = e[j].id /\ \A k \in i .. j : ~Leaves(e, k)
        <3>1. i \in 1 .. Len(q) /\ SaysLine(q, i) /\ e[i] = q[i]
            BY <2>1, <2>2, <2>7
        <3>2. CASE j \in 1 .. Len(q)
            <4>1. \A k \in i .. j : k \in 1 .. Len(q)
                BY <2>1, <3>2
            <4> QED
                BY <2>1, <2>2, <2>7, <3>1, <3>2, <4>1 DEF Sound, InOrder
        <3>3. CASE j = Len(q) + 1
            <4>1. e[j] = p /\ p.id = m.id /\ p.line = m.line /\ m.line # 0 /\ Len(e) = j
                BY <2>1, <2>3, <2>7, <3>3
            <4>2. q[i].line <= m.line /\ (q[i].line = m.line => q[i].id = m.id)
                BY <3>1, <4>1 DEF Sound, InOrder
            <4> QED
                BY <2>6, <3>1, <4>1, <4>2
        <3> QED
            BY <2>5, <3>2, <3>3
    <2>8. ASSUME NEW i \in 1 .. Len(e), SaysLine(e, i), m.line # 0
          PROVE  /\ e[i].line <= m.line
                 /\ e[i].line = m.line => e[i].id = m.id /\ \A k \in i .. Len(e) : ~Leaves(e, k)
        <3>1. CASE i \in 1 .. Len(q)
            <4>1. SaysLine(q, i) /\ e[i] = q[i]
                BY <2>1, <2>2, <2>8, <3>1
            <4>2. q[i].line <= m.line /\ (q[i].line = m.line => q[i].id = m.id)
                BY <2>8, <3>1, <4>1 DEF Sound, InOrder
            <4> QED
                BY <2>6, <2>8, <3>1, <4>1, <4>2
        <3>2. CASE i = Len(q) + 1
            <4>1. \A k \in i .. Len(e) : k = i
                BY <2>1, <3>2
            <4> QED
                BY <2>1, <2>3, <2>8, <3>2, <4>1 DEF Mouths
        <3> QED
            BY <2>5, <3>1, <3>2
    <2>9. ASSUME NEW n \in 1 .. Len(r), NEW i \in 1 .. Len(e), SaysLine(e, i)
          PROVE  /\ r[n] <= e[i].line
                 /\ r[n] = e[i].line =>
                        d.seated /\ d.seen /\ d.id = e[i].id /\ \A k \in 1 .. i : ~Leaves(e, k)
        <3>1. CASE i \in 1 .. Len(q)
            <4>1. SaysLine(q, i) /\ e[i] = q[i] /\ \A k \in 1 .. i : k \in 1 .. Len(q)
                BY <2>1, <2>2, <2>9, <3>1
            <4> QED
                BY <2>2, <3>1, <4>1 DEF Sound, Behind
        <3>2. CASE i = Len(q) + 1
            <4>1. e[i].line = m.line /\ e[i].id = m.id /\ m.line # 0 /\ ~Leaves(e, i)
                BY <2>1, <2>3, <2>9, <3>2
            <4>2. \A k \in 1 .. i : k \in 1 .. Len(q) \/ k = i
                BY <2>1, <3>2
            <4> QED
                BY <2>2, <4>1, <4>2 DEF Sound, Behind
        <3> QED
            BY <2>5, <3>1, <3>2
    <2>10. ASSUME NEW n \in 1 .. Len(r), m.line # 0
           PROVE  /\ r[n] <= m.line
                  /\ r[n] = m.line =>
                        d.seated /\ d.seen /\ d.id = m.id /\ \A k \in 1 .. Len(e) : ~Leaves(e, k)
        BY <2>2, <2>4, <2>5, <2>10 DEF Sound, Behind
    <2>11. WasSaid(e, m, r, said)
        <3>1. ASSUME NEW i \in 1 .. Len(e), SaysLine(e, i)
              PROVE  e[i].line <= said
            <4>1. CASE i \in 1 .. Len(q)
                BY <2>1, <2>2, <3>1, <4>1 DEF WasSaid
            <4>2. CASE i = Len(q) + 1
                BY <2>1, <2>3, <3>1, <4>2 DEF WasSaid
            <4> QED
                BY <2>5, <4>1, <4>2
        <3> QED
            BY <3>1 DEF WasSaid
    <2>12. InOrder(e, m)
        BY <2>7, <2>8 DEF InOrder
    <2>13. Behind(e, m, d, r)
        BY <2>9, <2>10 DEF Behind
    <2> QED
        BY <2>1, <2>11, <2>12, <2>13 DEF Sound, e
<1> QED
    BY <1>1, <1>2

-----------------------------------------------------------------------------
(* The steps.                                                              *)

\* What is heard has its type.
LEMMA HearingTyped ==
    ASSUME ChatTypes, ChatNext
    PROVE  hearing' \in Seq(Hearable)
<1>1. hearing \in Seq(Hearable) /\ desk \in Desks /\ saying \in Seq(Packets)
    BY DEF ChatTypes
<1>2. \A slot \in Nat, id \in Nat : ChatPacket(slot, id) \in Hearable
    BY DEF ChatPacket, Hearable
<1>3. \A slot \in Nat : RoomPacket(slot) \in Hearable
    BY DEF RoomPacket, Hearable
<1>4. \A p \in Hearable : Posted(hearing, p) \in Seq(Hearable) /\ Append(hearing, p) \in Seq(Hearable)
    BY <1>1 DEF Posted
<1>5. desk.slot \in Nat /\ desk.id \in Nat
    BY <1>1 DEF Desks
<1>6. CASE ChatJoin \/ ChatLeave \/ Say \/ SayAgain \/ SayFails \/ Refill
    BY <1>1, <1>6 DEF ChatJoin, ChatLeave, Say, SayAgain, SayFails, Refill
<1>7. CASE Hears \/ LosePacket
    <2>1. hearing' = hearing \/ (hearing # <<>> /\ hearing' = Tail(hearing))
        BY <1>7 DEF Hears, LosePacket
    <2> QED
        BY <1>1, <2>1, QueueMoves
<1>8. CASE ServeSay
    <2>1. Head(saying) \in Packets /\ Head(saying).type = "SAY"
        BY <1>1, <1>8, QueueMoves DEF ServeSay
    <2>2. Head(saying).id \in Nat
        BY <2>1 DEF Packets, SayPacket, SeatPacket
    <2> QED
        BY <1>1, <1>2, <1>4, <1>5, <1>8, <2>2 DEF ServeSay, EchoAgain
<1>9. CASE ServeSeat
    <2>1. CASE UNCHANGED hearing
        BY <1>1, <2>1
    <2>2. CASE hearing' = Posted(hearing, RoomPacket(desk'.slot))
        <3>1. desk'.slot \in Nat
            <4>1. CASE UNCHANGED desk
                BY <1>5, <4>1
            <4>2. ASSUME NEW slot \in ChatSlots, desk' = [desk EXCEPT !.seated = TRUE, !.slot = slot, !.seen = FALSE]
                  PROVE  desk'.slot \in Nat
                BY <1>1, <4>2, ChatAssumption DEF Desks
            <4>3. CASE desk' = [desk EXCEPT !.seated = FALSE]
                BY <1>1, <4>3 DEF Desks
            <4> QED
                BY <1>9, <4>1, <4>2, <4>3 DEF ServeSeat
        <3> QED
            BY <1>3, <1>4, <2>2, <3>1
    <2> QED
        BY <1>9, <2>1, <2>2 DEF ServeSeat
<1>10. CASE TellsRoom
    BY <1>3, <1>4, <1>5, <1>10 DEF TellsRoom
<1>11. CASE OthersSay
    <2>1. PICK slot \in ChatSlots, id \in 1 .. SayIds : hearing' = Append(hearing, ChatPacket(slot, id))
        BY <1>11 DEF OthersSay
    <2> QED
        BY <1>2, <1>4, <2>1, ChatAssumption
<1> QED
    BY <1>6, <1>7, <1>8, <1>9, <1>10, <1>11 DEF ChatNext

\* Those of the console.
LEMMA ConsoleStepKept ==
    ASSUME ChatInv, ChatJoin \/ ChatLeave \/ Say \/ SayAgain \/ SayFails \/ Hears
    PROVE  ChatInv'
<1>1. /\ lines \in Nat /\ mouth \in Mouths /\ desk \in Desks /\ saying \in Seq(Packets)
      /\ relayed \in Seq(Nat) /\ WasSaid(saying, mouth, relayed, lines)
      /\ Sound(saying, mouth, desk, relayed) /\ LineOnce
    BY DEF ChatInv, ChatTypes
<1>12. hearing' \in Seq(Hearable)
    BY HearingTyped DEF ChatInv, ChatNext
<1>2. UNCHANGED <<desk, relayed>> /\ LineOnce'
    BY <1>1 DEF ChatJoin, ChatLeave, Say, SayAgain, SayFails, Hears, SendsOut, LineOnce
<1>3. ASSUME mouth' \in Mouths, mouth'.line = 0 \/ (mouth'.line = mouth.line /\ mouth'.id = mouth.id)
      PROVE  Sound(saying, mouth', desk, relayed) /\ WasSaid(saying, mouth', relayed, lines)
    BY <1>1, <1>3, LineForgotten DEF WasSaid
<1>4. ASSUME mouth' \in Mouths, Sound(saying, mouth', desk, relayed),
             WasSaid(saying, mouth', relayed, lines'), lines' \in Nat, UNCHANGED saying
      PROVE  ChatInv'
    BY <1>1, <1>2, <1>4, <1>12 DEF ChatInv, ChatTypes
<1>5. ASSUME NEW p \in Packets, SendsOut(p), mouth' \in Mouths, Sound(saying, mouth', desk, relayed),
             WasSaid(saying, mouth', relayed, lines), UNCHANGED lines,
             p.type = "LEAVE" => mouth'.line = 0,
             p.type = "SAY" => p.id = mouth'.id /\ p.line = mouth'.line
      PROVE  ChatInv'
    BY <1>1, <1>2, <1>5, <1>12, PostedInOrder DEF SendsOut, ChatInv, ChatTypes
<1>6. CASE ChatJoin
    <2>1. mouth' \in Mouths /\ mouth'.line = 0
        <3>1. mouth' = [state |-> "Joining", you |-> mouth.you, say |-> "Idle", id |-> mouth.id, line |-> 0,
                        unheard |-> mouth.unheard, joins |-> mouth.joins + 1]
            BY <1>1, <1>6 DEF ChatJoin, Mouths
        <3> QED
            BY <1>1, <3>1 DEF Mouths
    <2> QED
        BY <1>1, <1>3, <1>4, <1>6, <2>1 DEF ChatJoin
<1>7. CASE ChatLeave
    <2>1. mouth' \in Mouths /\ mouth'.line = 0
        BY <1>1, <1>7 DEF ChatLeave, Mouths
    <2>2. [type |-> "LEAVE"] \in Packets /\ SendsOut([type |-> "LEAVE"])
        BY <1>7 DEF ChatLeave, Packets, SeatPacket
    <2> QED
        BY <1>3, <1>5, <1>7, <2>1, <2>2 DEF ChatLeave
<1>8. CASE Say
    <2>1. lines' = lines + 1 /\ UNCHANGED saying
        BY <1>8 DEF Say
    <2>2. mouth' \in Mouths /\ mouth'.line \in {0, lines + 1}
        <3>1. PICK line \in {0, lines + 1} :
                mouth' = [mouth EXCEPT !.say = "Sending", !.id = NextSayId(@),
                                       !.line = line, !.unheard = @ + 1]
            BY <1>8 DEF Say, Cleaned
        <3>2. mouth' = [state |-> mouth.state, you |-> mouth.you, say |-> "Sending", id |-> NextSayId(mouth.id),
                        line |-> line, unheard |-> mouth.unheard + 1, joins |-> mouth.joins]
            BY <1>1, <3>1 DEF Mouths
        <3>3. NextSayId(mouth.id) \in Nat
            BY <1>1, ChatAssumption DEF Mouths, NextSayId
        <3> QED
            BY <1>1, <3>2, <3>3 DEF Mouths
    <2>3. CASE mouth'.line = 0
        <3>1. WasSaid(saying, mouth', relayed, lines')
            <4>1. \A i \in 1 .. Len(saying) : SaysLine(saying, i) => saying[i].line \in Nat
                BY <1>1, LinesAreNumbers
            <4> QED
                BY <1>1, <2>1, <2>3, <4>1 DEF WasSaid
        <3> QED
            BY <1>1, <1>3, <1>4, <2>1, <2>2, <2>3, <3>1
    <2>4. CASE mouth'.line = lines + 1
        BY <1>1, <1>4, <2>1, <2>2, <2>4, LineSaid
    <2> QED
        BY <2>2, <2>3, <2>4
<1>9. CASE SayAgain
    <2>1. UNCHANGED <<mouth, lines>>
        BY <1>9 DEF SayAgain
    <2>2. CASE SendsOut([type |-> "JOIN"])
        <3>1. [type |-> "JOIN"] \in Packets
            BY DEF Packets, SeatPacket
        <3> QED
            BY <1>1, <1>5, <2>1, <2>2, <3>1
    <2>3. CASE SendsOut([type |-> "SAY", id |-> mouth.id, line |-> mouth.line])
        <3>1. [type |-> "SAY", id |-> mouth.id, line |-> mouth.line] \in Packets
            BY <1>1 DEF Packets, SayPacket, Mouths
        <3> QED
            BY <1>1, <1>5, <2>1, <2>3, <3>1
    <2> QED
        BY <1>9, <2>2, <2>3 DEF SayAgain
<1>10. CASE SayFails
    <2>1. mouth' \in Mouths /\ mouth'.line = 0
        BY <1>1, <1>10 DEF SayFails, Mouths
    <2> QED
        BY <1>1, <1>3, <1>4, <1>10, <2>1 DEF SayFails
<1>11. CASE Hears
    <2>1. mouth' \in Mouths /\ mouth'.line = mouth.line /\ mouth'.id = mouth.id
        <3>1. CASE mouth' = mouth
            BY <1>1, <3>1
        <3>2. CASE Head(hearing).type = "LOBBY" /\ mouth' = [mouth EXCEPT !.state = "Lobby", !.you = Head(hearing).you]
            <4>1. hearing # <<>> /\ Head(hearing) \in Hearable
                BY <1>11, QueueMoves DEF Hears, ChatInv, ChatTypes
            <4>2. Head(hearing).you \in Nat
                BY <3>2, <4>1 DEF Hearable
            <4> QED
                BY <1>1, <3>2, <4>2 DEF Mouths
        <3>3. CASE mouth' = [mouth EXCEPT !.say = "Sent", !.unheard = 0]
            BY <1>1, <3>3 DEF Mouths
        <3> QED
            BY <1>11, <3>1, <3>2, <3>3 DEF Hears
    <2> QED
        BY <1>1, <1>3, <1>4, <1>11, <2>1 DEF Hears
<1> QED
    BY <1>6, <1>7, <1>8, <1>9, <1>10, <1>11

\* A line that is relayed has not been before, and none in the queue is
\* older.
LEMMA RelayKept ==
    ASSUME ChatInv, saying # <<>>, Head(saying).type = "SAY", Head(saying).line # 0,
           ~IsRepeat(Head(saying)), desk.seated, saying' = Tail(saying),
           desk' = [desk EXCEPT !.seen = TRUE, !.id = Head(saying).id, !.tokens = @ - 1],
           relayed' = Append(relayed, Head(saying).line), UNCHANGED <<mouth, lines>>,
           hearing' \in Seq(Hearable)
    PROVE  ChatInv'
<1> DEFINE q == saying  t == Tail(saying)  p == Head(saying)
<1>1. /\ lines \in Nat /\ mouth \in Mouths /\ desk \in Desks /\ saying \in Seq(Packets)
      /\ relayed \in Seq(Nat) /\ WasSaid(saying, mouth, relayed, lines)
      /\ Sound(saying, mouth, desk, relayed) /\ LineOnce
    BY DEF ChatInv, ChatTypes
<1>2. /\ t \in Seq(Packets) /\ Len(t) = Len(q) - 1 /\ Len(q) \in Nat /\ Len(q) > 0 /\ p = q[1]
      /\ \A i \in 1 .. Len(t) : t[i] = q[i + 1] /\ i + 1 \in 1 .. Len(q)
    BY <1>1, QueueMoves
<1>3. p \in SayPacket /\ SaysLine(q, 1) /\ 1 \in 1 .. Len(q)
    <2>1. 1 \in 1 .. Len(q)
        BY <1>2
    <2>2. p \in Packets
        BY <1>1, <1>2, QueueMoves
    <2>3. p.type = "SAY" /\ p.line # 0
        OBVIOUS
    <2> HIDE DEF p
    <2>4. p \in SayPacket
        BY <2>2, <2>3 DEF Packets, SayPacket, SeatPacket
    <2> QED
        BY <1>2, <2>1, <2>3, <2>4 DEF SaysLine
<1>14. p.line \in Nat /\ mouth.line \in Nat
    BY <1>1, <1>3 DEF SayPacket, Mouths
<1>4. Sound(t, mouth, desk, relayed)
    BY <1>1, TailInOrder
<1>5. /\ relayed' \in Seq(Nat) /\ Len(relayed') = Len(relayed) + 1 /\ Len(relayed) \in Nat
      /\ relayed'[Len(relayed) + 1] = p.line
      /\ \A n \in 1 .. Len(relayed) : relayed'[n] = relayed[n] /\ relayed[n] \in Nat
    BY <1>1, <1>3 DEF SayPacket
<1>6. desk' \in Desks /\ desk'.seated /\ desk'.seen /\ desk'.id = p.id
    <2>1. p.id \in Nat
        BY <1>3 DEF SayPacket
    <2>2. desk' = [seated |-> TRUE, slot |-> desk.slot, seen |-> TRUE, id |-> p.id, tokens |-> desk.tokens - 1]
        BY <1>1 DEF Desks
    <2>3. desk.tokens - 1 \in Int /\ desk.slot \in Nat
        BY <1>1 DEF Desks
    <2>4. desk' \in Desks
        BY <2>1, <2>2, <2>3, Zenon DEF Desks
    <2>5. desk'.seated = TRUE /\ desk'.seen = TRUE /\ desk'.id = p.id
        BY <2>2, Zenon
    <2> QED
        BY <2>4, <2>5, Zenon
<1> HIDE DEF q, t, p
<1>7. \A n \in 1 .. Len(relayed) : relayed[n] < p.line
    <2>1. ASSUME NEW n \in 1 .. Len(relayed)
          PROVE  relayed[n] <= p.line /\ relayed[n] # p.line
        BY <1>1, <1>2, <1>3 DEF Sound, Behind, IsRepeat, q, p
    <2> QED
        BY <1>3, <1>5, <2>1 DEF SayPacket
<1>8. ASSUME NEW i \in 1 .. Len(t), SaysLine(t, i)
      PROVE  /\ p.line <= t[i].line /\ t[i].line \in Nat
             /\ p.line = t[i].line => p.id = t[i].id /\ \A k \in 1 .. i : ~Leaves(t, k)
    <2>1. SaysLine(q, i + 1) /\ i + 1 \in 1 .. Len(q) /\ t[i] = q[i + 1] /\ 1 < i + 1
        BY <1>2, <1>8 DEF SaysLine
    <2>2. /\ q[1].line <= q[i + 1].line
          /\ q[1].line = q[i + 1].line => q[1].id = q[i + 1].id /\ \A k \in 1 .. i + 1 : ~Leaves(q, k)
        BY <1>1, <1>3, <2>1 DEF Sound, InOrder, q
    <2>3. \A k \in 1 .. i : k + 1 \in 1 .. i + 1 /\ (Leaves(t, k) => Leaves(q, k + 1))
        BY <1>2 DEF Leaves
    <2>4. t[i].line \in Nat
        BY <1>2, <1>8, LinesAreNumbers
    <2> QED
        BY <1>2, <2>1, <2>2, <2>3, <2>4
<1>9. ASSUME mouth.line # 0
      PROVE  /\ p.line <= mouth.line
             /\ p.line = mouth.line => p.id = mouth.id /\ \A k \in 1 .. Len(t) : ~Leaves(t, k)
    <2>1. /\ p.line <= mouth.line
          /\ p.line = mouth.line => p.id = mouth.id /\ \A k \in 1 .. Len(q) : ~Leaves(q, k)
        BY <1>1, <1>2, <1>3, <1>9 DEF Sound, InOrder, q
    <2>2. \A k \in 1 .. Len(t) : k + 1 \in 1 .. Len(q) /\ (Leaves(t, k) => Leaves(q, k + 1))
        BY <1>2 DEF Leaves
    <2> QED
        BY <2>1, <2>2
<1>10. Behind(t, mouth, desk', relayed')
    <2>1. \A n \in 1 .. Len(relayed') : n \in 1 .. Len(relayed) \/ n = Len(relayed) + 1
        BY <1>5
    <2>2. ASSUME NEW n \in 1 .. Len(relayed'), NEW i \in 1 .. Len(t), SaysLine(t, i)
          PROVE  /\ relayed'[n] <= t[i].line
                 /\ relayed'[n] = t[i].line =>
                        desk'.seated /\ desk'.seen /\ desk'.id = t[i].id /\ \A k \in 1 .. i : ~Leaves(t, k)
        <3>1. CASE n \in 1 .. Len(relayed)
            BY <1>5, <1>7, <1>8, <1>14, <2>2, <3>1
        <3>2. CASE n = Len(relayed) + 1
            BY <1>5, <1>6, <1>8, <2>2, <3>2
        <3> QED
            BY <2>1, <3>1, <3>2
    <2>3. ASSUME NEW n \in 1 .. Len(relayed'), mouth.line # 0
          PROVE  /\ relayed'[n] <= mouth.line
                 /\ relayed'[n] = mouth.line =>
                        desk'.seated /\ desk'.seen /\ desk'.id = mouth.id /\ \A k \in 1 .. Len(t) : ~Leaves(t, k)
        <3>1. CASE n \in 1 .. Len(relayed)
            BY <1>5, <1>7, <1>9, <1>14, <2>3, <3>1
        <3>2. CASE n = Len(relayed) + 1
            BY <1>5, <1>6, <1>9, <2>3, <3>2
        <3> QED
            BY <2>1, <3>1, <3>2
    <2> QED
        BY <2>2, <2>3 DEF Behind
<1>11. WasSaid(t, mouth, relayed', lines)
    <2>1. p.line <= lines
        BY <1>1, <1>2, <1>3 DEF WasSaid, q
    <2>2. \A i \in 1 .. Len(t) : SaysLine(t, i) => t[i].line <= lines
        BY <1>1, <1>2 DEF WasSaid, SaysLine, q
    <2>3. \A n \in 1 .. Len(relayed') : n \in 1 .. Len(relayed) \/ n = Len(relayed) + 1
        BY <1>5
    <2> QED
        BY <1>1, <1>5, <2>1, <2>2, <2>3 DEF WasSaid
<1>12. LineOnce'
    <2>1. \A n \in 1 .. Len(relayed') : n \in 1 .. Len(relayed) \/ n = Len(relayed) + 1
        BY <1>5
    <2>2. \A n \in 1 .. Len(relayed) : relayed'[n] # p.line
        BY <1>3, <1>5, <1>7 DEF SayPacket
    <2> QED
        BY <1>1, <1>5, <2>1, <2>2 DEF LineOnce
<1>13. saying' = t
    BY DEF t
<1> QED
    BY <1>1, <1>2, <1>4, <1>5, <1>6, <1>10, <1>11, <1>12, <1>13 DEF ChatInv, ChatTypes, Sound

\* Those of the server and the network.
LEMMA DeskStepKept ==
    ASSUME ChatInv, ServeSay \/ ServeSeat \/ TellsRoom \/ OthersSay \/ Refill \/ LosePacket
    PROVE  ChatInv'
<1>1. /\ lines \in Nat /\ mouth \in Mouths /\ desk \in Desks /\ saying \in Seq(Packets)
      /\ relayed \in Seq(Nat) /\ WasSaid(saying, mouth, relayed, lines)
      /\ Sound(saying, mouth, desk, relayed) /\ LineOnce
    BY DEF ChatInv, ChatTypes
<1>10. hearing' \in Seq(Hearable)
    BY HearingTyped DEF ChatInv, ChatNext
<1>2. ASSUME saying # <<>>
      PROVE  /\ Tail(saying) \in Seq(Packets) /\ Sound(Tail(saying), mouth, desk, relayed)
             /\ WasSaid(Tail(saying), mouth, relayed, lines)
    BY <1>1, <1>2, TailInOrder, QueueMoves DEF WasSaid, SaysLine
<1>3. ASSUME UNCHANGED <<mouth, relayed, lines>>, desk' \in Desks,
             saying' = saying \/ (saying # <<>> /\ saying' = Tail(saying)),
             \A q \in {saying, Tail(saying)} :
                Behind(q, mouth, desk, relayed) => q # saying' \/ Behind(q, mouth, desk', relayed)
      PROVE  ChatInv'
    <2>1. LineOnce'
        BY <1>1, <1>3 DEF LineOnce
    <2> QED
        BY <1>1, <1>2, <1>3, <1>10, <2>1 DEF ChatInv, ChatTypes, Sound
<1>4. \A q : \A d \in Desks : d.seated = desk.seated /\ d.seen = desk.seen /\ d.id = desk.id
                => (Behind(q, mouth, desk, relayed) => Behind(q, mouth, d, relayed))
    BY DEF Behind
<1>5. CASE UNCHANGED <<mouth, desk, relayed, lines>> /\ (saying' = saying \/ (saying # <<>> /\ saying' = Tail(saying)))
    BY <1>1, <1>3, <1>5
<1>6. CASE TellsRoom \/ OthersSay \/ LosePacket
    BY <1>5, <1>6 DEF TellsRoom, OthersSay, LosePacket
<1>7. CASE Refill
    <2>1. desk' \in Desks /\ desk'.seated = desk.seated /\ desk'.seen = desk.seen /\ desk'.id = desk.id
        <3>1. desk' = [desk EXCEPT !.tokens = @ + 1] /\ desk.tokens + 1 \in Int
            BY <1>1, <1>7 DEF Refill, Desks
        <3> QED
            BY <1>1, <3>1 DEF Desks
    <2> QED
        BY <1>3, <1>4, <1>7, <2>1 DEF Refill
<1>8. CASE ServeSay
    BY <1>5, <1>8, <1>10, RelayKept DEF ServeSay
<1>9. CASE ServeSeat
    <2>1. saying # <<>> /\ saying' = Tail(saying) /\ UNCHANGED <<mouth, relayed, lines>>
        BY <1>9 DEF ServeSeat
    <2>2. CASE Head(saying).type = "LEAVE"
        <3>1. desk' = [desk EXCEPT !.seated = FALSE] /\ desk' \in Desks
            BY <1>1, <1>9, <2>2 DEF ServeSeat, Desks
        <3>2. Behind(saying', mouth, desk', relayed)
            <4>1. Leaves(saying, 1) /\ 1 \in 1 .. Len(saying)
                BY <1>1, <2>1, <2>2, QueueMoves DEF Leaves
            <4>2. /\ Len(saying') = Len(saying) - 1 /\ Len(saying) \in Nat
                  /\ \A i \in 1 .. Len(saying') : /\ i + 1 \in 1 .. Len(saying) /\ saying'[i] = saying[i + 1]
                                                 /\ 1 \in 1 .. i + 1
                BY <1>1, <2>1, QueueMoves
            <4>3. \A i \in 1 .. Len(saying') : SaysLine(saying', i) => SaysLine(saying, i + 1)
                BY <4>2 DEF SaysLine
            <4>4. \A n \in 1 .. Len(relayed), i \in 1 .. Len(saying') : SaysLine(saying', i) =>
                        relayed[n] <= saying'[i].line /\ relayed[n] # saying'[i].line
                BY <1>1, <4>1, <4>2, <4>3 DEF Sound, Behind
            <4>5. \A n \in 1 .. Len(relayed) : mouth.line # 0 => relayed[n] <= mouth.line /\ relayed[n] # mouth.line
                BY <1>1, <4>1 DEF Sound, Behind
            <4> QED
                BY <4>4, <4>5 DEF Behind
        <3> QED
            BY <1>3, <2>1, <3>1, <3>2
    <2>3. CASE Head(saying).type = "JOIN"
        <3>1. CASE desk.seated
            BY <1>5, <1>9, <2>1, <2>3, <3>1 DEF ServeSeat
        <3>2. CASE ~desk.seated
            <4>1. PICK slot \in ChatSlots : desk' = [desk EXCEPT !.seated = TRUE, !.slot = slot, !.seen = FALSE]
                BY <1>9, <2>3, <3>2 DEF ServeSeat
            <4>3. desk' \in Desks /\ ~desk'.seen
                BY <1>1, <4>1, ChatAssumption DEF Desks
            <4>2. Behind(saying', mouth, desk, relayed) => Behind(saying', mouth, desk', relayed)
                BY <3>2 DEF Behind
            <4> QED
                BY <1>3, <2>1, <4>2, <4>3
        <3> QED
            BY <3>1, <3>2
    <2> QED
        BY <1>9, <2>2, <2>3 DEF ServeSeat
<1> QED
    BY <1>6, <1>7, <1>8, <1>9

\* A line is relayed once, however often it was sent, whatever was lost, and
\* over leaves and new visits: for every size of the id window.
THEOREM LinesRelayedOnce == ChatSpec => []LineOnce
<1>1. ChatInit => ChatInv
    BY ChatAssumption DEF ChatInit, ChatInv, ChatTypes, Hearable, Mouths, Desks, Sound, InOrder, Behind, WasSaid, LineOnce
<1>2. ChatInv /\ [ChatNext]_chatVars => ChatInv'
    <2>1. CASE UNCHANGED chatVars
        BY <2>1 DEF chatVars, ChatInv, ChatTypes, LineOnce
    <2> QED
        BY <2>1, ConsoleStepKept, DeskStepKept DEF ChatNext
<1>3. ChatInv => LineOnce
    BY DEF ChatInv
<1> QED
    BY <1>1, <1>2, <1>3, PTL DEF ChatSpec

-----------------------------------------------------------------------------
(* The echoes of the first visit, in which the slot is the console's.  An  *)
(* id is reused after SayIds lines, so ids are compared by how long ago    *)
(* the console used them.                                                  *)

\* How many ids ago the console used an id.
Age(m, id) == IF id <= m.id THEN m.id - id ELSE m.id - id + SayIds

\* The i-th packet of the queue to the server, or to the console in its slot,
\* bears one of its ids.
Said(s, i) == i \in 1 .. Len(s) /\ s[i].type = "SAY"
Echoed(h, d, i) == i \in 1 .. Len(h) /\ h[i].type = "CHAT" /\ h[i].slot = d.slot

\* No id under way, or on record, has come back since.
Recent(s, h, d, m) ==
    /\ \A i \in 1 .. Len(s) : Said(s, i) => Age(m, s[i].id) <= m.unheard
    /\ \A i \in 1 .. Len(h) : Echoed(h, d, i) => Age(m, h[i].id) <= m.unheard
    /\ d.seen => Age(m, d.id) <= m.unheard

\* Oldest first, from the console's queue over the record back to the
\* server's queue.
Aged(s, h, d, m) ==
    /\ \A i, j \in 1 .. Len(s) : i < j /\ Said(s, i) /\ Said(s, j) => Age(m, s[j].id) <= Age(m, s[i].id)
    /\ \A i, j \in 1 .. Len(h) : i < j /\ Echoed(h, d, i) /\ Echoed(h, d, j) => Age(m, h[j].id) <= Age(m, h[i].id)
    /\ \A i \in 1 .. Len(s), j \in 1 .. Len(h) : Said(s, i) /\ Echoed(h, d, j) => Age(m, s[i].id) <= Age(m, h[j].id)
    /\ d.seen => /\ \A i \in 1 .. Len(s) : Said(s, i) => Age(m, s[i].id) <= Age(m, d.id)
                 /\ \A i \in 1 .. Len(h) : Echoed(h, d, i) => Age(m, d.id) <= Age(m, h[i].id)

WasRelayed(line, r) == \E n \in 1 .. Len(r) : r[n] = line

\* What bears the id of the line that is being said is about this line.
Tells(s, h, d, m, r) ==
    m.say = "Sending" =>
        /\ \A i \in 1 .. Len(s) : Said(s, i) /\ s[i].id = m.id => s[i].line = m.line
        /\ \A i \in 1 .. Len(h) : Echoed(h, d, i) /\ h[i].id = m.id => WasRelayed(m.line, r)
        /\ d.seen /\ d.id = m.id => WasRelayed(m.line, r)

Says == [type: {"SAY"}, id: 1 .. SayIds, line: Nat] \cup SeatPacket
Echoes == [type: {"CHAT"}, slot: Nat, id: 1 .. SayIds] \cup [type: {"LOBBY"}, you: Nat]

EchoTypes ==
    /\ lines \in Nat /\ mouth \in Mouths /\ desk \in Desks
    /\ mouth.id \in 0 .. SayIds /\ mouth.unheard <= MaxUnheard
    /\ mouth.say = "Sending" => mouth.id # 0
    /\ desk.seen => desk.id # 0 /\ desk.id <= SayIds
    /\ saying \in Seq(Says) /\ hearing \in Seq(Echoes) /\ relayed \in Seq(Nat)

EchoFlow(s, h, d, m, r) == Recent(s, h, d, m) /\ Aged(s, h, d, m) /\ Tells(s, h, d, m, r)

NoLeave(s) == \A i \in 1 .. Len(s) : s[i].type # "LEAVE"
AllTold(h, slot) == \A i \in 1 .. Len(h) : h[i].type = "LOBBY" => h[i].you = slot

\* What is true once the console is on its way into its first room: it has
\* not left, so it has one seat and its slot.
FirstFlow(s, h, d, m, r) ==
    /\ EchoFlow(s, h, d, m, r)
    /\ NoLeave(s) /\ AllTold(h, d.slot)
    /\ ~d.seated => h = <<>>
    /\ m.state = "Lobby" => d.seated /\ m.you = d.slot

Unvisited ==
    mouth.joins = 0 =>
        mouth.state = "Browse" /\ saying = <<>> /\ hearing = <<>> /\ ~desk.seated /\ ~desk.seen

InFirst(m) == m.joins = 1 /\ m.state # "Browse"

EchoInv ==
    /\ EchoTypes /\ Unvisited
    /\ InFirst(mouth) => FirstFlow(saying, hearing, desk, mouth, relayed)
    /\ SentWasRelayed

LEMMA AgeFacts ==
    ASSUME NEW m \in Mouths, m.id \in 0 .. SayIds
    PROVE  /\ \A id \in 1 .. SayIds : Age(m, id) \in Nat
           /\ m.id # 0 => Age(m, m.id) = 0
           /\ \A id \in 1 .. SayIds : m.id # 0 /\ Age(m, id) <= 0 => id = m.id
BY ChatAssumption DEF Age

\* A new line makes every id one older, if none is old enough to be the next.
LEMMA AgeGrows ==
    ASSUME NEW m \in Mouths, m.id \in 0 .. SayIds, m.unheard < MaxUnheard,
           NEW new \in Mouths, new.id = NextSayId(m.id),
           NEW id \in 1 .. SayIds, Age(m, id) <= m.unheard
    PROVE  /\ Age(new, id) = Age(m, id) + 1 /\ id # new.id
           /\ new.id \in 1 .. SayIds
<1>1. m.unheard \in Nat /\ m.id \in Nat
    BY DEF Mouths
<1>2. CASE m.id = SayIds
    BY <1>1, <1>2, ChatAssumption DEF Age, NextSayId
<1>3. CASE m.id # SayIds
    BY <1>1, <1>3, ChatAssumption DEF Age, NextSayId
<1> QED
    BY <1>2, <1>3

\* A queue, with its head or without it.
Moved(t, q) == t = q \/ (q # <<>> /\ t = Tail(q))

LEMMA MovedQueue ==
    ASSUME NEW S, NEW q \in Seq(S), NEW t, Moved(t, q)
    PROVE  /\ t \in Seq(S)
           /\ \E e \in {0, 1} : \A i \in 1 .. Len(t) : i \in Nat /\ i + e \in 1 .. Len(q) /\ t[i] = q[i + e]
<1>1. CASE t = q
    BY <1>1
<1>2. CASE q # <<>> /\ t = Tail(q)
    <2>1. \A i \in 1 .. Len(t) : i + 1 \in 1 .. Len(q) /\ t[i] = q[i + 1]
        BY <1>2, QueueMoves
    <2> QED
        BY <1>2, <2>1, QueueMoves
<1> QED
    BY <1>1, <1>2 DEF Moved

\* What a queue holds bears ids of the window.
LEMMA IdsInQueues ==
    /\ \A s \in Seq(Says) : \A i \in 1 .. Len(s) : Said(s, i) => s[i].id \in 1 .. SayIds /\ s[i].line \in Nat
    /\ \A d : \A h \in Seq(Echoes) : \A i \in 1 .. Len(h) : Echoed(h, d, i) => h[i].id \in 1 .. SayIds
<1>1. ASSUME NEW s \in Seq(Says), NEW i \in 1 .. Len(s), Said(s, i)
      PROVE  s[i].id \in 1 .. SayIds /\ s[i].line \in Nat
    <2>1. s[i] \in Says /\ s[i].type = "SAY"
        BY <1>1 DEF Said
    <2> QED
        BY <2>1 DEF Says, SeatPacket
<1>2. ASSUME NEW h \in Seq(Echoes), NEW d, NEW i \in 1 .. Len(h), Echoed(h, d, i)
      PROVE  h[i].id \in 1 .. SayIds
    <2>1. h[i] \in Echoes /\ h[i].type = "CHAT"
        BY <1>2 DEF Echoed
    <2> QED
        BY <2>1 DEF Echoes
<1> QED
    BY <1>1, <1>2

\* A packet that is taken, or lost, leaves the rest in order.
LEMMA EchoMoves ==
    ASSUME NEW s \in Seq(Says), NEW h \in Seq(Echoes), NEW d, NEW m, NEW r, EchoFlow(s, h, d, m, r),
           NEW t, Moved(t, s), NEW g, Moved(g, h)
    PROVE  t \in Seq(Says) /\ g \in Seq(Echoes) /\ EchoFlow(t, g, d, m, r)
<1>0. t \in Seq(Says) /\ \E e \in {0, 1} : \A i \in 1 .. Len(t) : i \in Nat /\ i + e \in 1 .. Len(s) /\ t[i] = s[i + e]
    BY MovedQueue
<1>1. PICK e \in {0, 1} : \A i \in 1 .. Len(t) : i \in Nat /\ i + e \in 1 .. Len(s) /\ t[i] = s[i + e]
    BY <1>0
<1>8. g \in Seq(Echoes) /\ \E f \in {0, 1} : \A i \in 1 .. Len(g) : i \in Nat /\ i + f \in 1 .. Len(h) /\ g[i] = h[i + f]
    BY MovedQueue
<1>2. PICK f \in {0, 1} : \A i \in 1 .. Len(g) : i \in Nat /\ i + f \in 1 .. Len(h) /\ g[i] = h[i + f]
    BY <1>8
<1>3. \A i \in 1 .. Len(t) : Said(t, i) => Said(s, i + e)
    BY <1>1 DEF Said
<1>4. \A i \in 1 .. Len(g) : Echoed(g, d, i) => Echoed(h, d, i + f)
    BY <1>2 DEF Echoed
<1>5. Recent(t, g, d, m)
    BY <1>1, <1>2, <1>3, <1>4 DEF EchoFlow, Recent
<1>6. Aged(t, g, d, m)
    <2>1. \A i, j \in 1 .. Len(t) : i < j /\ Said(t, i) /\ Said(t, j) => Age(m, t[j].id) <= Age(m, t[i].id)
        <3>1. \A i, j \in 1 .. Len(t) : i < j => i + e < j + e
            BY <1>1
        <3> QED
            BY <1>1, <1>3, <3>1 DEF EchoFlow, Aged
    <2>2. \A i, j \in 1 .. Len(g) : i < j /\ Echoed(g, d, i) /\ Echoed(g, d, j) => Age(m, g[j].id) <= Age(m, g[i].id)
        <3>1. \A i, j \in 1 .. Len(g) : i < j => i + f < j + f
            BY <1>2
        <3> QED
            BY <1>2, <1>4, <3>1 DEF EchoFlow, Aged
    <2>3. \A i \in 1 .. Len(t), j \in 1 .. Len(g) : Said(t, i) /\ Echoed(g, d, j) => Age(m, t[i].id) <= Age(m, g[j].id)
        BY <1>1, <1>2, <1>3, <1>4 DEF EchoFlow, Aged
    <2>4. d.seen => /\ \A i \in 1 .. Len(t) : Said(t, i) => Age(m, t[i].id) <= Age(m, d.id)
                    /\ \A i \in 1 .. Len(g) : Echoed(g, d, i) => Age(m, d.id) <= Age(m, g[i].id)
        BY <1>1, <1>2, <1>3, <1>4 DEF EchoFlow, Aged
    <2> QED
        BY <2>1, <2>2, <2>3, <2>4 DEF Aged
<1>7. Tells(t, g, d, m, r)
    BY <1>1, <1>2, <1>3, <1>4 DEF EchoFlow, Tells
<1> QED
    BY <1>0, <1>5, <1>6, <1>7, <1>8 DEF EchoFlow

\* What the console sends last bears its newest id and its line.
LEMMA EchoSends ==
    ASSUME NEW s \in Seq(Says), NEW h \in Seq(Echoes), NEW d \in Desks, NEW m \in Mouths, NEW r,
           EchoFlow(s, h, d, m, r), m.id \in 0 .. SayIds, d.seen => d.id # 0 /\ d.id <= SayIds,
           NEW p \in Says, p.type = "SAY" => m.id # 0 /\ p.id = m.id /\ p.line = m.line
    PROVE  Posted(s, p) \in Seq(Says) /\ EchoFlow(Posted(s, p), h, d, m, r)
<1> DEFINE e == Posted(s, p)
<1>1. CASE e = s
    BY <1>1
<1>2. CASE /\ e = Append(s, p) /\ e \in Seq(Says) /\ Len(e) = Len(s) + 1 /\ e[Len(s) + 1] = p
           /\ \A i \in 1 .. Len(s) : e[i] = s[i]
    <2> HIDE DEF e
    <2>1. Len(s) \in Nat
        OBVIOUS
    <2>2. \A i \in 1 .. Len(e) : Said(e, i) => \/ i \in 1 .. Len(s) /\ Said(s, i) /\ e[i] = s[i]
                                               \/ i = Len(s) + 1 /\ e[i] = p /\ p.type = "SAY"
        BY <1>2, <2>1 DEF Said
    <2>3. \A i, j \in 1 .. Len(e) : i < j /\ Said(e, i) /\ Said(e, j) => i \in 1 .. Len(s) /\ Said(s, i) /\ e[i] = s[i]
        BY <1>2, <2>1, <2>2
    <2>4. \A i \in 1 .. Len(s) : Said(s, i) => Age(m, s[i].id) \in Nat
        BY IdsInQueues, AgeFacts
    <2>5. \A i \in 1 .. Len(h) : Echoed(h, d, i) => Age(m, h[i].id) \in Nat
        BY IdsInQueues, AgeFacts
    <2>6. d.seen => Age(m, d.id) \in Nat
        BY AgeFacts DEF Desks
    <2>7. p.type = "SAY" => Age(m, p.id) = 0 /\ Age(m, p.id) <= m.unheard
        BY AgeFacts DEF Mouths
    <2>8. Recent(e, h, d, m)
        BY <2>2, <2>7 DEF EchoFlow, Recent
    <2>9. Aged(e, h, d, m)
        <3>1. \A i, j \in 1 .. Len(e) : i < j /\ Said(e, i) /\ Said(e, j) => Age(m, e[j].id) <= Age(m, e[i].id)
            <4>1. ASSUME NEW i \in 1 .. Len(e), NEW j \in 1 .. Len(e), i < j, Said(e, i), Said(e, j)
                  PROVE  Age(m, e[j].id) <= Age(m, e[i].id)
                <5>1. i \in 1 .. Len(s) /\ Said(s, i) /\ e[i] = s[i] /\ Age(m, s[i].id) \in Nat
                    BY <2>3, <2>4, <4>1
                <5>2. CASE j \in 1 .. Len(s) /\ Said(s, j) /\ e[j] = s[j]
                    BY <4>1, <5>1, <5>2 DEF EchoFlow, Aged
                <5>3. CASE e[j] = p /\ p.type = "SAY"
                    BY <2>7, <5>1, <5>3
                <5> QED
                    BY <2>2, <4>1, <5>2, <5>3
            <4> QED
                BY <4>1
        <3>2. \A i \in 1 .. Len(e), j \in 1 .. Len(h) : Said(e, i) /\ Echoed(h, d, j) => Age(m, e[i].id) <= Age(m, h[j].id)
            BY <2>2, <2>5, <2>7 DEF EchoFlow, Aged
        <3>3. d.seen => \A i \in 1 .. Len(e) : Said(e, i) => Age(m, e[i].id) <= Age(m, d.id)
            BY <2>2, <2>6, <2>7 DEF EchoFlow, Aged
        <3> QED
            BY <3>1, <3>2, <3>3 DEF EchoFlow, Aged
    <2>10. Tells(e, h, d, m, r)
        BY <2>2 DEF EchoFlow, Tells
    <2> QED
        BY <1>2, <2>8, <2>9, <2>10 DEF EchoFlow, e
<1> QED
    BY <1>1, <1>2, QueueGrows

\* An echo comes last if its id is no newer than what is still to be served.
LEMMA EchoTold ==
    ASSUME NEW s \in Seq(Says), NEW h \in Seq(Echoes), NEW d \in Desks, NEW m \in Mouths, NEW r,
           EchoFlow(s, h, d, m, r), m.id \in 0 .. SayIds, d.seen => d.id # 0 /\ d.id <= SayIds,
           NEW p \in Echoes,
           p.type = "CHAT" /\ p.slot = d.slot => d.seen /\ p.id = d.id
    PROVE  Posted(h, p) \in Seq(Echoes) /\ EchoFlow(s, Posted(h, p), d, m, r)
<1> DEFINE e == Posted(h, p)
<1>1. CASE e = h
    BY <1>1
<1>2. CASE /\ e = Append(h, p) /\ e \in Seq(Echoes) /\ Len(e) = Len(h) + 1 /\ e[Len(h) + 1] = p
           /\ \A i \in 1 .. Len(h) : e[i] = h[i]
    <2> HIDE DEF e
    <2>1. Len(h) \in Nat
        OBVIOUS
    <2>2. \A i \in 1 .. Len(e) : Echoed(e, d, i) =>
            \/ i \in 1 .. Len(h) /\ Echoed(h, d, i) /\ e[i] = h[i]
            \/ i = Len(h) + 1 /\ e[i] = p /\ p.type = "CHAT" /\ p.slot = d.slot
        BY <1>2, <2>1 DEF Echoed
    <2>3. \A i, j \in 1 .. Len(e) : i < j /\ Echoed(e, d, i) /\ Echoed(e, d, j)
                => i \in 1 .. Len(h) /\ Echoed(h, d, i) /\ e[i] = h[i]
        BY <1>2, <2>1, <2>2
    <2>7. d.seen => Age(m, d.id) \in Nat
        BY AgeFacts DEF Desks
    <2>4. Recent(s, e, d, m)
        BY <2>2 DEF EchoFlow, Recent
    <2>5. Aged(s, e, d, m)
        <3>1. \A i, j \in 1 .. Len(e) : i < j /\ Echoed(e, d, i) /\ Echoed(e, d, j) => Age(m, e[j].id) <= Age(m, e[i].id)
            BY <2>2, <2>3 DEF EchoFlow, Aged
        <3>2. \A i \in 1 .. Len(s), j \in 1 .. Len(e) : Said(s, i) /\ Echoed(e, d, j) => Age(m, s[i].id) <= Age(m, e[j].id)
            BY <2>2 DEF EchoFlow, Aged
        <3>3. d.seen => \A i \in 1 .. Len(e) : Echoed(e, d, i) => Age(m, d.id) <= Age(m, e[i].id)
            BY <2>2, <2>7 DEF EchoFlow, Aged
        <3> QED
            BY <3>1, <3>2, <3>3 DEF EchoFlow, Aged
    <2>6. Tells(s, e, d, m, r)
        BY <2>2 DEF EchoFlow, Tells
    <2> QED
        BY <1>2, <2>4, <2>5, <2>6 DEF EchoFlow, e
<1> QED
    BY <1>1, <1>2, QueueGrows

\* The head of the queue goes on record, and its line is relayed.
LEMMA EchoNoted ==
    ASSUME NEW s \in Seq(Says), NEW h \in Seq(Echoes), NEW d \in Desks, NEW m \in Mouths, NEW r \in Seq(Nat),
           EchoFlow(s, h, d, m, r), s # <<>>, Head(s).type = "SAY", NEW new,
           new.seen, new.id = Head(s).id, new.slot = d.slot, NEW a, a = Append(r, Head(s).line)
    PROVE  EchoFlow(Tail(s), h, new, m, a)
<1> DEFINE t == Tail(s)
<1>1. /\ Head(s) = s[1] /\ 1 \in 1 .. Len(s) /\ Len(s) \in Nat
      /\ \A i \in 1 .. Len(t) : t[i] = s[i + 1] /\ i + 1 \in 1 .. Len(s) /\ 1 < i + 1
    BY QueueMoves
<1>2. Said(s, 1) /\ \A i \in 1 .. Len(t) : Said(t, i) => Said(s, i + 1)
    BY <1>1 DEF Said
<1>3. EchoFlow(t, h, d, m, r)
    BY EchoMoves DEF Moved
<1>4. \A line \in Nat : WasRelayed(line, r) => WasRelayed(line, a)
    BY IdsInQueues, <1>1, <1>2 DEF WasRelayed
<1>5. WasRelayed(s[1].line, a)
    <2>1. a[Len(r) + 1] = s[1].line /\ Len(r) + 1 \in 1 .. Len(a)
        BY IdsInQueues, <1>1, <1>2
    <2> QED
        BY <2>1 DEF WasRelayed
<1> HIDE DEF t
<1>9. \A i : Echoed(h, new, i) <=> Echoed(h, d, i)
    BY DEF Echoed
<1>6. Recent(t, h, new, m)
    BY <1>1, <1>2, <1>3, <1>9 DEF EchoFlow, Recent
<1>7. Aged(t, h, new, m)
    <2>1. \A i \in 1 .. Len(t) : Said(t, i) => Age(m, t[i].id) <= Age(m, new.id)
        BY <1>1, <1>2 DEF EchoFlow, Aged
    <2>2. \A i \in 1 .. Len(h) : Echoed(h, d, i) => Age(m, new.id) <= Age(m, h[i].id)
        BY <1>1, <1>2 DEF EchoFlow, Aged
    <2> QED
        BY <1>3, <1>9, <2>1, <2>2 DEF EchoFlow, Aged
<1>8. Tells(t, h, new, m, a)
    <2>1. m.line \in Nat
        BY DEF Mouths
    <2>2. m.say = "Sending" /\ new.id = m.id => s[1].line = m.line
        BY <1>1, <1>2 DEF EchoFlow, Tells
    <2> QED
        BY <1>3, <1>4, <1>5, <1>9, <2>1, <2>2 DEF EchoFlow, Tells
<1> QED
    BY <1>6, <1>7, <1>8 DEF EchoFlow, t

\* A record that is kept, or forgotten.
LEMMA EchoKept ==
    ASSUME NEW s, NEW h, NEW d, NEW m, NEW r, EchoFlow(s, h, d, m, r), NEW new,
           new.seen => d.seen /\ new.id = d.id, new.slot = d.slot \/ h = <<>>
    PROVE  EchoFlow(s, h, new, m, r)
<1>1. \A i \in 1 .. Len(h) : Echoed(h, new, i) => Echoed(h, d, i)
    BY DEF Echoed
<1> QED
    BY <1>1 DEF EchoFlow, Recent, Aged, Tells

\* The console goes on without the line it was saying.
LEMMA EchoDropped ==
    ASSUME NEW s, NEW h, NEW d, NEW m, NEW r, EchoFlow(s, h, d, m, r),
           NEW new, new.id = m.id, new.unheard = m.unheard, new.say # "Sending" \/ (new.say = m.say /\ new.line = m.line)
    PROVE  EchoFlow(s, h, d, new, r)
BY DEF EchoFlow, Recent, Aged, Tells, Age

\* It says a new line, and every id under way is one older.
LEMMA EchoNewLine ==
    ASSUME NEW s \in Seq(Says), NEW h \in Seq(Echoes), NEW d \in Desks, NEW m \in Mouths, NEW r,
           EchoFlow(s, h, d, m, r), m.id \in 0 .. SayIds, d.seen => d.id # 0 /\ d.id <= SayIds,
           m.unheard < MaxUnheard, NEW new \in Mouths, new.id = NextSayId(m.id), new.unheard = m.unheard + 1
    PROVE  EchoFlow(s, h, d, new, r)
<1>1. \A i \in 1 .. Len(s) : Said(s, i) =>
            /\ Age(m, s[i].id) \in Nat /\ Age(m, s[i].id) <= m.unheard
            /\ Age(new, s[i].id) = Age(m, s[i].id) + 1 /\ s[i].id # new.id
    BY IdsInQueues, AgeGrows, AgeFacts DEF EchoFlow, Recent
<1>2. \A i \in 1 .. Len(h) : Echoed(h, d, i) =>
            /\ Age(m, h[i].id) \in Nat /\ Age(m, h[i].id) <= m.unheard
            /\ Age(new, h[i].id) = Age(m, h[i].id) + 1 /\ h[i].id # new.id
    BY IdsInQueues, AgeGrows, AgeFacts DEF EchoFlow, Recent
<1>3. d.seen => /\ Age(m, d.id) \in Nat /\ Age(m, d.id) <= m.unheard
                /\ Age(new, d.id) = Age(m, d.id) + 1 /\ d.id # new.id
    BY AgeGrows, AgeFacts DEF Desks, EchoFlow, Recent
<1>4. m.unheard \in Nat
    BY DEF Mouths
<1>5. Recent(s, h, d, new)
    BY <1>1, <1>2, <1>3, <1>4 DEF Recent
<1>6. Aged(s, h, d, new)
    <2>1. ASSUME NEW i \in 1 .. Len(s), NEW j \in 1 .. Len(s), i < j, Said(s, i), Said(s, j)
          PROVE  Age(new, s[j].id) <= Age(new, s[i].id)
        <3>1. Age(m, s[j].id) <= Age(m, s[i].id)
            BY <2>1 DEF EchoFlow, Aged
        <3> QED
            BY <1>1, <2>1, <3>1
    <2>4. ASSUME NEW i \in 1 .. Len(h), NEW j \in 1 .. Len(h), i < j, Echoed(h, d, i), Echoed(h, d, j)
          PROVE  Age(new, h[j].id) <= Age(new, h[i].id)
        <3>1. Age(m, h[j].id) <= Age(m, h[i].id)
            BY <2>4 DEF EchoFlow, Aged
        <3> QED
            BY <1>2, <2>4, <3>1
    <2>2. \A i \in 1 .. Len(s), j \in 1 .. Len(h) : Said(s, i) /\ Echoed(h, d, j) => Age(new, s[i].id) <= Age(new, h[j].id)
        BY <1>1, <1>2 DEF EchoFlow, Aged
    <2>3. d.seen => /\ \A i \in 1 .. Len(s) : Said(s, i) => Age(new, s[i].id) <= Age(new, d.id)
                    /\ \A i \in 1 .. Len(h) : Echoed(h, d, i) => Age(new, d.id) <= Age(new, h[i].id)
        BY <1>1, <1>2, <1>3 DEF EchoFlow, Aged
    <2> QED
        BY <2>1, <2>2, <2>3, <2>4 DEF Aged
<1>7. Tells(s, h, d, new, r)
    BY <1>1, <1>2, <1>3 DEF Tells
<1> QED
    BY <1>5, <1>6, <1>7 DEF EchoFlow

\* It hears the echo of its newest id: whatever is behind it is as new.
LEMMA EchoHeard ==
    ASSUME NEW s \in Seq(Says), NEW h \in Seq(Echoes), NEW d \in Desks, NEW m \in Mouths, NEW r,
           EchoFlow(s, h, d, m, r), m.id \in 1 .. SayIds, d.seen => d.id # 0 /\ d.id <= SayIds,
           h # <<>>, Head(h).type = "CHAT", Head(h).slot = d.slot, Head(h).id = m.id, m.say = "Sending",
           NEW new, new.say # "Sending", new.id = m.id, new.unheard = 0
    PROVE  EchoFlow(s, Tail(h), d, new, r) /\ WasRelayed(m.line, r)
<1>1. /\ Head(h) = h[1] /\ 1 \in 1 .. Len(h) /\ Len(h) \in Nat
      /\ \A i \in 1 .. Len(Tail(h)) : Tail(h)[i] = h[i + 1] /\ i + 1 \in 1 .. Len(h) /\ 1 < i + 1
    BY QueueMoves
<1>2. Echoed(h, d, 1) /\ \A i \in 1 .. Len(Tail(h)) : Echoed(Tail(h), d, i) => Echoed(h, d, i + 1)
    BY <1>1 DEF Echoed
<1>3. Age(m, h[1].id) = 0
    BY <1>1, AgeFacts
<1>4. EchoFlow(s, Tail(h), d, m, r)
    BY EchoMoves DEF Moved
<1>5. \A id : Age(new, id) = Age(m, id)
    BY DEF Age
<1>6. Recent(s, Tail(h), d, new)
    BY <1>1, <1>2, <1>3, <1>5 DEF EchoFlow, Recent, Aged
<1>7. Aged(s, Tail(h), d, new) /\ Tells(s, Tail(h), d, new, r)
    BY <1>4, <1>5 DEF EchoFlow, Aged, Tells
<1>8. WasRelayed(m.line, r)
    BY <1>1, <1>2 DEF EchoFlow, Tells
<1> QED
    BY <1>6, <1>7, <1>8 DEF EchoFlow

\* A queue keeps what is true of all in it, as its head goes and as a packet
\* of which it is true comes last.
LEMMA NoLeaveKept ==
    ASSUME NEW s \in Seq(Says), NoLeave(s)
    PROVE  /\ \A t : Moved(t, s) => NoLeave(t)
           /\ \A p \in Says : p.type # "LEAVE" => NoLeave(Posted(s, p))
<1>1. ASSUME NEW t, Moved(t, s)
      PROVE  NoLeave(t)
    <2>1. PICK e \in {0, 1} : \A i \in 1 .. Len(t) : i + e \in 1 .. Len(s) /\ t[i] = s[i + e]
        BY <1>1, MovedQueue
    <2> QED
        BY <2>1 DEF NoLeave
<1>2. ASSUME NEW p \in Says, p.type # "LEAVE"
      PROVE  NoLeave(Posted(s, p))
    BY <1>2, QueueGrows DEF NoLeave
<1> QED
    BY <1>1, <1>2

LEMMA ToldKept ==
    ASSUME NEW h \in Seq(Echoes), NEW slot, AllTold(h, slot)
    PROVE  /\ \A t : Moved(t, h) => AllTold(t, slot)
           /\ \A p \in Echoes : (p.type = "LOBBY" => p.you = slot) => AllTold(Posted(h, p), slot)
<1>1. ASSUME NEW t, Moved(t, h)
      PROVE  AllTold(t, slot)
    <2>1. PICK e \in {0, 1} : \A i \in 1 .. Len(t) : i + e \in 1 .. Len(h) /\ t[i] = h[i + e]
        BY <1>1, MovedQueue
    <2> QED
        BY <2>1 DEF AllTold
<1>2. ASSUME NEW p \in Echoes, p.type = "LOBBY" => p.you = slot
      PROVE  AllTold(Posted(h, p), slot)
    BY <1>2, QueueGrows DEF AllTold
<1> QED
    BY <1>1, <1>2

\* What saying a line changes.
LEMMA SaidLine ==
    ASSUME lines \in Nat, mouth \in Mouths, mouth.id \in 0 .. SayIds, Say
    PROVE  /\ mouth' \in Mouths /\ mouth'.id = NextSayId(mouth.id) /\ mouth'.unheard = mouth.unheard + 1
           /\ mouth'.say = "Sending" /\ mouth'.id \in 1 .. SayIds
           /\ mouth'.state = mouth.state /\ mouth'.you = mouth.you /\ mouth'.joins = mouth.joins
<1>1. mouth.id \in Nat /\ mouth.unheard \in Nat
    BY DEF Mouths
<1>2. NextSayId(mouth.id) \in 1 .. SayIds
    BY ChatAssumption DEF NextSayId
<1>3. PICK line \in {0, lines + 1} :
            mouth' = [mouth EXCEPT !.say = "Sending", !.id = NextSayId(@), !.line = line, !.unheard = @ + 1]
    BY DEF Say, Cleaned
<1>4. line \in Nat /\ NextSayId(mouth.id) \in Nat /\ mouth.unheard + 1 \in Nat
    BY <1>1, <1>2
<1>5. mouth' = [state |-> mouth.state, you |-> mouth.you, say |-> "Sending", id |-> NextSayId(mouth.id),
                line |-> line, unheard |-> mouth.unheard + 1, joins |-> mouth.joins]
    BY <1>3 DEF Mouths
<1>6. mouth' \in Mouths
    BY <1>4, <1>5 DEF Mouths
<1> QED
    BY <1>2, <1>5, <1>6

\* What relaying a line changes of the server's record, ...
LEMMA NotedDesk ==
    ASSUME desk \in Desks, Head(saying).id \in Nat,
           desk' = [desk EXCEPT !.seen = TRUE, !.id = Head(saying).id, !.tokens = @ - 1]
    PROVE  /\ desk' \in Desks /\ desk'.seen = TRUE /\ desk'.id = Head(saying).id
           /\ desk'.seated = desk.seated /\ desk'.slot = desk.slot
<1>1. desk' = [seated |-> desk.seated, slot |-> desk.slot, seen |-> TRUE, id |-> Head(saying).id,
              tokens |-> desk.tokens - 1]
    BY DEF Desks
<1>2. desk.tokens - 1 \in Int /\ desk.seated \in BOOLEAN /\ desk.slot \in Nat
    BY DEF Desks
<1>3. desk' \in Desks
    BY <1>1, <1>2, Zenon DEF Desks
<1>4. desk'.seen = TRUE /\ desk'.id = Head(saying).id /\ desk'.seated = desk.seated /\ desk'.slot = desk.slot
    BY <1>1, Zenon
<1> QED
    BY <1>3, <1>4, Zenon

\* ... and what a JOIN or LEAVE does.
LEMMA SeatedDesk ==
    ASSUME desk \in Desks, ServeSeat
    PROVE  /\ desk' \in Desks /\ (desk'.seen => desk.seen /\ desk'.id = desk.id)
           /\ Head(saying).type = "JOIN" => desk'.seated /\ (desk.seated => desk' = desk)
           /\ Head(saying).type = "JOIN" => hearing' = Posted(hearing, RoomPacket(desk'.slot))
<1>1. CASE Head(saying).type = "JOIN"
    <2>1. CASE desk.seated
        BY <1>1, <2>1 DEF ServeSeat
    <2>2. CASE ~desk.seated
        <3>1. PICK slot \in ChatSlots : desk' = [desk EXCEPT !.seated = TRUE, !.slot = slot, !.seen = FALSE]
            BY <1>1, <2>2 DEF ServeSeat
        <3>2. slot \in Nat
            BY ChatAssumption
        <3>3. desk' \in Desks /\ desk'.seated = TRUE /\ desk'.seen = FALSE
            BY <3>1, <3>2 DEF Desks
        <3>4. hearing' = Posted(hearing, RoomPacket(desk'.slot))
            BY <1>1 DEF ServeSeat
        <3> QED
            BY <2>2, <3>3, <3>4
    <2> QED
        BY <2>1, <2>2
<1>2. CASE Head(saying).type # "JOIN"
    <2>1. desk' = [desk EXCEPT !.seated = FALSE]
        BY <1>2 DEF ServeSeat
    <2> QED
        BY <1>2, <2>1 DEF Desks
<1> QED
    BY <1>1, <1>2

\* The types hold in every visit.
LEMMA EchoTypesKept ==
    ASSUME EchoTypes, ChatNext
    PROVE  EchoTypes'
<1> DEFINE s == saying  h == hearing  d == desk  m == mouth  r == relayed
<1>1. /\ lines \in Nat /\ m \in Mouths /\ d \in Desks /\ s \in Seq(Says) /\ h \in Seq(Echoes) /\ r \in Seq(Nat)
      /\ m.id \in 0 .. SayIds /\ m.unheard <= MaxUnheard /\ (m.say = "Sending" => m.id # 0)
      /\ (d.seen => d.id # 0 /\ d.id <= SayIds)
    BY DEF EchoTypes
<1>2. ASSUME lines' \in Nat, m' \in Mouths, d' \in Desks, s' \in Seq(Says), h' \in Seq(Echoes), r' \in Seq(Nat),
             m'.id \in 0 .. SayIds, m'.unheard <= MaxUnheard, m'.say = "Sending" => m'.id # 0,
             d'.seen => d'.id # 0 /\ d'.id <= SayIds
      PROVE  EchoTypes'
    BY <1>2 DEF EchoTypes
<1>12. \A p \in Says : Posted(s, p) \in Seq(Says)
    BY <1>1 DEF Posted
<1>13. \A p \in Echoes : Posted(h, p) \in Seq(Echoes) /\ Append(h, p) \in Seq(Echoes)
    BY <1>1 DEF Posted
<1>14. /\ \A slot \in Nat, id \in 1 .. SayIds : ChatPacket(slot, id) \in Echoes
       /\ \A slot \in Nat : RoomPacket(slot) \in Echoes
       /\ d.slot \in Nat
    BY <1>1 DEF ChatPacket, RoomPacket, Echoes, Desks
<1>3. CASE ChatJoin \/ ChatLeave \/ SayFails
    <2>1. /\ m' \in Mouths /\ m'.id = m.id /\ m'.unheard = m.unheard /\ m'.say # "Sending"
        <3>1. CASE ChatJoin
            <4>1. m' = [state |-> "Joining", you |-> m.you, say |-> "Idle", id |-> m.id, line |-> 0,
                        unheard |-> m.unheard, joins |-> m.joins + 1]
                BY <1>1, <3>1 DEF ChatJoin, Mouths
            <4>2. m.joins + 1 \in Nat
                BY <1>1 DEF Mouths
            <4> QED
                BY <1>1, <4>1, <4>2 DEF Mouths
        <3>2. CASE ChatLeave
            BY <1>1, <3>2 DEF ChatLeave, Mouths
        <3>3. CASE SayFails
            BY <1>1, <3>3 DEF SayFails, Mouths
        <3> QED
            BY <1>3, <3>1, <3>2, <3>3
    <2>2. \/ s' = s
          \/ s' = Posted(s, [type |-> "LEAVE"])
        BY <1>3 DEF ChatJoin, ChatLeave, SayFails, SendsOut
    <2>3. [type |-> "LEAVE"] \in Says
        BY DEF Says, SeatPacket
    <2> QED
        BY <1>1, <1>2, <1>3, <1>12, <2>1, <2>2, <2>3 DEF ChatJoin, ChatLeave, SayFails
<1>4. CASE Say
    <2>1. /\ m' \in Mouths /\ m'.id = NextSayId(m.id) /\ m'.unheard = m.unheard + 1
          /\ m'.id \in 1 .. SayIds
        BY <1>1, <1>4, SaidLine
    <2>3. m.unheard \in Nat /\ m.unheard < MaxUnheard /\ lines' \in Nat
        BY <1>1, <1>4 DEF Say, Mouths
    <2> QED
        BY <1>1, <1>2, <1>4, <2>1, <2>3, ChatAssumption DEF Say
<1>5. CASE SayAgain
    <2>1. CASE s' = Posted(s, [type |-> "JOIN"])
        <3>1. [type |-> "JOIN"] \in Says
            BY DEF Says, SeatPacket
        <3> QED
            BY <1>1, <1>2, <1>5, <1>12, <2>1, <3>1 DEF SayAgain
    <2>2. CASE m.say = "Sending" /\ s' = Posted(s, [type |-> "SAY", id |-> m.id, line |-> m.line])
        <3>1. [type |-> "SAY", id |-> m.id, line |-> m.line] \in Says
            BY <1>1, <2>2 DEF Says, Mouths
        <3> QED
            BY <1>1, <1>2, <1>5, <1>12, <2>2, <3>1 DEF SayAgain
    <2> QED
        BY <1>5, <2>1, <2>2 DEF SayAgain, SendsOut
<1>6. CASE Hears
    <2>1. h # <<>> /\ h' = Tail(h) /\ UNCHANGED <<desk, saying, relayed, lines>>
        BY <1>6 DEF Hears
    <2>2. Tail(h) \in Seq(Echoes) /\ Head(h) \in Echoes
        BY <1>1, <2>1, QueueMoves
    <2>3. CASE m' = m
        BY <1>1, <1>2, <2>1, <2>2, <2>3
    <2>4. CASE Head(h).type = "LOBBY" /\ m' = [m EXCEPT !.state = "Lobby", !.you = Head(h).you]
        <3>1. Head(h).you \in Nat
            BY <2>2, <2>4 DEF Echoes
        <3>2. m' \in Mouths /\ m'.id = m.id /\ m'.unheard = m.unheard /\ m'.say = m.say
            BY <1>1, <2>4, <3>1 DEF Mouths
        <3> QED
            BY <1>1, <1>2, <2>1, <2>2, <3>2
    <2>5. CASE m' = [m EXCEPT !.say = "Sent", !.unheard = 0]
        <3>1. m' \in Mouths /\ m'.id = m.id /\ m'.unheard = 0 /\ m'.say = "Sent"
            BY <1>1, <2>5 DEF Mouths
        <3> QED
            BY <1>1, <1>2, <2>1, <2>2, <3>1, ChatAssumption
    <2> QED
        BY <1>6, <2>3, <2>4, <2>5 DEF Hears
<1>7. CASE ServeSay
    <2>1. /\ s # <<>> /\ Head(s).type = "SAY" /\ s' = Tail(s) /\ UNCHANGED <<mouth, lines>>
        BY <1>7 DEF ServeSay
    <2>2. Tail(s) \in Seq(Says) /\ Head(s).id \in 1 .. SayIds /\ Head(s).line \in Nat
        <3>1. Said(s, 1) /\ 1 \in 1 .. Len(s) /\ Head(s) = s[1] /\ Tail(s) \in Seq(Says)
            BY <1>1, <2>1, QueueMoves DEF Said
        <3> QED
            BY <1>1, <3>1, IdsInQueues
    <2>3. CASE UNCHANGED <<desk, hearing, relayed>>
        BY <1>1, <1>2, <2>1, <2>2, <2>3
    <2>4. CASE IsRepeat(Head(s)) /\ h' = EchoAgain(Head(s)) /\ UNCHANGED <<desk, relayed>>
        <3>1. d.seen /\ d.id \in 1 .. SayIds
            BY <1>1, <2>4 DEF IsRepeat, Desks
        <3>2. h' \in Seq(Echoes)
            BY <1>13, <1>14, <2>4, <3>1 DEF EchoAgain
        <3> QED
            BY <1>1, <1>2, <2>1, <2>2, <2>4, <3>2
    <2>5. CASE /\ d' = [d EXCEPT !.seen = TRUE, !.id = Head(s).id, !.tokens = @ - 1]
               /\ h' = Posted(h, ChatPacket(d.slot, Head(s).id))
               /\ r' = Append(r, Head(s).line)
        <3>1. d' \in Desks /\ d'.seen = TRUE /\ d'.id = Head(s).id
            BY <1>1, <2>2, <2>5, NotedDesk
        <3>2. h' \in Seq(Echoes) /\ r' \in Seq(Nat)
            BY <1>1, <1>13, <1>14, <2>2, <2>5
        <3> QED
            BY <1>1, <1>2, <2>1, <2>2, <3>1, <3>2
    <2> QED
        BY <1>7, <2>3, <2>4, <2>5 DEF ServeSay
<1>8. CASE ServeSeat
    <2>1. /\ s # <<>> /\ s' = Tail(s) /\ UNCHANGED <<mouth, relayed, lines>>
          /\ h' = h \/ h' = Posted(h, RoomPacket(d'.slot))
        BY <1>8 DEF ServeSeat
    <2>2. d' \in Desks /\ (d'.seen => d.seen /\ d'.id = d.id)
        BY <1>1, <1>8, SeatedDesk
    <2>3. Tail(s) \in Seq(Says) /\ d'.slot \in Nat
        BY <1>1, <2>1, <2>2, QueueMoves DEF Desks
    <2>5. h' \in Seq(Echoes)
        BY <1>1, <1>13, <1>14, <2>1, <2>3
    <2> QED
        BY <1>1, <1>2, <2>1, <2>2, <2>3, <2>5
<1>9. CASE TellsRoom \/ OthersSay
    <2>1. UNCHANGED <<mouth, desk, saying, relayed, lines>>
        BY <1>9 DEF TellsRoom, OthersSay
    <2>2. h' \in Seq(Echoes)
        BY <1>9, <1>13, <1>14, ChatAssumption DEF TellsRoom, OthersSay
    <2> QED
        BY <1>1, <1>2, <2>1, <2>2
<1>10. CASE Refill
    <2>1. d' \in Desks /\ d'.seen = d.seen /\ d'.id = d.id
        <3>1. d' = [d EXCEPT !.tokens = @ + 1] /\ d.tokens + 1 \in Int
            BY <1>1, <1>10 DEF Refill, Desks
        <3> QED
            BY <1>1, <3>1 DEF Desks
    <2> QED
        BY <1>1, <1>2, <1>10, <2>1 DEF Refill
<1>11. CASE LosePacket
    <2>1. Moved(s', s) /\ Moved(h', h) /\ UNCHANGED <<mouth, desk, relayed, lines>>
        BY <1>11 DEF LosePacket, Moved
    <2>2. s' \in Seq(Says) /\ h' \in Seq(Echoes)
        BY <1>1, <2>1, MovedQueue
    <2> QED
        BY <1>1, <1>2, <2>1, <2>2
<1> QED
    BY <1>3, <1>4, <1>5, <1>6, <1>7, <1>8, <1>9, <1>10, <1>11 DEF ChatNext

\* Each step of the first visit keeps the echoes in order.
LEMMA FirstFlowKept ==
    ASSUME EchoTypes, EchoTypes', FirstFlow(saying, hearing, desk, mouth, relayed), InFirst(mouth), InFirst(mouth'),
           ChatNext
    PROVE  FirstFlow(saying', hearing', desk', mouth', relayed')
<1> DEFINE s == saying  h == hearing  d == desk  m == mouth  r == relayed
<1>1. /\ m \in Mouths /\ d \in Desks /\ s \in Seq(Says) /\ h \in Seq(Echoes) /\ r \in Seq(Nat)
      /\ m.id \in 0 .. SayIds /\ (m.say = "Sending" => m.id # 0) /\ (d.seen => d.id # 0 /\ d.id <= SayIds)
      /\ m' \in Mouths /\ d' \in Desks /\ s' \in Seq(Says) /\ h' \in Seq(Echoes)
      /\ (d'.seen => d'.id # 0 /\ d'.id <= SayIds)
      /\ lines \in Nat
    BY DEF EchoTypes
<1>2. /\ EchoFlow(s, h, d, m, r) /\ NoLeave(s) /\ AllTold(h, d.slot) /\ (~d.seated => h = <<>>)
      /\ (m.state = "Lobby" => d.seated /\ m.you = d.slot)
    BY DEF FirstFlow
<1>3. ASSUME EchoFlow(s', h', d', m', r'), NoLeave(s'), AllTold(h', d'.slot), ~d'.seated => h' = <<>>,
             m'.state = "Lobby" => d'.seated /\ m'.you = d'.slot
      PROVE  FirstFlow(s', h', d', m', r')
    BY <1>3 DEF FirstFlow
<1>4. m.joins = 1 /\ m.state # "Browse" /\ m'.joins = 1 /\ m'.state # "Browse"
    BY DEF InFirst
<1>5. ~ChatJoin /\ ~ChatLeave
    BY <1>1, <1>4 DEF ChatJoin, ChatLeave, Mouths
<1>6. CASE SayFails
    <2>1. m' = [m EXCEPT !.say = "Failed", !.line = 0] /\ s' = s /\ h' = h /\ d' = d /\ r' = r
        BY <1>6 DEF SayFails
    <2>2. m'.id = m.id /\ m'.unheard = m.unheard /\ m'.say # "Sending" /\ m'.state = m.state /\ m'.you = m.you
        BY <1>1, <2>1 DEF Mouths
    <2>3. EchoFlow(s, h, d, m', r)
        BY <1>2, <2>2, EchoDropped
    <2> QED
        BY <1>2, <1>3, <2>1, <2>2, <2>3
<1>7. CASE Say
    <2>1. m.unheard < MaxUnheard /\ s' = s /\ h' = h /\ d' = d /\ r' = r
        BY <1>7 DEF Say
    <2>2. /\ m'.id = NextSayId(m.id) /\ m'.unheard = m.unheard + 1
          /\ m'.state = m.state /\ m'.you = m.you
        BY <1>1, <1>7, SaidLine
    <2>3. EchoFlow(s, h, d, m', r)
        BY <1>1, <1>2, <2>1, <2>2, EchoNewLine
    <2> QED
        BY <1>2, <1>3, <2>1, <2>2, <2>3
<1>8. CASE SayAgain
    <2>1. PICK p \in Says : /\ s' = Posted(s, p) /\ p.type # "LEAVE"
                            /\ p.type = "SAY" => m.id # 0 /\ p.id = m.id /\ p.line = m.line
        <3>1. CASE s' = Posted(s, [type |-> "JOIN"])
            <4>1. [type |-> "JOIN"] \in Says
                BY DEF Says, SeatPacket
            <4> QED
                BY <3>1, <4>1
        <3>2. CASE m.say = "Sending" /\ s' = Posted(s, [type |-> "SAY", id |-> m.id, line |-> m.line])
            <4>1. [type |-> "SAY", id |-> m.id, line |-> m.line] \in Says
                BY <1>1, <3>2 DEF Says, Mouths
            <4> QED
                BY <1>1, <3>2, <4>1
        <3> QED
            BY <1>8, <3>1, <3>2 DEF SayAgain, SendsOut
    <2>2. EchoFlow(s', h, d, m, r) /\ NoLeave(s')
        BY <1>1, <1>2, <2>1, EchoSends, NoLeaveKept
    <2>3. m' = m /\ h' = h /\ d' = d /\ r' = r
        BY <1>8 DEF SayAgain
    <2> QED
        BY <1>2, <1>3, <2>2, <2>3
<1>9. CASE Hears
    <2>1. h # <<>> /\ h' = Tail(h) /\ s' = s /\ d' = d /\ r' = r
        BY <1>9 DEF Hears
    <2>6. Moved(h', h) /\ Moved(s, s)
        BY <2>1 DEF Moved
    <2>2. /\ EchoFlow(s, h', d, m, r) /\ Head(h) \in Echoes /\ AllTold(h', d.slot)
          /\ Head(h) = h[1] /\ 1 \in 1 .. Len(h)
        BY <1>1, <1>2, <2>1, <2>6, EchoMoves, ToldKept, QueueMoves
    <2>3. CASE m' = m
        BY <1>2, <1>3, <2>1, <2>2, <2>3
    <2>4. CASE Head(h).type = "LOBBY" /\ m' = [m EXCEPT !.state = "Lobby", !.you = Head(h).you]
        <3>1. m'.id = m.id /\ m'.unheard = m.unheard /\ m'.say = m.say /\ m'.line = m.line /\ m'.you = Head(h).you
            BY <1>1, <2>4 DEF Mouths
        <3>2. EchoFlow(s, h', d, m', r)
            BY <2>2, <3>1, EchoDropped
        <3>3. d.seated /\ Head(h).you = d.slot
            BY <1>2, <2>1, <2>2, <2>4 DEF AllTold
        <3> QED
            BY <1>2, <1>3, <2>1, <2>2, <3>1, <3>2, <3>3
    <2>5. CASE /\ Head(h).type = "CHAT" /\ m.state = "Lobby" /\ IsEcho(Head(h))
               /\ m' = [m EXCEPT !.say = "Sent", !.unheard = 0]
        <3>1. m'.id = m.id /\ m'.unheard = 0 /\ m'.say = "Sent" /\ m'.state = m.state /\ m'.you = m.you
            BY <1>1, <2>5 DEF Mouths
        <3>2. Head(h).slot = d.slot /\ Head(h).id = m.id /\ m.say = "Sending" /\ m.id \in 1 .. SayIds
            BY <1>1, <1>2, <2>5 DEF IsEcho
        <3>3. EchoFlow(s, h', d, m', r)
            BY <1>1, <1>2, <2>1, <2>5, <3>1, <3>2, EchoHeard
        <3> QED
            BY <1>2, <1>3, <2>1, <2>2, <3>1, <3>3
    <2> QED
        BY <1>9, <2>3, <2>4, <2>5 DEF Hears
<1>10. CASE ServeSay
    <2>1. s # <<>> /\ Head(s).type = "SAY" /\ s' = Tail(s) /\ m' = m
        BY <1>10 DEF ServeSay
    <2>2. EchoFlow(s', h, d, m, r) /\ NoLeave(s')
        BY <1>1, <1>2, <2>1, EchoMoves, NoLeaveKept DEF Moved
    <2>3. CASE d' = d /\ h' = h /\ r' = r
        BY <1>2, <1>3, <2>1, <2>2, <2>3
    <2>4. CASE d.seated /\ IsRepeat(Head(s)) /\ h' = Posted(h, ChatPacket(d.slot, d.id)) /\ d' = d /\ r' = r
        <3>1. ChatPacket(d.slot, d.id) \in Echoes /\ ChatPacket(d.slot, d.id).id = d.id
              /\ ChatPacket(d.slot, d.id).type = "CHAT" /\ d.seen
            BY <1>1, <2>4 DEF IsRepeat, ChatPacket, Echoes, Desks
        <3>2. EchoFlow(s', h', d, m, r) /\ AllTold(h', d.slot)
            BY <1>1, <1>2, <2>2, <2>4, <3>1, EchoTold, ToldKept
        <3> QED
            BY <1>2, <1>3, <2>1, <2>2, <2>4, <3>2
    <2>5. CASE /\ d' = [d EXCEPT !.seen = TRUE, !.id = Head(s).id, !.tokens = @ - 1] /\ d.seated
               /\ h' = Posted(h, ChatPacket(d.slot, Head(s).id))
               /\ r' = Append(r, Head(s).line)
        <3>1. Head(s).id \in 1 .. SayIds
            <4>1. Said(s, 1) /\ 1 \in 1 .. Len(s) /\ Head(s) = s[1]
                BY <1>1, <2>1, QueueMoves DEF Said
            <4> QED
                BY <1>1, <4>1, IdsInQueues
        <3>8. Head(s).id \in Nat /\ d' = [d EXCEPT !.seen = TRUE, !.id = Head(s).id, !.tokens = @ - 1]
            BY <2>5, <3>1
        <3>2. d'.seen = TRUE /\ d'.id = Head(s).id /\ d'.slot = d.slot /\ d'.seated = d.seated
            BY <1>1, <3>8, NotedDesk
        <3>3. EchoFlow(s', h, d', m, r')
            BY <1>1, <1>2, <2>1, <2>5, <3>2, EchoNoted
        <3>4. ChatPacket(d.slot, d'.id) \in Echoes /\ ChatPacket(d.slot, d'.id).id = d'.id
              /\ ChatPacket(d.slot, d'.id).type = "CHAT"
            BY <1>1, <3>1, <3>2 DEF ChatPacket, Echoes, Desks
        <3>5. h' = Posted(h, ChatPacket(d.slot, d'.id))
            BY <2>5, <3>2
        <3>6. EchoFlow(s', h', d', m, r')
            BY <1>1, <3>2, <3>3, <3>4, <3>5, EchoTold
        <3>7. AllTold(h', d'.slot)
            BY <1>1, <1>2, <3>2, <3>4, <3>5, ToldKept
        <3> QED
            BY <1>2, <1>3, <2>1, <2>2, <2>5, <3>2, <3>6, <3>7
    <2> QED
        BY <1>10, <2>3, <2>4, <2>5 DEF ServeSay, EchoAgain
<1>11. CASE ServeSeat
    <2>1. s # <<>> /\ s' = Tail(s) /\ m' = m /\ r' = r /\ Head(s).type \in {"JOIN", "LEAVE"}
        BY <1>11 DEF ServeSeat
    <2>2. Head(s).type = "JOIN"
        BY <1>1, <1>2, <2>1, QueueMoves DEF NoLeave
    <2>3. /\ (d'.seen => d.seen /\ d'.id = d.id) /\ d'.seated /\ (d.seated => d' = d)
          /\ h' = Posted(h, RoomPacket(d'.slot))
        BY <1>1, <1>11, <2>2, SeatedDesk
    <2>4. d'.slot = d.slot \/ h = <<>>
        BY <1>2, <2>3
    <2>5. EchoFlow(s', h, d', m, r) /\ NoLeave(s')
        BY <1>1, <1>2, <2>1, <2>3, <2>4, EchoMoves, EchoKept, NoLeaveKept DEF Moved
    <2>6. AllTold(h, d'.slot)
        BY <1>2, <2>4 DEF AllTold
    <2>7. RoomPacket(d'.slot) \in Echoes /\ RoomPacket(d'.slot).type = "LOBBY" /\ RoomPacket(d'.slot).you = d'.slot
        BY <1>1 DEF RoomPacket, Echoes, Desks
    <2>8. EchoFlow(s', h', d', m, r) /\ AllTold(h', d'.slot)
        BY <1>1, <2>3, <2>5, <2>6, <2>7, EchoTold, ToldKept
    <2> QED
        BY <1>2, <1>3, <2>1, <2>3, <2>5, <2>8
<1>12. CASE TellsRoom \/ OthersSay
    <2>1. s' = s /\ d' = d /\ m' = m /\ r' = r /\ d.seated /\ Len(h) + 1 < ChatCapacity
        BY <1>12 DEF TellsRoom, OthersSay
    <2>2. PICK p \in Echoes : /\ h' = Append(h, p) /\ (p.type = "LOBBY" => p.you = d.slot)
                              /\ ~(p.type = "CHAT" /\ p.slot = d.slot)
        <3>1. CASE TellsRoom
            <4>1. RoomPacket(d.slot) \in Echoes /\ RoomPacket(d.slot).type = "LOBBY" /\ RoomPacket(d.slot).you = d.slot
                BY <1>1 DEF RoomPacket, Echoes, Desks
            <4> QED
                BY <3>1, <4>1 DEF TellsRoom
        <3>2. CASE OthersSay
            <4>1. PICK slot \in ChatSlots \ {d.slot}, id \in 1 .. SayIds : h' = Append(h, ChatPacket(slot, id))
                BY <3>2 DEF OthersSay
            <4>2. ChatPacket(slot, id) \in Echoes /\ ChatPacket(slot, id).type = "CHAT" /\ ChatPacket(slot, id).slot = slot
                BY ChatAssumption DEF ChatPacket, Echoes
            <4> QED
                BY <4>1, <4>2
        <3> QED
            BY <1>12, <3>1, <3>2
    <2>3. h' = Posted(h, p)
        BY <1>1, <2>1, <2>2, ChatAssumption DEF Posted
    <2>4. EchoFlow(s, h', d, m, r) /\ AllTold(h', d.slot)
        BY <1>1, <1>2, <2>2, <2>3, EchoTold, ToldKept
    <2> QED
        BY <1>2, <1>3, <2>1, <2>4
<1>13. CASE Refill
    <2>1. s' = s /\ h' = h /\ m' = m /\ r' = r /\ d' = [d EXCEPT !.tokens = @ + 1]
        BY <1>13 DEF Refill
    <2>2. d'.seen = d.seen /\ d'.id = d.id /\ d'.slot = d.slot /\ d'.seated = d.seated
        BY <1>1, <2>1 DEF Desks
    <2>3. EchoFlow(s, h, d', m, r)
        BY <1>2, <2>2, EchoKept
    <2> QED
        BY <1>2, <1>3, <2>1, <2>2, <2>3
<1>14. CASE LosePacket
    <2>1. Moved(s', s) /\ Moved(h', h) /\ m' = m /\ d' = d /\ r' = r
        BY <1>14 DEF LosePacket, Moved
    <2>2. EchoFlow(s', h', d, m, r) /\ NoLeave(s') /\ AllTold(h', d.slot)
        BY <1>1, <1>2, <2>1, EchoMoves, NoLeaveKept, ToldKept
    <2>3. h = <<>> => h' = <<>>
        BY <2>1 DEF Moved
    <2> QED
        BY <1>2, <1>3, <2>1, <2>2, <2>3
<1> QED
    BY <1>5, <1>6, <1>7, <1>8, <1>9, <1>10, <1>11, <1>12, <1>13, <1>14 DEF ChatNext

\* Before its first visit nothing is under way, ...
LEMMA UnvisitedKept ==
    ASSUME EchoTypes, Unvisited, ChatNext
    PROVE  /\ Unvisited'
           /\ InFirst(mouth') => InFirst(mouth) \/ (mouth.joins = 0 /\ ChatJoin)
<1>1. mouth \in Mouths /\ desk \in Desks
    BY DEF EchoTypes
<1>2. CASE ChatJoin
    <2>1. mouth'.joins = mouth.joins + 1 /\ mouth.joins \in Nat
        BY <1>1, <1>2 DEF ChatJoin, Mouths
    <2> QED
        BY <1>2, <2>1 DEF Unvisited, InFirst
<1>3. CASE mouth.joins # 0 /\ ~ChatJoin
    <2>1. mouth'.joins = mouth.joins /\ (mouth.state = "Browse" => mouth'.state = "Browse")
        BY <1>1, <1>3 DEF ChatNext, ChatLeave, Say, SayAgain, SayFails, Hears, ServeSay, ServeSeat, TellsRoom,
            OthersSay, Refill, LosePacket, Mouths
    <2> QED
        BY <1>3, <2>1 DEF Unvisited, InFirst
<1>4. CASE mouth.joins = 0 /\ ~ChatJoin
    <2>1. mouth.state = "Browse" /\ saying = <<>> /\ hearing = <<>> /\ ~desk.seated /\ ~desk.seen
        BY <1>4 DEF Unvisited
    <2>2. Refill
        BY <1>4, <2>1 DEF ChatNext, ChatLeave, Say, SayAgain, SayFails, Hears, ServeSay, ServeSeat, TellsRoom,
            OthersSay, LosePacket
    <2>3. desk' = [desk EXCEPT !.tokens = @ + 1] /\ UNCHANGED <<mouth, saying, hearing>>
        BY <2>2 DEF Refill
    <2>4. ~desk'.seated /\ ~desk'.seen
        BY <1>1, <2>1, <2>3 DEF Desks
    <2> QED
        BY <1>4, <2>1, <2>3, <2>4 DEF Unvisited, InFirst
<1> QED
    BY <1>2, <1>3, <1>4

\* ... so it begins in order.
LEMMA FirstJoin ==
    ASSUME EchoTypes, Unvisited, mouth.joins = 0, ChatJoin
    PROVE  FirstFlow(saying', hearing', desk', mouth', relayed')
<1>1. saying' = <<>> /\ hearing' = <<>> /\ ~desk'.seen /\ mouth'.state = "Joining"
    BY DEF ChatJoin, Unvisited, EchoTypes, Mouths
<1>2. EchoFlow(saying', hearing', desk', mouth', relayed')
    BY <1>1 DEF EchoFlow, Recent, Aged, Tells, Said, Echoed
<1> QED
    BY <1>1, <1>2 DEF FirstFlow, NoLeave, AllTold

\* What the console reports was relayed.
LEMMA SentKept ==
    ASSUME EchoTypes, SentWasRelayed, ChatNext,
           InFirst(mouth) => FirstFlow(saying, hearing, desk, mouth, relayed)
    PROVE  SentWasRelayed'
<1>1. /\ mouth \in Mouths /\ desk \in Desks /\ saying \in Seq(Says) /\ hearing \in Seq(Echoes)
      /\ relayed \in Seq(Nat) /\ mouth.id \in 0 .. SayIds /\ (mouth.say = "Sending" => mouth.id # 0)
      /\ (desk.seen => desk.id # 0 /\ desk.id <= SayIds)
    BY DEF EchoTypes
<1>2. CASE /\ mouth'.say = mouth.say /\ mouth'.line = mouth.line /\ mouth'.joins = mouth.joins
           /\ UNCHANGED relayed
    BY <1>2 DEF SentWasRelayed
<1>3. CASE ChatJoin \/ ChatLeave \/ Say \/ SayFails
    <2>1. mouth'.say # "Sent"
        BY <1>1, <1>3 DEF ChatJoin, ChatLeave, Say, SayFails, Mouths
    <2> QED
        BY <2>1 DEF SentWasRelayed
<1>4. CASE SayAgain \/ ServeSeat \/ TellsRoom \/ OthersSay \/ Refill \/ LosePacket
    BY <1>2, <1>4 DEF SayAgain, ServeSeat, TellsRoom, OthersSay, Refill, LosePacket
<1>5. CASE ServeSay
    <2>1. saying # <<>> /\ Head(saying).type = "SAY" /\ UNCHANGED mouth
        BY <1>5 DEF ServeSay
    <2>2. CASE UNCHANGED relayed
        BY <1>2, <2>1, <2>2
    <2>3. CASE relayed' = Append(relayed, Head(saying).line)
        <3>1. Said(saying, 1) /\ 1 \in 1 .. Len(saying) /\ Head(saying) = saying[1]
            BY <1>1, <2>1, QueueMoves DEF Said
        <3>2. Head(saying).line \in Nat
            BY <1>1, <3>1, IdsInQueues
        <3>3. \A i \in 1 .. Len(relayed) : i \in 1 .. Len(relayed') /\ relayed'[i] = relayed[i]
            BY <1>1, <2>3, <3>2
        <3> QED
            BY <2>1, <3>3 DEF SentWasRelayed
    <2> QED
        BY <1>5, <2>2, <2>3 DEF ServeSay
<1>6. CASE Hears
    <2>1. UNCHANGED relayed /\ hearing # <<>>
        BY <1>6 DEF Hears
    <2>2. CASE mouth' = mouth
        BY <1>2, <2>1, <2>2
    <2>3. CASE mouth' = [mouth EXCEPT !.state = "Lobby", !.you = Head(hearing).you]
        <3>1. mouth'.say = mouth.say /\ mouth'.line = mouth.line /\ mouth'.joins = mouth.joins
            BY <1>1, <2>3 DEF Mouths
        <3> QED
            BY <1>2, <2>1, <3>1
    <2>4. CASE /\ Head(hearing).type = "CHAT" /\ mouth.state = "Lobby" /\ IsEcho(Head(hearing))
               /\ mouth' = [mouth EXCEPT !.say = "Sent", !.unheard = 0] /\ mouth.joins = 1
        <3>1. mouth'.id = mouth.id /\ mouth'.unheard = 0 /\ mouth'.say = "Sent" /\ mouth'.line = mouth.line
            BY <1>1, <2>4 DEF Mouths
        <3>2. EchoFlow(saying, hearing, desk, mouth, relayed) /\ mouth.you = desk.slot
            BY <2>4 DEF InFirst, FirstFlow
        <3>3. Head(hearing).slot = desk.slot /\ Head(hearing).id = mouth.id /\ mouth.say = "Sending"
              /\ mouth.id \in 1 .. SayIds
            BY <1>1, <2>4, <3>2 DEF IsEcho
        <3>4. WasRelayed(mouth.line, relayed)
            BY <1>1, <2>1, <2>4, <3>1, <3>2, <3>3, EchoHeard
        <3> QED
            BY <2>1, <3>1, <3>4 DEF SentWasRelayed, WasRelayed
    <2>5. CASE mouth' = [mouth EXCEPT !.say = "Sent", !.unheard = 0] /\ mouth.joins # 1
        BY <1>1, <2>5 DEF SentWasRelayed, Mouths
    <2> QED
        BY <1>6, <2>2, <2>3, <2>4, <2>5 DEF Hears
<1> QED
    BY <1>3, <1>4, <1>5, <1>6 DEF ChatNext

\* Together, each step keeps the invariant.
LEMMA EchoStepKept ==
    ASSUME EchoInv, ChatNext
    PROVE  EchoInv'
<1>1. /\ EchoTypes /\ Unvisited /\ SentWasRelayed
      /\ InFirst(mouth) => FirstFlow(saying, hearing, desk, mouth, relayed)
    BY DEF EchoInv
<1>2. EchoTypes'
    BY <1>1, EchoTypesKept
<1>3. /\ Unvisited'
      /\ InFirst(mouth') => InFirst(mouth) \/ (mouth.joins = 0 /\ ChatJoin)
    BY <1>1, UnvisitedKept
<1>4. SentWasRelayed'
    BY <1>1, SentKept
<1>5. InFirst(mouth') => FirstFlow(saying', hearing', desk', mouth', relayed')
    BY <1>1, <1>2, <1>3, FirstFlowKept, FirstJoin
<1> QED
    BY <1>2, <1>3, <1>4, <1>5 DEF EchoInv, InFirst

\* In the console's first visit, a line that it reports as said was relayed,
\* though ids come back, echoes of older lines are still under way and others
\* say lines of the same ids: for every size of the id window that outlasts the
\* lines in a row that are not heard, and however the slots are given out.
THEOREM SentLinesWereRelayed == ChatSpec => []SentWasRelayed
<1>1. ChatInit => EchoInv
    BY ChatAssumption DEF ChatInit, EchoInv, EchoTypes, Unvisited, InFirst, Mouths, Desks, SentWasRelayed
<1>2. EchoInv /\ [ChatNext]_chatVars => EchoInv'
    <2>1. CASE UNCHANGED chatVars
        BY <2>1 DEF chatVars, EchoInv, EchoTypes, Unvisited, InFirst, SentWasRelayed
    <2> QED
        BY <2>1, EchoStepKept
<1>3. EchoInv => SentWasRelayed
    BY DEF EchoInv
<1> QED
    BY <1>1, <1>2, <1>3, PTL DEF ChatSpec
=============================================================================
