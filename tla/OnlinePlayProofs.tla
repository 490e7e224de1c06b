-------------------------- MODULE OnlinePlayProofs --------------------------
(***************************************************************************)
(* Proofs about consoles that play online, for any number of consoles and  *)
(* other clients, and any capacity of the network, visits, time-outs and   *)
(* restarts: what the rooms promise they go on promising when packets come *)
(* from consoles through a network that loses them, late and from sessions *)
(* and servers that are no more.                                           *)
(***************************************************************************)
EXTENDS OnlineProps, LobbyServerProofs

LOCAL INSTANCE SequencesExt

Queues(queues, Packets) ==
    /\ queues \in [Consoles -> Seq(Packets)]
    /\ \A c \in Consoles : Len(queues[c]) <= Capacity

\* A console that is in a lobby has been told of one, and one on its way into
\* a lobby knows which; and its tokens are its own.
SoundConsole(c) ==
    {r \in ConsoleType :
        /\ r.state = "Lobby" => r.shown \in LobbyPacketType
        /\ r.state \in {"Joining", "Lobby"} => r.join_id \in Lobbies
        /\ r.token \in c /\ r.fresh \subseteq c}

SoundConsoles ==
    {f \in [Consoles -> ConsoleType] : \A c \in Consoles : f[c] \in SoundConsole(c)}

OInv ==
    /\ NInv
    /\ console \in SoundConsoles
    /\ Queues(up, UpType)
    /\ Queues(down, DownType)
    /\ outages \in 0 .. MaxOutages

-----------------------------------------------------------------------------
(* Packets and queues.                                                     *)

\* Sending keeps a queue one of such packets, and within its capacity.
LEMMA SentFacts ==
    ASSUME NEW S, NEW queue \in Seq(S), NEW packet \in S, Len(queue) <= Capacity
    PROVE  Sent(queue, packet) \in Seq(S) /\ Len(Sent(queue, packet)) <= Capacity
<1>1. Capacity \in Nat /\ Len(queue) \in Nat
    BY ConsoleAssumption
<1>2. Append(queue, packet) \in Seq(S) /\ Len(Append(queue, packet)) = Len(queue) + 1
    OBVIOUS
<1> QED
    BY <1>1, <1>2 DEF Sent

\* So does an arrival or a loss, and what arrives is such a packet.
LEMMA HeadFacts ==
    ASSUME NEW S, NEW queue \in Seq(S), queue # <<>>, Len(queue) <= Capacity
    PROVE  Head(queue) \in S /\ Tail(queue) \in Seq(S) /\ Len(Tail(queue)) <= Capacity
<1>1. Len(Tail(queue)) = Len(queue) - 1
    OBVIOUS
<1>2. Len(queue) \in Nat /\ Capacity \in Nat
    BY ConsoleAssumption
<1>3. Len(Tail(queue)) <= Capacity
    BY <1>1, <1>2
<1> QED
    BY <1>3

\* One console's queue may change to another one of such packets.
LEMMA QueuesExcept ==
    ASSUME NEW S, NEW queues, Queues(queues, S), NEW c \in Consoles,
           NEW queue \in Seq(S), Len(queue) <= Capacity
    PROVE  Queues([queues EXCEPT ![c] = queue], S)
BY DEF Queues

\* Several packets sent keep it so, those that do not fit being lost.
LEMMA SentAllFacts ==
    ASSUME NEW S, NEW queue \in Seq(S), NEW packets \in Seq(S)
    PROVE  /\ SentAll(queue, packets) \in Seq(S) /\ Len(SentAll(queue, packets)) <= Capacity
           /\ \A i \in 1 .. Len(SentAll(queue, packets)) :
                \/ \E j \in 1 .. Len(queue) : SentAll(queue, packets)[i] = queue[j]
                \/ \E j \in 1 .. Len(packets) : SentAll(queue, packets)[i] = packets[j]
<1> DEFINE all == queue \o packets
           fits == IF Len(all) < Capacity THEN Len(all) ELSE Capacity
<1>1. /\ all \in Seq(S) /\ Len(all) = Len(queue) + Len(packets)
      /\ Len(queue) \in Nat /\ Len(packets) \in Nat /\ Len(all) \in Nat
    OBVIOUS
<1>2. /\ \A i \in 1 .. Len(queue) : all[i] = queue[i]
      /\ \A i \in Len(queue) + 1 .. Len(all) : all[i] = packets[i - Len(queue)]
    BY <1>1
<1>3. fits \in Nat /\ fits <= Len(all) /\ fits <= Capacity
    BY <1>1, ConsoleAssumption
<1> HIDE DEF all, fits
<1>4. \A i \in 1 .. fits : i \in 1 .. Len(all) /\ all[i] \in S
    BY <1>1, <1>3
<1>5. [i \in 1 .. fits |-> all[i]] \in Seq(S) /\ Len([i \in 1 .. fits |-> all[i]]) = fits
    BY <1>3, <1>4
<1>6. SentAll(queue, packets) = [i \in 1 .. fits |-> all[i]]
    BY DEF SentAll, all, fits
<1>7. ASSUME NEW i \in 1 .. fits
      PROVE  \/ \E j \in 1 .. Len(queue) : all[i] = queue[j]
             \/ \E j \in 1 .. Len(packets) : all[i] = packets[j]
    <2>1. CASE i <= Len(queue)
        BY <1>1, <1>2, <2>1
    <2>2. CASE i > Len(queue)
        <3>1. i - Len(queue) \in 1 .. Len(packets) /\ i \in Len(queue) + 1 .. Len(all)
            BY <1>1, <1>4, <2>2
        <3> QED
            BY <1>2, <3>1
    <2> QED
        BY <1>1, <2>1, <2>2
<1> QED
    BY <1>3, <1>5, <1>6, <1>7

\* The type of a packet tells what else is in it.
LEMMA UpFields ==
    ASSUME NEW body \in BodyType
    PROVE  /\ body.type = "JOIN" => body.id \in Lobbies /\ body.spectate \in BOOLEAN
           /\ body.type = "WISH" => body.wish \in Wishes
           /\ body.type = "RETIRE" => body.race_id \in RaceIDs
BY DEF BodyType, Plain, JoinPacket, WishPacket, RetirePacket

LEMMA DownFields ==
    ASSUME NEW packet \in DownType, packet.type = "LOBBY"
    PROVE  packet \in LobbyPacketType
<1>1. ASSUME NEW type \in {"WELCOME", "LOBBIES"}, packet = Plain(type) PROVE FALSE
    BY <1>1 DEF Plain
<1>2. ASSUME NEW reason, packet = Reject(reason) PROVE FALSE
    BY <1>2 DEF Reject
<1> QED
    BY <1>1, <1>2 DEF DownType

\* sendLobby tells a member of a lobby of that lobby.
LEMMA LobbyPacketTyped ==
    ASSUME NEW pl \in [Token -> PlayerType], NEW lb \in [Lobbies -> LobbyType],
           NEW t \in Token, pl[t].Lobby \in Lobbies
    PROVE  LobbyPacket(pl, lb, t) \in DownType
<1>1. pl[t] \in PlayerType /\ lb[pl[t].Lobby] \in LobbyType
    OBVIOUS
<1>2. /\ pl[t].Spectating \in BOOLEAN /\ pl[t].Racing \in BOOLEAN
      /\ lb[pl[t].Lobby].State \in Phases /\ lb[pl[t].Lobby].RaceID \in RaceIDs
    BY <1>1 DEF PlayerType, LobbyType
<1>3. LobbyPacket(pl, lb, t) \in LobbyPacketType
    BY <1>2 DEF LobbyPacket, LobbyPacketType, Roam
<1> QED
    BY <1>3 DEF DownType

\* The answer to a packet.
LEMMA AnsweredFacts ==
    ASSUME OInv, NEW c \in Consoles, NEW packet \in DownType, Answered(c, packet)
    PROVE  Queues(down', DownType)
<1>1. down[c] \in Seq(DownType) /\ Len(down[c]) <= Capacity
    BY DEF OInv, Queues
<1>2. Sent(down[c], packet) \in Seq(DownType) /\ Len(Sent(down[c], packet)) <= Capacity
    BY <1>1, SentFacts
<1> QED
    BY <1>2, QueuesExcept DEF OInv, Answered

-----------------------------------------------------------------------------
(* The consoles.                                                           *)

\* One console's record may change to another sound one.
LEMMA ConsoleExcept ==
    ASSUME console \in SoundConsoles, NEW c \in Consoles, NEW r \in SoundConsole(c)
    PROVE  [console EXCEPT ![c] = r] \in SoundConsoles
BY DEF SoundConsoles, SoundConsole

\* Out of a lobby, in any state of a session.
LEMMA OutSound ==
    ASSUME NEW c, NEW r \in SoundConsole(c),
           NEW state \in {"Hello", "Browse", "Rejected", "Lost", "Off"}
    PROVE  /\ Out(r, state) \in SoundConsole(c)
           /\ RetireDropped(Out(r, state)) \in SoundConsole(c)
           /\ [Out(r, state) EXCEPT !.error = TRUE] \in SoundConsole(c)
<1> DEFINE out == Out(r, state)
<1>1. /\ out \in ConsoleType /\ out.state = state
      /\ out.token = r.token /\ out.fresh = r.fresh
    BY DEF Out, SoundConsole, ConsoleType
<1>2. r.token \in c /\ r.fresh \subseteq c
    BY DEF SoundConsole
<1> HIDE DEF out
<1>3. out \in SoundConsole(c)
    BY <1>1, <1>2 DEF SoundConsole
<1>4. RetireDropped(out) \in SoundConsole(c)
    BY <1>1, <1>2 DEF RetireDropped, SoundConsole, ConsoleType
<1>5. [out EXCEPT !.error = TRUE] \in SoundConsole(c)
    BY <1>1, <1>2 DEF SoundConsole, ConsoleType
<1> QED
    BY <1>3, <1>4, <1>5 DEF out

\* On the way into a lobby: this counts a visit.
LEMMA JoiningSound ==
    ASSUME NEW c, NEW r \in SoundConsole(c), NEW id \in Lobbies, NEW spectate \in BOOLEAN
    PROVE  [r EXCEPT !.state = "Joining", !.join_id = id, !.spectating = spectate,
                     !.visits = @ + 1] \in SoundConsole(c)
<1>1. r.visits + 1 \in Nat
    BY DEF SoundConsole, ConsoleType
<1> QED
    BY <1>1 DEF SoundConsole, ConsoleType

\* Told of a lobby.
LEMMA ShownSound ==
    ASSUME NEW c, NEW r \in SoundConsole(c), NEW packet \in LobbyPacketType,
           r.state \in {"Joining", "Lobby"}
    PROVE  [r EXCEPT !.state = "Lobby", !.shown = packet] \in SoundConsole(c)
BY DEF SoundConsole, ConsoleType

\* Another race to retire from, or none.
LEMMA RetiringSound ==
    ASSUME NEW c, NEW r \in SoundConsole(c), NEW race \in RaceIDs \cup {NoRace}
    PROVE  [r EXCEPT !.retire_id = race] \in SoundConsole(c)
BY DEF SoundConsole, ConsoleType

\* What a console sends carries its token.
LEMMA StampedTyped ==
    ASSUME OInv, NEW c \in Consoles, NEW body \in BodyType
    PROVE  Stamped(c, body) \in UpType
BY DEF OInv, SoundConsoles, SoundConsole, ConsoleType, Stamped, UpType

\* What the screens ask of the session leaves the server and what is on its
\* way to the console alone.
LEMMA ScreensSound ==
    ASSUME OInv, NEW c \in Consoles, Screens(c)
    PROVE  /\ UNCHANGED <<serverVars, down, outages>> /\ console' \in SoundConsoles
           /\ Queues(up', UpType)
<1> DEFINE r == console[c]
           leave == Stamped(c, Plain("LEAVE"))
<1>1. /\ r \in SoundConsole(c) /\ r \in ConsoleType /\ DOMAIN console = Consoles
      /\ console \in SoundConsoles
    BY DEF OInv, SoundConsole, SoundConsoles
<1>2. Sent(up[c], leave) \in Seq(UpType) /\ Len(Sent(up[c], leave)) <= Capacity
    <2>1. leave \in UpType
        BY StampedTyped DEF BodyType
    <2> QED
        BY <2>1, SentFacts DEF OInv, Queues
<1>3. Queues(up, UpType) /\ up[c] \in Seq(UpType) /\ Len(up[c]) <= Capacity
    BY DEF OInv, Queues
<1> DEFINE Goal == /\ UNCHANGED <<serverVars, down, outages>> /\ console' \in SoundConsoles
                   /\ Queues(up', UpType)
<1>4. ASSUME NEW id \in Lobbies, NEW spectate \in BOOLEAN, NetJoin(c, id, spectate) PROVE Goal
    <2>1. [r EXCEPT !.state = "Joining", !.join_id = id, !.spectating = spectate,
                    !.visits = @ + 1] \in SoundConsole(c)
        BY <1>1, JoiningSound
    <2> QED
        BY <1>1, <1>3, <1>4, <2>1, ConsoleExcept DEF NetJoin
<1>5. ASSUME NetLeave(c) PROVE Goal
    <2>1. console' = [console EXCEPT ![c] = RetireDropped(Out(r, "Browse"))]
        BY <1>1, <1>5 DEF NetLeave
    <2>2. RetireDropped(Out(r, "Browse")) \in SoundConsole(c)
        BY <1>1, OutSound
    <2>3. up' = [up EXCEPT ![c] = Sent(up[c], leave)]
        BY <1>3, <1>5 DEF NetLeave
    <2>4. Queues(up', UpType)
        BY <1>2, <1>3, <2>3, QueuesExcept
    <2> QED
        BY <1>1, <1>5, <2>1, <2>2, <2>4, ConsoleExcept DEF NetLeave
<1>6. ASSUME NetEnd(c) PROVE Goal
    <2>1. console' = [console EXCEPT ![c] = RetireDropped(Out(r, "Off"))]
        BY <1>1, <1>6 DEF NetEnd
    <2>2. RetireDropped(Out(r, "Off")) \in SoundConsole(c)
        BY <1>1, OutSound
    <2>3. \/ up' = [up EXCEPT ![c] = Sent(up[c], leave)]
          \/ up' = [up EXCEPT ![c] = up[c]]
        BY <1>3, <1>6 DEF NetEnd
    <2>4. Queues(up', UpType)
        BY <1>2, <1>3, <2>3, QueuesExcept
    <2> QED
        BY <1>1, <1>6, <2>1, <2>2, <2>4, ConsoleExcept DEF NetEnd
<1>7. ASSUME NetRetire(c) PROVE Goal
    <2>1. r.shown \in LobbyPacketType
        BY <1>1, <1>7 DEF NetRetire, Plays, SoundConsole
    <2>2. r.shown.race_id \in RaceIDs \cup {NoRace}
        BY <2>1 DEF LobbyPacketType
    <2>3. [r EXCEPT !.retire_id = r.shown.race_id] \in SoundConsole(c)
        BY <1>1, <2>2, RetiringSound
    <2>4. console' = [console EXCEPT ![c] = [r EXCEPT !.retire_id = r.shown.race_id]]
        BY <1>1, <1>7 DEF NetRetire
    <2> QED
        BY <1>1, <1>3, <1>7, <2>3, <2>4, ConsoleExcept DEF NetRetire
<1>8. ASSUME NetPressStart(c) PROVE Goal
    <2>1. r.start_nonce + 1 \in Nonces
        BY <1>8 DEF NetPressStart
    <2>2. [r EXCEPT !.start_nonce = @ + 1, !.pressed = TRUE] \in SoundConsole(c)
        BY <1>1, <2>1 DEF ConsoleType, SoundConsole
    <2> QED
        BY <1>1, <1>3, <1>8, <2>2, ConsoleExcept DEF NetPressStart
<1>9. ASSUME NetBegin(c) PROVE Goal
    <2>1. PICK token \in r.fresh :
            console' = [console EXCEPT ![c].state = "Hello", ![c].error = FALSE,
                                       ![c].token = token, ![c].fresh = @ \ {token},
                                       ![c].pressed = FALSE]
        BY <1>9 DEF NetBegin
    <2> DEFINE new == [r EXCEPT !.state = "Hello", !.error = FALSE, !.token = token,
                                !.fresh = @ \ {token}, !.pressed = FALSE]
    <2>2. console' = [console EXCEPT ![c] = new]
        BY <1>1, <2>1
    <2>3. token \in Token /\ token \in c /\ r.fresh \ {token} \subseteq c
        BY <1>1 DEF ConsoleType, SoundConsole
    <2>4. new \in SoundConsole(c)
        BY <1>1, <2>3 DEF ConsoleType, SoundConsole
    <2> HIDE DEF new
    <2> QED
        BY <1>1, <1>3, <1>9, <2>2, <2>4, ConsoleExcept DEF NetBegin
<1>10. ASSUME ShowError(c) PROVE Goal
    <2>1. console' = [console EXCEPT ![c] = [r EXCEPT !.error = TRUE]]
        BY <1>1, <1>10 DEF ShowError
    <2>2. [r EXCEPT !.error = TRUE] \in SoundConsole(c)
        BY <1>1 DEF ConsoleType, SoundConsole
    <2> QED
        BY <1>1, <1>3, <1>10, <2>1, <2>2, ConsoleExcept DEF ShowError
<1> QED
    BY <1>4, <1>5, <1>6, <1>7, <1>8, <1>9, <1>10 DEF Screens

\* Nor does what a console receives, which it takes for what it is.
LEMMA ReceiveSound ==
    ASSUME OInv, NEW c \in Consoles, Receive(c)
    PROVE  /\ UNCHANGED <<serverVars, outages, up>> /\ Queues(down', DownType)
           /\ console' \in SoundConsoles
<1> DEFINE r == console[c]
           packet == Head(down[c])
<1>1. r \in SoundConsole(c) /\ console \in SoundConsoles /\ DOMAIN console = Consoles
    BY DEF OInv, SoundConsoles
<1>2. \E type : Receives(c, type)
    BY DEF Receive, HandleWelcome, HandleReject, HandleLobbies, HandleLobby
<1>3. /\ down[c] # <<>> /\ down' = [down EXCEPT ![c] = Tail(@)]
      /\ UNCHANGED <<serverVars, up, outages>>
    BY <1>2 DEF Receives
<1>4. down[c] \in Seq(DownType) /\ Len(down[c]) <= Capacity
    BY DEF OInv, Queues
<1>5. /\ packet \in DownType /\ Tail(down[c]) \in Seq(DownType)
      /\ Len(Tail(down[c])) <= Capacity
    BY <1>3, <1>4, HeadFacts
<1>6. Queues(down', DownType)
    <2>1. down' = [down EXCEPT ![c] = Tail(down[c])]
        BY <1>3
    <2> QED
        BY <1>5, <2>1, QueuesExcept DEF OInv
<1>7. ASSUME HandleWelcome(c) PROVE console' \in SoundConsoles
    <2>1. [r EXCEPT !.state = "Browse"] \in SoundConsole(c)
        BY <1>1 DEF SoundConsole, ConsoleType
    <2>2. console' = IF r.state = "Hello"
                     THEN [console EXCEPT ![c] = [r EXCEPT !.state = "Browse"]] ELSE console
        BY <1>1, <1>7 DEF HandleWelcome
    <2> QED
        BY <1>1, <2>1, <2>2, ConsoleExcept
<1>8. ASSUME HandleReject(c) PROVE console' \in SoundConsoles
    <2>1. /\ Out(r, "Hello") \in SoundConsole(c) /\ Out(r, "Browse") \in SoundConsole(c)
          /\ Out(r, "Rejected") \in SoundConsole(c)
        BY <1>1, OutSound
    <2>2. \E d \in SoundConsole(c) : console' = [console EXCEPT ![c] = d]
        BY <1>1, <1>8, <2>1 DEF HandleReject
    <2> QED
        BY <1>1, <2>2, ConsoleExcept
<1>9. ASSUME HandleLobby(c) PROVE console' \in SoundConsoles
    <2>1. packet \in LobbyPacketType
        BY <1>5, <1>9, DownFields DEF HandleLobby, Receives
    <2>2. TakesState(r, packet) => [r EXCEPT !.state = "Lobby", !.shown = packet] \in SoundConsole(c)
        BY <1>1, <2>1, ShownSound DEF TakesState
    <2>3. console' = IF TakesState(r, packet)
                     THEN [console EXCEPT ![c] = [r EXCEPT !.state = "Lobby", !.shown = packet]]
                     ELSE console
        BY <1>1, <1>9 DEF HandleLobby
    <2> QED
        BY <1>1, <2>2, <2>3, ConsoleExcept
<1>10. HandleLobbies(c) => console' \in SoundConsoles
    BY <1>1 DEF HandleLobbies
<1> QED
    BY <1>3, <1>6, <1>7, <1>8, <1>9, <1>10 DEF Receive

\* What the timers call for is what the server takes for what it is.
LEMMA ResentTyped ==
    ASSUME OInv, NEW c \in Consoles, NEW body \in Resent(c)
    PROVE  body \in BodyType
<1> DEFINE r == console[c]
<1>1. r \in SoundConsole(c) /\ r \in ConsoleType
    BY DEF OInv, SoundConsole, SoundConsoles
<1>2. StillRetiring(r) \in RaceIDs \cup {NoRace}
    BY <1>1 DEF StillRetiring, ConsoleType
<1>3. CASE r.state = "Hello"
    BY <1>3 DEF Resent, BodyType
<1>4. CASE r.state = "Browse"
    BY <1>4 DEF Resent, BodyType
<1>5. CASE r.state = "Joining"
    <2>1. r.join_id \in Lobbies /\ r.spectating \in BOOLEAN
        BY <1>1, <1>5 DEF SoundConsole, ConsoleType
    <2>2. body \in {JoinPacket(r.join_id, r.spectating), Plain("PING")}
        BY <1>5 DEF Resent
    <2> QED
        BY <2>1, <2>2 DEF BodyType
<1>6. CASE r.state = "Lobby" /\ r.spectating
    BY <1>6 DEF Resent, BodyType
<1>7. CASE /\ r.state \notin {"Hello", "Browse", "Joining"}
           /\ ~(r.state = "Lobby" /\ r.spectating)
    <2>1. body \in {WishPacket(wish) : wish \in {w \in Wishes : w.nonce = r.start_nonce}}
                        \cup {RetirePacket(race) : race \in {StillRetiring(r)} \ {NoRace}}
        BY <1>7 DEF Resent
    <2> QED
        BY <1>2, <2>1 DEF BodyType
<1> QED
    BY <1>3, <1>4, <1>5, <1>6, <1>7

\* net_update sends what the server takes for what it is, and drops requests.
LEMMA UpdateSound ==
    ASSUME OInv, NEW c \in Consoles, NetUpdate(c)
    PROVE  /\ UNCHANGED <<serverVars, outages, down>> /\ Queues(up', UpType)
           /\ console' \in SoundConsoles
<1> DEFINE r == console[c]
<1>1. /\ r \in SoundConsole(c) /\ r \in ConsoleType /\ DOMAIN console = Consoles
      /\ console \in SoundConsoles
    BY DEF OInv, SoundConsole, SoundConsoles
<1>2. StillRetiring(r) \in RaceIDs \cup {NoRace}
    BY <1>1 DEF StillRetiring, ConsoleType
<1>3. console' \in SoundConsoles
    <2>1. [r EXCEPT !.retire_id = StillRetiring(r)] \in SoundConsole(c)
        BY <1>1, <1>2, RetiringSound
    <2>2. console' = IF Plays(c)
                     THEN [console EXCEPT ![c] = [r EXCEPT !.retire_id = StillRetiring(r)]]
                     ELSE console
        BY <1>1 DEF NetUpdate
    <2> QED
        BY <1>1, <2>1, <2>2, ConsoleExcept
<1>4. ASSUME NEW body \in Resent(c) PROVE Stamped(c, body) \in UpType
    BY ResentTyped, StampedTyped
<1>5. Queues(up', UpType)
    <2>1. CASE UNCHANGED up
        BY <2>1 DEF OInv
    <2>2. ASSUME NEW body \in Resent(c), up' = [up EXCEPT ![c] = Sent(@, Stamped(c, body))]
          PROVE  Queues(up', UpType)
        <3>1. up' = [up EXCEPT ![c] = Sent(up[c], Stamped(c, body))]
            BY <2>2
        <3>2. /\ Sent(up[c], Stamped(c, body)) \in Seq(UpType)
              /\ Len(Sent(up[c], Stamped(c, body))) <= Capacity
            BY <1>4, SentFacts DEF OInv, Queues
        <3> QED
            BY <3>1, <3>2, QueuesExcept DEF OInv
    <2> QED
        BY <2>1, <2>2 DEF NetUpdate
<1> QED
    BY <1>3, <1>5 DEF NetUpdate

-----------------------------------------------------------------------------
(* The server.                                                             *)

\* A packet that arrives is one a console sends.
LEMMA ArrivesFacts ==
    ASSUME OInv, NEW c \in Consoles, NEW t, NEW type, Arrives(c, t, type)
    PROVE  /\ Head(up[c]) \in UpType /\ Head(up[c]).token = t
           /\ Head(up[c]).body \in BodyType /\ Head(up[c]).body.type = type
           /\ Queues(up', UpType) /\ UNCHANGED <<console, outages>>
<1>1. up[c] \in Seq(UpType) /\ Len(up[c]) <= Capacity
    BY DEF OInv, Queues
<1>2. up' = [up EXCEPT ![c] = Tail(up[c])] /\ up[c] # <<>>
    BY DEF Arrives, OInv, Queues
<1>3. /\ Head(up[c]) \in UpType /\ Tail(up[c]) \in Seq(UpType)
      /\ Len(Tail(up[c])) <= Capacity
    BY <1>1, <1>2, HeadFacts
<1>4. Queues(up', UpType)
    BY <1>2, <1>3, QueuesExcept DEF OInv
<1> QED
    BY <1>3, <1>4 DEF Arrives, UpType

\* What serves a console takes a packet of it.
LEMMA ServesArrive ==
    ASSUME NEW c \in Consoles, NEW t, Serves(c, t)
    PROVE  \E type : Arrives(c, t, type)
BY DEF Serves, ServeHello, ServeStranger, ServeList, ServePing, ServeJoin, ServeSpectate,
       ServeLeave, ServeWish, ServeRetire

\* Each of the server's answers to a console.
LEMMA AnswersTyped ==
    /\ Plain("WELCOME") \in DownType /\ Plain("LOBBIES") \in DownType
    /\ Reject("full") \in DownType /\ Reject("session") \in DownType
    /\ Reject("lobby full") \in DownType
BY DEF DownType

\* The server takes a console's packet as it takes anybody's, or leaves its
\* state alone; whom it tells of a lobby is in it.
LEMMA ServeHandles ==
    ASSUME OInv, NEW c \in Consoles, NEW t \in c, Serves(c, t)
    PROVE  /\ Handle(t) \/ UNCHANGED vars
           /\ Queues(up', UpType) /\ UNCHANGED <<console, outages>>
           /\ \/ UNCHANGED down
              \/ \E packet \in DownType : Answered(c, packet)
              \/ player'[t].Lobby \in Lobbies /\ Answered(c, LobbyPacket(player', lobby', t))
<1>1. t \in Token
    BY ConsoleAssumption
<1>2. player \in [Token -> PlayerType]
    BY DEF OInv, NInv, IInv, Sound, Typed
<1>3. \E type : Arrives(c, t, type)
    BY ServesArrive
<1>4. Queues(up', UpType) /\ UNCHANGED <<console, outages>>
    BY <1>3, ArrivesFacts
<1> DEFINE Goal == /\ Handle(t) \/ UNCHANGED vars
                   /\ \/ UNCHANGED down
                      \/ \E packet \in DownType : Answered(c, packet)
                      \/ /\ player'[t].Lobby \in Lobbies
                         /\ Answered(c, LobbyPacket(player', lobby', t))
<1>5. ASSUME ServeHello(c, t) PROVE Goal
    BY <1>5, AnswersTyped DEF ServeHello, Handle, serverVars, vars
<1>6. ASSUME ServeStranger(c, t) PROVE Goal
    BY <1>6, AnswersTyped DEF ServeStranger, serverVars, vars
<1>7. ASSUME ServeList(c, t) \/ ServePing(c, t) PROVE Goal
    BY <1>7, AnswersTyped DEF ServeList, ServePing, serverVars, vars
<1>8. ASSUME ServeJoin(c, t) PROVE Goal
    <2> DEFINE id == Head(up[c]).body.id
    <2>1. id \in Lobbies
        BY <1>8, ArrivesFacts, UpFields DEF ServeJoin
    <2>2. CASE Join(t, id) /\ Answered(c, LobbyPacket(player', lobby', t))
        <3>1. PlayersLeft(player, {t}) \in [Token -> PlayerType]
            BY LeaveSound, <1>1 DEF OInv, NInv, IInv, Sound, Typed
        <3> DEFINE seat == FreeSlot(lobby[id])
                   pl == PlayersLeft(player, {t})
                   seated == [pl[t] EXCEPT !.Lobby = id, !.Slot = seat,
                                !.JoinSeq = joinSeq + 1, !.Points = 0, !.LastPlace = 0,
                                !.Racing = FALSE, !.Finished = FALSE, !.Kart = NoKart,
                                !.Colour = JoinColour(pl, LobbiesLeft(player, lobby, {t})[id], t)]
        <3>2. seated.Lobby = id
            BY <1>1, <3>1 DEF PlayerType
        <3>3. \A grid : OnLot(seated, grid).Lobby = id
            BY <1>1, <3>1 DEF PlayerType, OnLot
        <3>4. player'[t] = seated \/ \E grid : player'[t] = OnLot(seated, grid)
            BY <1>1, <2>2, <3>1 DEF Join
        <3>5. player'[t].Lobby = id
            <4> HIDE DEF seated, id
            <4> QED
                BY <3>2, <3>3, <3>4
        <3> QED
            BY <1>1, <2>1, <2>2, <3>5 DEF Handle
    <2>3. CASE /\ player[t].Lobby = id /\ UNCHANGED serverVars
               /\ Answered(c, LobbyPacket(player', lobby', t))
        BY <2>1, <2>3 DEF serverVars, vars
    <2>4. CASE UNCHANGED serverVars /\ Answered(c, Reject("lobby full"))
        BY <2>4, AnswersTyped DEF serverVars, vars
    <2> QED
        BY <1>8, <2>2, <2>3, <2>4 DEF ServeJoin
<1>9. ASSUME ServeSpectate(c, t) PROVE Goal
    <2> DEFINE id == Head(up[c]).body.id
    <2>1. id \in Lobbies
        BY <1>9, ArrivesFacts, UpFields DEF ServeSpectate
    <2>2. CASE Spectate(t, id)
        <3>1. PlayersLeft(player, {t}) \in [Token -> PlayerType]
            BY LeaveSound, <1>1 DEF OInv, NInv, IInv, Sound, Typed
        <3>2. player'[t].Lobby = id
            BY ZenonT(60), <1>1, <2>2, <3>1 DEF Spectate, PlayerType
        <3> QED
            BY <1>1, <1>9, <2>1, <2>2, <3>2 DEF Handle, ServeSpectate
    <2>3. CASE player[t].Lobby = id /\ UNCHANGED serverVars
        BY <1>9, <2>1, <2>3 DEF serverVars, vars, ServeSpectate
    <2> QED
        BY <1>9, <2>2, <2>3 DEF ServeSpectate
<1>10. ASSUME ServeLeave(c, t) PROVE Goal
    BY <1>10 DEF ServeLeave, Handle, serverVars, vars
<1>11. ASSUME ServeWish(c, t) PROVE Goal
    <2>1. Head(up[c]).body.wish \in Wishes
        BY <1>11, ArrivesFacts, UpFields DEF ServeWish
    <2> QED
        BY <1>11, <2>1 DEF ServeWish, Handle, serverVars, vars
<1>12. ASSUME ServeRetire(c, t) PROVE Goal
    <2>1. Head(up[c]).body.race_id \in RaceIDs
        BY <1>12, ArrivesFacts, UpFields DEF ServeRetire
    <2> QED
        BY <1>12, <2>1 DEF ServeRetire, Handle, serverVars, vars
<1>13. Goal
    BY <1>5, <1>6, <1>7, <1>8, <1>9, <1>10, <1>11, <1>12 DEF Serves
<1> QED
    BY <1>4, <1>13

\* A restarted server knows nobody, as a new one.
LEMMA RestartIsInit == Restart => Init' /\ \A l \in Lobbies : lobby'[l].State = "Waiting"
<1>1. \A r : NewLobby(r).State = "Waiting"
    BY DEF NewLobby
<1> QED
    BY <1>1 DEF Restart, Init

\* Consoles and network start as typed.
LEMMA OnlineInitSound == OnlineInit => OInv
<1> SUFFICES ASSUME OnlineInit PROVE OInv
    OBVIOUS
<1>1. NInv
    BY FirstSound DEF OnlineInit
<1>2. ASSUME NEW c \in Consoles, NEW token \in Token, NEW nonce \in Nonces, token \in c
      PROVE  FirstSession(c, token, nonce) \in SoundConsole(c)
    <2>1. c \ {token} \in SUBSET Token /\ c \ {token} \subseteq c
        BY ConsoleAssumption
    <2> QED
        BY <1>2, <2>1 DEF FirstSession, SoundConsole, ConsoleType
<1>3. console \in SoundConsoles
    <2>1. PICK token \in [Consoles -> Token], nonce \in [Consoles -> Nonces] :
            /\ \A c \in Consoles : token[c] \in c
            /\ console = [c \in Consoles |-> FirstSession(c, token[c], nonce[c])]
        BY DEF OnlineInit
    <2>2. \A c \in Consoles : console[c] \in SoundConsole(c)
        BY <1>2, <2>1
    <2> QED
        BY <2>1, <2>2 DEF SoundConsoles, SoundConsole
<1>4. Len(<<>>) <= Capacity /\ 0 \in 0 .. MaxOutages
    BY ConsoleAssumption
<1>5. Queues(up, UpType) /\ Queues(down, DownType)
    BY <1>4 DEF OnlineInit, Queues
<1> QED
    BY <1>1, <1>3, <1>4, <1>5 DEF OnlineInit, OInv

-----------------------------------------------------------------------------
(* The theorems.                                                           *)

\* What a step is to the server: one of its own, a restart, or nothing.
LEMMA ServerSteps ==
    ASSUME OInv, [OnlineNext]_onlineVars
    PROVE  [Next]_vars \/ Restart
<1>1. ASSUME NEW c \in Consoles,
             Screens(c) \/ Receive(c) \/ NetUpdate(c) \/ GiveUp(c) \/ LoseUp(c) \/ LoseDown(c)
      PROVE  UNCHANGED vars
    <2>1. Screens(c) \/ Receive(c) \/ NetUpdate(c) => UNCHANGED vars
        BY ScreensSound, ReceiveSound, UpdateSound DEF serverVars, vars
    <2> QED
        BY <1>1, <2>1 DEF GiveUp, LoseUp, LoseDown, serverVars, vars
<1>2. ASSUME NEW c \in Consoles, Serve(c) PROVE [Next]_vars
    <2>1. PICK t \in c : Serves(c, t)
        BY <1>2 DEF Serve
    <2>2. t \in Token
        BY ConsoleAssumption
    <2> QED
        BY <2>1, <2>2, ServeHandles DEF Next
<1>3. ASSUME NEW silent \in SUBSET sessions, NEW due \in SUBSET Timed, NEW told,
             ServerTick(silent, due, told)
      PROVE  Next
    BY <1>3 DEF ServerTick, Next
<1>4. Strangers => Next
    BY DEF Strangers, Next
<1>5. UNCHANGED onlineVars => UNCHANGED vars
    BY DEF onlineVars, vars
<1> QED
    BY <1>1, <1>2, <1>3, <1>4, <1>5 DEF OnlineNext

\* The server's part of the invariant holds after every step, and a race
\* starts as it does without consoles.
LEMMA ServerSound ==
    ASSUME OInv, [OnlineNext]_onlineVars
    PROVE  /\ NInv'
           /\ \A l \in Lobbies :
                lobby[l].State = "Waiting" /\ lobby'[l].State = "Countdown" =>
                    player'[LeaderToken(lobby[l])].StartNonce
                        # player[LeaderToken(lobby[l])].StartNonce
<1>1. CASE [Next]_vars
    BY <1>1, StartStep DEF OInv
<1>2. CASE Restart
    <2>1. Init' => NInv'
        BY FirstSound, PTL
    <2> QED
        BY <1>2, <2>1, RestartIsInit
<1> QED
    BY <1>1, <1>2, ServerSteps

\* What a tick sends a console: each packet that it adds is of a session of the
\* console that is in a lobby told of.
LEMMA TellingsFacts ==
    ASSUME NEW c \in Consoles, NEW told \in SUBSET Lobbies, NEW queue \in Tellings(c, told)
    PROVE  \E order \in Seq({t \in c : player'[t].Lobby \in told}) :
                queue = SentAll(down[c], [i \in DOMAIN order |-> LobbyPacket(player', lobby', order[i])])
<1> DEFINE S == {t \in c : player'[t].Lobby \in told}
<1>1. PICK order \in SetToSeqs(S) :
            queue = SentAll(down[c], [i \in DOMAIN order |-> LobbyPacket(player', lobby', order[i])])
    BY DEF Tellings
<1>2. order \in [1 .. Cardinality(S) -> S] /\ Cardinality(S) \in Nat
    <2>1. order \in [1 .. Cardinality(S) -> S]
        BY DEF SetToSeqs
    <2>2. S \subseteq Token
        BY ConsoleAssumption
    <2> QED
        BY <2>1, <2>2, CountType
<1>3. \A n \in Nat : \A f \in [1 .. n -> S] : f \in Seq(S)
    <2> HIDE DEF S
    <2> QED
        OBVIOUS
<1> QED
    BY <1>1, <1>2, <1>3

\* What a tick sends is what a console takes for what it is.
LEMMA TellingsTyped ==
    ASSUME OInv, player' \in [Token -> PlayerType], lobby' \in [Lobbies -> LobbyType],
           NEW c \in Consoles, NEW told \in SUBSET Lobbies, NEW queue \in Tellings(c, told)
    PROVE  queue \in Seq(DownType) /\ Len(queue) <= Capacity
<1> DEFINE S == {t \in c : player'[t].Lobby \in told}
<1>1. PICK order \in Seq(S) :
            queue = SentAll(down[c], [i \in DOMAIN order |-> LobbyPacket(player', lobby', order[i])])
    BY TellingsFacts
<1> DEFINE packets == [i \in DOMAIN order |-> LobbyPacket(player', lobby', order[i])]
<1>2. ASSUME NEW i \in DOMAIN order PROVE LobbyPacket(player', lobby', order[i]) \in DownType
    <2>1. order[i] \in S
        OBVIOUS
    <2>2. order[i] \in Token /\ player'[order[i]].Lobby \in Lobbies
        BY <2>1, ConsoleAssumption
    <2> QED
        BY <2>2, LobbyPacketTyped
<1>3. packets \in Seq(DownType)
    BY <1>2
<1>4. down[c] \in Seq(DownType)
    BY DEF OInv, Queues
<1> HIDE DEF packets
<1> QED
    BY <1>1, <1>3, <1>4, SentAllFacts DEF packets

\* The consoles' and the network's part.
LEMMA OnlineStep ==
    ASSUME OInv, [OnlineNext]_onlineVars
    PROVE  OInv'
<1>1. NInv'
    BY ServerSound
<1> DEFINE Rest == /\ console' \in SoundConsoles
                   /\ Queues(up', UpType) /\ Queues(down', DownType)
                   /\ outages' \in 0 .. MaxOutages
<1>2. /\ console \in SoundConsoles /\ outages \in 0 .. MaxOutages
      /\ Queues(up, UpType) /\ Queues(down, DownType)
    BY DEF OInv
<1>3. ASSUME NEW c \in Consoles, Screens(c) \/ Receive(c) \/ NetUpdate(c) PROVE Rest
    BY <1>2, <1>3, ScreensSound, ReceiveSound, UpdateSound
<1>4. ASSUME NEW c \in Consoles, GiveUp(c) PROVE Rest
    <2>1. [Out(console[c], "Lost") EXCEPT !.error = TRUE] \in SoundConsole(c)
        BY <1>2, OutSound DEF SoundConsoles
    <2>2. console' = [console EXCEPT ![c] = [Out(console[c], "Lost") EXCEPT !.error = TRUE]]
        BY <1>2, <1>4 DEF GiveUp, SoundConsoles
    <2> QED
        BY <1>2, <1>4, <2>1, <2>2, ConsoleExcept DEF GiveUp
<1>5. ASSUME NEW c \in Consoles, LoseUp(c) PROVE Rest
    <2>1. up' = [up EXCEPT ![c] = Tail(up[c])] /\ up[c] # <<>>
        BY <1>5 DEF LoseUp
    <2>2. Tail(up[c]) \in Seq(UpType) /\ Len(Tail(up[c])) <= Capacity
        BY <1>2, <2>1, HeadFacts DEF Queues
    <2>3. Queues(up', UpType)
        BY <1>2, <2>1, <2>2, QueuesExcept
    <2> QED
        BY <1>2, <1>5, <2>3 DEF LoseUp
<1>6. ASSUME NEW c \in Consoles, LoseDown(c) PROVE Rest
    <2>1. down' = [down EXCEPT ![c] = Tail(down[c])] /\ down[c] # <<>>
        BY <1>6 DEF LoseDown
    <2>2. Tail(down[c]) \in Seq(DownType) /\ Len(Tail(down[c])) <= Capacity
        BY <1>2, <2>1, HeadFacts DEF Queues
    <2>3. Queues(down', DownType)
        BY <1>2, <2>1, <2>2, QueuesExcept
    <2> QED
        BY <1>2, <1>6, <2>3 DEF LoseDown
<1>7. player' \in [Token -> PlayerType] /\ lobby' \in [Lobbies -> LobbyType]
    BY <1>1 DEF NInv, IInv, Sound, Typed
<1>8. ASSUME NEW c \in Consoles, Serve(c) PROVE Rest
    <2>1. PICK t \in c : Serves(c, t)
        BY <1>8 DEF Serve
    <2>2. t \in Token
        BY ConsoleAssumption
    <2>3. player'[t].Lobby \in Lobbies => LobbyPacket(player', lobby', t) \in DownType
        BY <1>7, <2>2, LobbyPacketTyped
    <2>4. Queues(down', DownType)
        BY <1>2, <2>1, <2>3, ServeHandles, AnsweredFacts
    <2> QED
        BY <1>2, <2>1, <2>4, ServeHandles
<1>9. ASSUME NEW silent \in SUBSET sessions, NEW due \in SUBSET Timed, NEW told \in SUBSET Lobbies,
             ServerTick(silent, due, told)
      PROVE  Rest
    <2>1. DOMAIN down' = Consoles /\ \A c \in Consoles : down'[c] \in Tellings(c, told)
        BY <1>9 DEF ServerTick
    <2>2. ASSUME NEW c \in Consoles
          PROVE  down'[c] \in Seq(DownType) /\ Len(down'[c]) <= Capacity
        BY <1>7, <2>1, TellingsTyped DEF OInv, Queues
    <2>3. Queues(down', DownType)
        <3>1. down' = [c \in Consoles |-> down'[c]]
            BY <1>9 DEF ServerTick
        <3> QED
            BY <2>2, <3>1 DEF Queues
    <2>4. outages' \in 0 .. MaxOutages
        <3>1. Cardinality(silent \cap InUse) \in Nat
            <4>1. InUse \subseteq Token
                BY <1>2 DEF InUse, SoundConsoles, ConsoleType
            <4>2. silent \cap InUse \subseteq Token
                BY <4>1
            <4> QED
                BY <4>2, CountType
        <3> QED
            BY <1>2, <1>9, <3>1, ConsoleAssumption DEF ServerTick
    <2> QED
        BY <1>2, <1>9, <2>3, <2>4 DEF ServerTick
<1>10. Strangers => Rest
    BY <1>2 DEF Strangers
<1>11. Restart => Rest
    BY <1>2, ConsoleAssumption DEF Restart
<1>12. UNCHANGED onlineVars => Rest
    BY <1>2 DEF onlineVars
<1>13. Rest
    BY <1>3, <1>4, <1>5, <1>6, <1>8, <1>9, <1>10, <1>11, <1>12 DEF OnlineNext
<1> QED
    BY <1>1, <1>13 DEF OInv

\* The invariant holds in every state that consoles, the network and the
\* server reach together.
THEOREM OnlineInvariance == OnlineSpec => []OInv
<1>1. OInv /\ [OnlineNext]_onlineVars => OInv'
    BY OnlineStep
<1> QED
    BY <1>1, OnlineInitSound, PTL DEF OnlineSpec

\* What the consoles and the network hold is of its type: no packet the
\* network still carries, of whatever visit or session, leads a console or
\* the server out of its states.
THEOREM OnlineTypesHold == OnlineSpec => []OnlineTypeOK
<1>1. ASSUME OInv PROVE OnlineTypeOK
    <2>1. console \in [Consoles -> ConsoleType]
        BY <1>1 DEF OInv, SoundConsoles
    <2>2. ASSUME NEW c \in Consoles
          PROVE  /\ Len(up[c]) <= Capacity /\ \A i \in 1 .. Len(up[c]) : up[c][i] \in UpType
                 /\ Len(down[c]) <= Capacity
                 /\ \A i \in 1 .. Len(down[c]) : down[c][i] \in DownType
        BY <1>1 DEF OInv, Queues
    <2> QED
        BY <1>1, <2>1, <2>2 DEF OInv, OnlineTypeOK
<1> QED
    BY <1>1, OnlineInvariance, PTL

\* Lost, late and repeated packets and restarts of the server leave rooms and
\* records agreeing.
THEOREM OnlineSeatsHold == OnlineSpec => []SeatsAgree
<1>1. OInv => SeatsAgree
    BY DEF OInv, NInv, IInv, Sound, Seating, SeatsAgree
<1> QED
    BY <1>1, OnlineInvariance, PTL

\* A wish that is sent again, or comes late, starts no race over the network
\* either, the server's restarts included.
THEOREM OnlinePressesCountOnce == OnlineSpec => PressStartsOnce
<1>1. OInv /\ [OnlineNext]_onlineVars =>
        [\A l \in Lobbies :
            lobby[l].State = "Waiting" /\ lobby'[l].State = "Countdown" =>
                player'[LeaderToken(lobby[l])].StartNonce
                    # player[LeaderToken(lobby[l])].StartNonce]_vars
    BY ServerSound
<1> QED
    BY <1>1, OnlineInvariance, PTL DEF OnlineSpec, PressStartsOnce

-----------------------------------------------------------------------------
(* The first visit of a console.  What can lead it and the server apart is *)
(* a packet of an earlier visit (the run Desync).  In the first one, every *)
(* JOIN under way is of this session, and for the lobby and the part the   *)
(* console asked for, and no LEAVE is; and as every HELLO, of whatever     *)
(* session, went out before the first JOIN, nobody who has been in the     *)
(* lobby gets a new session without knowing.                               *)

Holds(queue, type) == \E i \in 1 .. Len(queue) : queue[i].body.type = type

Tells(queue) == \E i \in 1 .. Len(queue) : queue[i].type = "LOBBY"

HellosFirst(queue) ==
    \A i, j \in 1 .. Len(queue) :
        queue[i].body.type = "HELLO" /\ queue[j].body.type = "JOIN" => i < j

OnlyJoins(queue, join) ==
    /\ ~Holds(queue, "LEAVE")
    /\ \A i \in 1 .. Len(queue) : queue[i].body.type = "JOIN" => queue[i] = join

\* No visit has begun.
Unvisited(c) ==
    /\ ~InVisit(c) /\ \A t \in c : player[t].Lobby = NoLobby
    /\ ~Holds(up[c], "JOIN") /\ ~Holds(up[c], "LEAVE") /\ ~Tells(down[c])

\* The server has had the console in a lobby during the visit.
Reached(c) ==
    \/ player[console[c].token].Lobby # NoLobby
    \/ Tells(down[c]) \/ console[c].state = "Lobby"

Asked(c) == Stamped(c, JoinPacket(console[c].join_id, console[c].spectating))

AsAsked(r, p) == p.Lobby = r.join_id /\ p.Spectating = r.spectating

Visiting(c) ==
    /\ HellosFirst(up[c]) /\ OnlyJoins(up[c], Asked(c))
    /\ \A t \in c : player[t].Lobby # NoLobby =>
                        t = console[c].token /\ AsAsked(console[c], player[t])
    /\ Reached(c) =>
        ~Holds(up[c], "HELLO") /\ (Known(c) => player[console[c].token].Lobby # NoLobby)

FirstVisit(c) ==
    /\ console[c].visits = 0 => Unvisited(c)
    /\ console[c].visits = 1 /\ InVisit(c) => Visiting(c)

VInv == \A c \in Consoles : FirstVisit(c)

\* What a packet more does to a queue.
LEMMA SentWhere ==
    ASSUME NEW S, NEW queue \in Seq(S), NEW packet \in S
    PROVE  \/ Sent(queue, packet) = queue
           \/ /\ Len(Sent(queue, packet)) = Len(queue) + 1
              /\ \A i \in 1 .. Len(queue) : Sent(queue, packet)[i] = queue[i]
              /\ Sent(queue, packet)[Len(queue) + 1] = packet
<1>1. /\ Len(Append(queue, packet)) = Len(queue) + 1
      /\ \A i \in 1 .. Len(queue) : Append(queue, packet)[i] = queue[i]
      /\ Append(queue, packet)[Len(queue) + 1] = packet
    OBVIOUS
<1> QED
    BY <1>1 DEF Sent

LEMMA SentVisit ==
    ASSUME NEW S, NEW queue \in Seq(S), NEW packet \in S, NEW join
    PROVE  /\ \A type : Holds(Sent(queue, packet), type) =>
                            Holds(queue, type) \/ packet.body.type = type
           /\ HellosFirst(queue) /\ (packet.body.type = "HELLO" => ~Holds(queue, "JOIN")) =>
                    HellosFirst(Sent(queue, packet))
           /\ /\ OnlyJoins(queue, join) /\ packet.body.type # "LEAVE"
              /\ packet.body.type = "JOIN" => packet = join
              => OnlyJoins(Sent(queue, packet), join)
<1>1. PICK r : r = Sent(queue, packet)
    OBVIOUS
<1>2. CASE r = queue
    BY <1>1, <1>2
<1>3. CASE /\ Len(r) = Len(queue) + 1 /\ r[Len(queue) + 1] = packet
           /\ \A i \in 1 .. Len(queue) : r[i] = queue[i]
    <2>1. /\ Len(queue) \in Nat
          /\ \A i \in 1 .. Len(r) : i \in 1 .. Len(queue) \/ i = Len(queue) + 1
        BY <1>3
    <2>2. \A type : Holds(r, type) => Holds(queue, type) \/ packet.body.type = type
        BY <1>3, <2>1 DEF Holds
    <2>3. ASSUME HellosFirst(queue), packet.body.type = "HELLO" => ~Holds(queue, "JOIN")
          PROVE  HellosFirst(r)
        <3> SUFFICES ASSUME NEW i \in 1 .. Len(r), NEW j \in 1 .. Len(r),
                            r[i].body.type = "HELLO", r[j].body.type = "JOIN"
                     PROVE  i < j
            BY DEF HellosFirst
        <3>1. CASE i \in 1 .. Len(queue) /\ j \in 1 .. Len(queue)
            BY <1>3, <2>3, <3>1 DEF HellosFirst
        <3>2. CASE i = Len(queue) + 1
            <4>1. j \in 1 .. Len(queue)
                BY <1>3, <2>1, <3>2
            <4> QED
                BY <1>3, <2>3, <3>2, <4>1 DEF Holds
        <3>3. CASE i \in 1 .. Len(queue) /\ j = Len(queue) + 1
            BY <2>1, <3>3
        <3> QED
            BY <2>1, <3>1, <3>2, <3>3
    <2>4. ASSUME OnlyJoins(queue, join), packet.body.type # "LEAVE",
                 packet.body.type = "JOIN" => packet = join
          PROVE  OnlyJoins(r, join)
        BY <1>3, <2>1, <2>2, <2>4 DEF OnlyJoins
    <2> QED
        BY <1>1, <2>2, <2>3, <2>4
<1> QED
    BY <1>1, <1>2, <1>3, SentWhere

\* What a console is told is of a lobby only if the answer is.
LEMMA SentTells ==
    ASSUME NEW S, NEW queue \in Seq(S), NEW packet \in S
    PROVE  Tells(Sent(queue, packet)) => Tells(queue) \/ packet.type = "LOBBY"
<1>1. PICK r : r = Sent(queue, packet)
    OBVIOUS
<1>2. CASE r = queue
    BY <1>1, <1>2
<1>3. CASE /\ Len(r) = Len(queue) + 1 /\ r[Len(queue) + 1] = packet
           /\ \A i \in 1 .. Len(queue) : r[i] = queue[i]
    <2>1. /\ Len(queue) \in Nat
          /\ \A i \in 1 .. Len(r) : i \in 1 .. Len(queue) \/ i = Len(queue) + 1
        BY <1>3
    <2> QED
        BY <1>1, <1>3, <2>1 DEF Tells
<1> QED
    BY <1>1, <1>2, <1>3, SentWhere

LEMMA SentAllTells ==
    ASSUME NEW S, NEW queue \in Seq(S), NEW packets \in Seq(S), Tells(SentAll(queue, packets))
    PROVE  Tells(queue) \/ Tells(packets)
<1>1. PICK i \in 1 .. Len(SentAll(queue, packets)) : SentAll(queue, packets)[i].type = "LOBBY"
    BY DEF Tells
<1>2. \/ \E j \in 1 .. Len(queue) : SentAll(queue, packets)[i] = queue[j]
      \/ \E j \in 1 .. Len(packets) : SentAll(queue, packets)[i] = packets[j]
    BY SentAllFacts
<1> QED
    BY <1>1, <1>2 DEF Tells

\* What an arrival or a loss leaves of a queue.
LEMMA TailVisit ==
    ASSUME NEW S, NEW queue \in Seq(S), queue # <<>>, NEW join
    PROVE  /\ Holds(queue, Head(queue).body.type)
           /\ \A type : Holds(Tail(queue), type) => Holds(queue, type)
           /\ HellosFirst(queue) => HellosFirst(Tail(queue))
           /\ HellosFirst(queue) /\ Head(queue).body.type = "JOIN" => ~Holds(queue, "HELLO")
           /\ OnlyJoins(queue, join) => OnlyJoins(Tail(queue), join)
           /\ OnlyJoins(queue, join) /\ Head(queue).body.type = "JOIN" =>
                    Head(queue) = join
<1>1. PICK r : r = Tail(queue)
    OBVIOUS
<1>2. /\ Len(queue) \in Nat /\ Len(queue) # 0 /\ Head(queue) = queue[1] /\ Len(r) = Len(queue) - 1
      /\ \A i \in 1 .. Len(r) : r[i] = queue[i + 1]
    BY <1>1
<1>3. 1 \in 1 .. Len(queue) /\ \A i \in 1 .. Len(r) : i + 1 \in 1 .. Len(queue)
    BY <1>2
<1>4. \A type : Holds(r, type) => Holds(queue, type)
    BY <1>2, <1>3 DEF Holds
<1>5. ASSUME HellosFirst(queue) PROVE HellosFirst(r)
    <2> SUFFICES ASSUME NEW i \in 1 .. Len(r), NEW j \in 1 .. Len(r),
                        r[i].body.type = "HELLO", r[j].body.type = "JOIN"
                 PROVE  i < j
        BY DEF HellosFirst
    <2>1. i + 1 < j + 1
        BY <1>2, <1>3, <1>5 DEF HellosFirst
    <2> QED
        BY <2>1
<1>6. ASSUME HellosFirst(queue), Head(queue).body.type = "JOIN", NEW i \in 1 .. Len(queue), queue[i].body.type = "HELLO"
      PROVE  FALSE
    <2>1. i < 1
        BY <1>2, <1>3, <1>6 DEF HellosFirst
    <2> QED
        BY <2>1
<1>7. OnlyJoins(queue, join) => OnlyJoins(r, join)
    BY <1>2, <1>3, <1>4 DEF OnlyJoins
<1>8. OnlyJoins(queue, join) /\ Head(queue).body.type = "JOIN" =>
            Head(queue) = join
    BY <1>2, <1>3 DEF OnlyJoins
<1>9. Holds(queue, Head(queue).body.type)
    BY <1>2, <1>3 DEF Holds
<1> QED
    BY <1>1, <1>4, <1>5, <1>6, <1>7, <1>8, <1>9 DEF Holds

LEMMA TailTells ==
    ASSUME NEW S, NEW queue \in Seq(S), queue # <<>>
    PROVE  /\ Head(queue).type = "LOBBY" => Tells(queue)
           /\ Tells(Tail(queue)) => Tells(queue)
<1>1. PICK rest : rest = Tail(queue)
    OBVIOUS
<1>2. /\ Len(queue) \in Nat /\ Len(queue) # 0 /\ Head(queue) = queue[1]
      /\ Len(rest) = Len(queue) - 1 /\ \A i \in 1 .. Len(rest) : rest[i] = queue[i + 1]
    BY <1>1
<1>3. 1 \in 1 .. Len(queue) /\ \A i \in 1 .. Len(rest) : i + 1 \in 1 .. Len(queue)
    BY <1>2
<1> QED
    BY <1>1, <1>2, <1>3 DEF Tells

\* What is no more than a queue was.
Rest(r, queue) == r = queue \/ (queue # <<>> /\ r = Tail(queue))

LEMMA RestVisit ==
    ASSUME NEW S, NEW queue \in Seq(S), NEW rest, Rest(rest, queue), NEW join
    PROVE  /\ \A type : Holds(rest, type) => Holds(queue, type)
           /\ HellosFirst(queue) => HellosFirst(rest)
           /\ OnlyJoins(queue, join) => OnlyJoins(rest, join)
BY TailVisit DEF Rest

-----------------------------------------------------------------------------
(* Where the server has a token.                                           *)

SamePlace(t) ==
    /\ player'[t].Lobby = player[t].Lobby /\ player'[t].Spectating = player[t].Spectating
    /\ t \in sessions' <=> t \in sessions

Nowhere(t) == player'[t].Lobby = NoLobby /\ t \notin sessions'

\* Leaving is out of a lobby, and nobody else's place changes.
LEMMA AwayPlace ==
    ASSUME IInv, NEW t \in Token
    PROVE  /\ PlayersLeft(player, {t}) \in [Token -> PlayerType]
           /\ PlayersLeft(player, {t})[t].Lobby = NoLobby
           /\ ~PlayersLeft(player, {t})[t].Spectating
           /\ \A u \in Token \ {t} : PlayersLeft(player, {t})[u] = player[u]
<1>1. player \in [Token -> PlayerType] /\ (player[t].Spectating => player[t].Lobby # NoLobby)
    BY DEF IInv, Sound, Typed, Seating
<1>2. \A u \in Token : Left(player[u]) \in PlayerType
    BY <1>1, LeftFacts
<1>3. Left(player[t]).Lobby = NoLobby /\ ~Left(player[t]).Spectating
    BY <1>1, LeftFacts
<1> QED
    BY <1>1, <1>2, <1>3 DEF PlayersLeft

\* JOIN puts its sender into the lobby it names, to play or to watch.
LEMMA JoinPlace ==
    ASSUME IInv, NEW t \in Token, NEW id \in Lobbies, Join(t, id)
    PROVE  /\ player'[t].Lobby = id /\ player'[t].Spectating = FALSE /\ t \in sessions'
           /\ \A u \in Token \ {t} : SamePlace(u)
<1> DEFINE pl == PlayersLeft(player, {t})
           seated == [pl[t] EXCEPT !.Lobby = id, !.Slot = FreeSlot(lobby[id]),
                        !.JoinSeq = joinSeq + 1, !.Points = 0, !.LastPlace = 0,
                        !.Racing = FALSE, !.Finished = FALSE, !.Kart = NoKart,
                        !.Colour = JoinColour(pl, LobbiesLeft(player, lobby, {t})[id], t)]
<1>1. pl \in [Token -> PlayerType] /\ ~pl[t].Spectating /\ \A u \in Token \ {t} : pl[u] = player[u]
    BY AwayPlace
<1>2. seated.Lobby = id /\ seated.Spectating = FALSE
    BY <1>1 DEF PlayerType
<1>3. \A grid : OnLot(seated, grid).Lobby = id /\ OnLot(seated, grid).Spectating = FALSE
    BY <1>1 DEF PlayerType, OnLot
<1>4. player'[t] = seated \/ \E grid : player'[t] = OnLot(seated, grid)
    BY <1>1 DEF Join
<1>5. player'[t].Lobby = id /\ player'[t].Spectating = FALSE
    <2> HIDE DEF seated
    <2> QED
        BY <1>2, <1>3, <1>4
<1>6. \A u \in Token \ {t} : player'[u] = pl[u]
    BY <1>1 DEF Join
<1>7. t \in sessions /\ sessions' = sessions
    BY DEF Join
<1> QED
    BY <1>1, <1>5, <1>6, <1>7 DEF SamePlace

LEMMA SpectatePlace ==
    ASSUME IInv, NEW t \in Token, NEW id \in Lobbies, Spectate(t, id)
    PROVE  /\ player'[t].Lobby = id /\ player'[t].Spectating = TRUE /\ t \in sessions'
           /\ \A u \in Token \ {t} : SamePlace(u)
<1> DEFINE pl == PlayersLeft(player, {t})
<1>1. pl \in [Token -> PlayerType] /\ \A u \in Token \ {t} : pl[u] = player[u]
    BY AwayPlace
<1>2. player'[t].Lobby = id /\ player'[t].Spectating = TRUE
    <2> DEFINE p == [pl[t] EXCEPT !.Lobby = id, !.Slot = NoSlot, !.Spectating = TRUE,
                                  !.Racing = FALSE, !.Finished = FALSE, !.Kart = NoKart]
    <2>1. player'[t] = p
        BY <1>1 DEF Spectate
    <2>2. p.Lobby = id /\ p.Spectating = TRUE
        BY <1>1 DEF PlayerType
    <2> HIDE DEF p
    <2> QED
        BY <2>1, <2>2
<1>3. \A u \in Token \ {t} : player'[u] = pl[u]
    BY <1>1 DEF Spectate
<1>4. t \in sessions /\ sessions' = sessions
    BY DEF Spectate
<1> QED
    BY <1>1, <1>2, <1>3, <1>4 DEF SamePlace

\* A wish moves nobody, whatever it starts; nor does what is sent in a race.
LEMMA RacePlace ==
    ASSUME IInv, NEW t \in Token,
           \/ \E wish \in Wishes : FollowerWish(t, wish) \/ LeaderWish(t, wish)
           \/ \E raceID \in RaceIDs : Retire(t, raceID)
           \/ \E raceID \in RaceIDs, finished \in BOOLEAN, ms \in Times, dist \in Dists :
                Kart(t, raceID, finished, ms, dist)
    PROVE  \A u \in Token : SamePlace(u)
<1>1. player \in [Token -> PlayerType]
    BY DEF IInv, Sound, Typed
<1>2. ASSUME NEW wish \in Wishes, FollowerWish(t, wish)
      PROVE  \A u \in Token : SamePlace(u)
    <2> DEFINE painted == [player[t] EXCEPT !.Colour = Repainted(t, wish.colour)]
    <2>1. painted.Lobby = player[t].Lobby /\ painted.Spectating = player[t].Spectating
        BY <1>1 DEF PlayerType
    <2>2. \A grid : /\ OnLot(painted, grid).Lobby = player[t].Lobby
                    /\ OnLot(painted, grid).Spectating = player[t].Spectating
        BY <1>1 DEF PlayerType, OnLot
    <2>3. \E moved : /\ moved = painted \/ \E grid : moved = OnLot(painted, grid)
                     /\ player' = [player EXCEPT ![t] =
                            [moved EXCEPT !.StartNonce = wish.nonce, !.nonceSeen = TRUE]]
        BY <1>2 DEF FollowerWish
    <2> HIDE DEF painted
    <2>4. PICK moved : /\ moved.Lobby = player[t].Lobby /\ moved.Spectating = player[t].Spectating
                       /\ player' = [player EXCEPT ![t] =
                            [moved EXCEPT !.StartNonce = wish.nonce, !.nonceSeen = TRUE]]
        BY <2>1, <2>2, <2>3
    <2>5. sessions' = sessions
        BY <1>2 DEF FollowerWish
    <2> QED
        BY <1>1, <2>4, <2>5 DEF SamePlace
<1>3. ASSUME NEW wish \in Wishes, LeaderWish(t, wish)
      PROVE  \A u \in Token : SamePlace(u)
    <2> DEFINE painted == [player EXCEPT ![t].Colour = Repainted(t, wish.colour)]
               picked == [Picked(lobby[player[t].Lobby], wish) EXCEPT !.Nonce = wish.nonce, !.synced = TRUE]
    <2>1. PICK started : /\ started = OnGrid(painted, picked) \/ started = painted
                         /\ player' = [started EXCEPT ![t].StartNonce = wish.nonce, ![t].nonceSeen = TRUE]
        BY <1>3 DEF LeaderWish
    <2>2. /\ DOMAIN painted = Token
          /\ \A u \in Token : painted[u].Lobby = player[u].Lobby /\ painted[u].Spectating = player[u].Spectating
                              /\ DOMAIN painted[u] = DOMAIN player[u]
        BY <1>1 DEF PlayerType
    <2>3. /\ DOMAIN OnGrid(painted, picked) = Token
          /\ \A u \in Token : /\ OnGrid(painted, picked)[u].Lobby = painted[u].Lobby
                              /\ OnGrid(painted, picked)[u].Spectating = painted[u].Spectating
        BY <1>1, <2>2 DEF OnGrid, PlayerType
    <2> HIDE DEF painted, picked
    <2>4. DOMAIN started = Token /\ \A u \in Token : /\ started[u].Lobby = player[u].Lobby
                                                     /\ started[u].Spectating = player[u].Spectating
        BY <2>1, <2>2, <2>3
    <2>5. \A u \in Token : player'[u].Lobby = player[u].Lobby /\ player'[u].Spectating = player[u].Spectating
        BY <2>1, <2>4
    <2>6. sessions' = sessions
        BY <1>3 DEF LeaderWish
    <2> QED
        BY <2>5, <2>6 DEF SamePlace
<1>4. ASSUME NEW raceID \in RaceIDs, Retire(t, raceID)
      PROVE  \A u \in Token : SamePlace(u)
    BY <1>1, <1>4 DEF Retire, Retired, PlayerType, SamePlace
<1>5. ASSUME NEW raceID, NEW finished, NEW ms, NEW dist, Kart(t, raceID, finished, ms, dist)
      PROVE  \A u \in Token : SamePlace(u)
    <2>1. PICK was, now, progress :
            player' = [player EXCEPT ![t] =
                [player[t] EXCEPT !.Kart = raceID, !.Progress = progress, !.Finished = was, !.FinishMs = now]]
        BY <1>5 DEF Kart
    <2>2. sessions' = sessions
        BY <1>5 DEF Kart
    <2> QED
        BY <1>1, <2>1, <2>2 DEF PlayerType, SamePlace
<1> QED
    BY <1>2, <1>3, <1>4, <1>5

\* What one client sends leaves the others where they are.
LEMMA OthersPlace ==
    ASSUME IInv, NEW t \in Token, Handle(t), NEW u \in Token \ {t}
    PROVE  SamePlace(u)
<1>1. player \in [Token -> PlayerType]
    BY DEF IInv, Sound, Typed
<1>2. Hello(t) => SamePlace(u)
    BY <1>1 DEF Hello, SamePlace
<1>3. Leave(t) => SamePlace(u)
    BY AwayPlace DEF Leave, SamePlace
<1> QED
    BY <1>2, <1>3, JoinPlace, SpectatePlace, RacePlace DEF Handle

\* A tick drops a session, with its place, or leaves the place alone.
LEMMA TickPlace ==
    ASSUME IInv, NEW silent \in SUBSET sessions, NEW due, Tick(silent, due), NEW t \in Token
    PROVE  SamePlace(t) \/ Nowhere(t)
<1> DEFINE pl == [u \in Token |-> IF u \in silent THEN NewPlayer ELSE player[u]]
           lb == LobbiesLeft(player, lobby, silent)
           verdict == [l \in Lobbies |-> Verdict(pl, l, lb[l], l \in due)]
           p == PlayerAdvanced(pl, lb[pl[t].Lobby], verdict[pl[t].Lobby], t)
<1>1. player \in [Token -> PlayerType]
    BY DEF IInv, Sound, Typed
<1>2. sessions' = sessions \ silent /\ player'[t] = IF pl[t].Lobby = NoLobby THEN pl[t] ELSE p
    BY DEF Tick
<1>3. pl[t] = IF t \in silent THEN NewPlayer ELSE player[t]
    OBVIOUS
<1>4. t \in silent => pl[t].Lobby = NoLobby
    BY <1>3 DEF NewPlayer
<1>5. t \notin silent => p.Lobby = player[t].Lobby /\ p.Spectating = player[t].Spectating
    BY <1>1, <1>3 DEF PlayerAdvanced, Placed, OffTrack, PlayerType
<1> HIDE DEF pl, p
<1> QED
    BY <1>2, <1>3, <1>4, <1>5 DEF SamePlace, Nowhere

-----------------------------------------------------------------------------
(* The first visit, step by step.                                          *)

\* The visit of a console, if it is in one, goes on as it was.
SameVisit(c) ==
    /\ console'[c].state = console[c].state /\ console'[c].visits = console[c].visits
    /\ console'[c].token = console[c].token
    /\ console'[c].join_id = console[c].join_id /\ console'[c].spectating = console[c].spectating

\* The server has all the tokens of a console where it had them.
SamePlaces(c) == \A t \in c : SamePlace(t)

OnlyTold(c) == Tells(down'[c]) => Tells(down[c]) \/ \E t \in c : player'[t].Lobby # NoLobby

\* The token of a console is one of its own.
LEMMA OwnToken ==
    ASSUME OInv, NEW c \in Consoles
    PROVE  console[c].token \in c /\ c \subseteq Token /\ DOMAIN console = Consoles
BY ConsoleAssumption DEF OInv, SoundConsoles, SoundConsole

LEMMA SameAsked ==
    ASSUME NEW c, SameVisit(c)
    PROVE  Asked(c)' = Asked(c) /\ (InVisit(c)' <=> InVisit(c))
BY DEF SameVisit, Asked, Stamped, InVisit

\* Nothing of a console changes but what it is told, what arrives, or that
\* the server forgets it.
LEMMA VisitKept ==
    ASSUME OInv, NEW c \in Consoles, FirstVisit(c), SameVisit(c), Rest(up'[c], up[c]),
           \A t \in c : SamePlace(t) \/ Nowhere(t), OnlyTold(c)
    PROVE  FirstVisit(c)'
<1> DEFINE u == console[c].token
<1>1. up[c] \in Seq(UpType) /\ u \in c
    BY OwnToken DEF OInv, Queues
<1>2. /\ \A type : Holds(up'[c], type) => Holds(up[c], type)
      /\ HellosFirst(up[c]) => HellosFirst(up'[c])
      /\ OnlyJoins(up[c], Asked(c)) => OnlyJoins(up'[c], Asked(c))
    BY <1>1, RestVisit
<1>3. (InVisit(c)' <=> InVisit(c)) /\ Asked(c)' = Asked(c) /\ console'[c].token = u
    BY SameAsked DEF SameVisit
<1>4. \A t \in c : player'[t].Lobby = NoLobby \/ SamePlace(t)
    BY DEF Nowhere
<1>5. ASSUME Unvisited(c) PROVE Unvisited(c)'
    <2>1. \A t \in c : player'[t].Lobby = NoLobby
        BY <1>4, <1>5 DEF Unvisited, SamePlace
    <2>2. ~Tells(down'[c])
        BY <1>5, <2>1 DEF Unvisited, OnlyTold
    <2> QED
        BY <1>2, <1>3, <1>5, <2>1, <2>2 DEF Unvisited
<1>6. ASSUME Visiting(c) PROVE Visiting(c)'
    <2>1. \A t \in c : player'[t].Lobby # NoLobby =>
                            t = u /\ AsAsked(console[c], player'[t]) /\ player[t].Lobby # NoLobby
        BY <1>4, <1>6 DEF Visiting, SamePlace, AsAsked
    <2>2. \A t \in c : player'[t].Lobby # NoLobby => AsAsked(console'[c], player'[t])
        BY <2>1 DEF AsAsked, SameVisit
    <2>3. Reached(c)' => Reached(c)
        BY <1>1, <1>3, <2>1 DEF Reached, OnlyTold, SameVisit
    <2>4. Known(c)' => Known(c) /\ player'[u].Lobby = player[u].Lobby
        BY <1>1, <1>3 DEF Known, SamePlace, Nowhere
    <2>5. Reached(c)' => ~Holds(up'[c], "HELLO") /\ (Known(c)' => player'[u].Lobby # NoLobby)
        BY <1>2, <1>6, <2>3, <2>4 DEF Visiting
    <2> QED
        BY <1>2, <1>3, <1>6, <2>1, <2>2, <2>5 DEF Visiting
<1> QED
    BY <1>3, <1>5, <1>6 DEF FirstVisit, SameVisit

\* A console is out of the lobby, or has not been in one.
LEMMA VisitEnds ==
    ASSUME NEW c \in Consoles, FirstVisit(c), console'[c].visits = console[c].visits,
           console'[c].state \notin {"Joining", "Lobby"}, SamePlaces(c),
           up'[c] = up[c] \/ InVisit(c), Tells(down'[c]) => Tells(down[c])
    PROVE  FirstVisit(c)'
<1>1. ~InVisit(c)'
    BY DEF InVisit
<1>2. ASSUME Unvisited(c) PROVE Unvisited(c)'
    BY <1>1, <1>2 DEF Unvisited, SamePlaces, SamePlace
<1> QED
    BY <1>1, <1>2 DEF FirstVisit

\* What a console's own steps leave of its record.
LEMMA OutFields ==
    ASSUME NEW r \in ConsoleType, NEW state
    PROVE  /\ Out(r, state).state = state /\ Out(r, state).visits = r.visits
           /\ RetireDropped(Out(r, state)).state = state
           /\ RetireDropped(Out(r, state)).visits = r.visits
           /\ [Out(r, state) EXCEPT !.error = TRUE].state = state
           /\ [Out(r, state) EXCEPT !.error = TRUE].visits = r.visits
BY DEF Out, RetireDropped, ConsoleType

\* The first visit begins with nothing of another one under way.
LEMMA VisitBegins ==
    ASSUME OInv, NEW c \in Consoles, FirstVisit(c), NEW id \in Lobbies, NEW spectate \in BOOLEAN,
           NetJoin(c, id, spectate)
    PROVE  FirstVisit(c)'
<1> DEFINE r == [console[c] EXCEPT !.state = "Joining", !.join_id = id,
                                   !.spectating = spectate, !.visits = @ + 1]
<1>1. console[c] \in ConsoleType /\ DOMAIN console = Consoles
    BY DEF OInv, SoundConsoles
<1>2. console'[c] = r
    BY <1>1 DEF NetJoin
<1>3. /\ r.visits = console[c].visits + 1 /\ console[c].visits \in Nat /\ r.state = "Joining"
      /\ r.token = console[c].token
    BY <1>1 DEF ConsoleType
<1> HIDE DEF r
<1>4. UNCHANGED <<serverVars, up, down>>
    BY DEF NetJoin
<1>5. CASE console[c].visits # 0
    BY <1>2, <1>3, <1>5 DEF FirstVisit
<1>6. CASE console[c].visits = 0
    <2>1. /\ \A t \in c : player[t].Lobby = NoLobby
          /\ ~Holds(up[c], "JOIN") /\ ~Holds(up[c], "LEAVE") /\ ~Tells(down[c])
        BY <1>6 DEF FirstVisit, Unvisited
    <2>2. /\ player' = player /\ up'[c] = up[c] /\ down'[c] = down[c]
          /\ console'[c].state = "Joining" /\ console'[c].visits = 1
          /\ console'[c].token \in c
        BY <1>2, <1>3, <1>4, <1>6, OwnToken DEF serverVars
    <2>3. HellosFirst(up'[c]) /\ OnlyJoins(up'[c], Asked(c)')
        BY <2>1, <2>2 DEF HellosFirst, OnlyJoins, Holds
    <2>4. ~Reached(c)'
        BY <2>1, <2>2 DEF Reached
    <2> QED
        BY <2>1, <2>2, <2>3, <2>4 DEF FirstVisit, Visiting
<1> QED
    BY <1>5, <1>6

LEMMA ScreensVisit ==
    ASSUME OInv, NEW c \in Consoles, FirstVisit(c), Screens(c)
    PROVE  FirstVisit(c)'
<1> DEFINE r == console[c]
<1>1. r \in ConsoleType /\ DOMAIN console = Consoles
    BY DEF OInv, SoundConsoles
<1>2. UNCHANGED serverVars => SamePlaces(c)
    BY DEF serverVars, SamePlaces, SamePlace
<1>3. ASSUME NetLeave(c) PROVE FirstVisit(c)'
    <2>1. /\ console'[c] = RetireDropped(Out(r, "Browse")) /\ InVisit(c)
          /\ UNCHANGED <<serverVars, down>>
        BY <1>1, <1>3 DEF NetLeave
    <2> QED
        BY <1>1, <1>2, <2>1, OutFields, VisitEnds
<1>4. ASSUME NetEnd(c) PROVE FirstVisit(c)'
    <2>1. /\ console'[c] = RetireDropped(Out(r, "Off")) /\ UNCHANGED <<serverVars, down>>
          /\ up'[c] = up[c] \/ InVisit(c)
        <3>1. c \in DOMAIN up
            BY DEF OInv, Queues
        <3> QED
            BY <1>1, <1>4, <3>1 DEF NetEnd
    <2> QED
        BY <1>1, <1>2, <2>1, OutFields, VisitEnds
<1>5. ASSUME NetRetire(c) \/ NetPressStart(c) PROVE FirstVisit(c)'
    <2>1. UNCHANGED <<serverVars, up, down>>
        BY <1>5 DEF NetRetire, NetPressStart
    <2>2. SameVisit(c)
        <3>1. CASE NetRetire(c)
            BY <1>1, <3>1 DEF NetRetire, SameVisit, ConsoleType
        <3>2. CASE NetPressStart(c)
            <4>1. console'[c] = [r EXCEPT !.start_nonce = @ + 1, !.pressed = TRUE]
                BY <1>1, <3>2 DEF NetPressStart
            <4> QED
                BY <1>1, <4>1 DEF SameVisit, ConsoleType
        <3> QED
            BY <1>5, <3>1, <3>2
    <2> QED
        BY <1>2, <2>1, <2>2, VisitKept DEF Rest, OnlyTold, SamePlaces
<1>6. ASSUME NetBegin(c) PROVE FirstVisit(c)'
    <2>1. /\ console'[c].state = "Hello" /\ console'[c].visits = r.visits
          /\ UNCHANGED <<serverVars, up, down>>
        BY <1>1, <1>6 DEF NetBegin, ConsoleType
    <2> QED
        BY <1>2, <2>1, VisitEnds
<1>7. ASSUME ShowError(c) PROVE FirstVisit(c)'
    <2>1. /\ console'[c].state = "Rejected" /\ console'[c].visits = r.visits
          /\ UNCHANGED <<serverVars, up, down>>
        BY <1>1, <1>7 DEF ShowError, ConsoleType
    <2> QED
        BY <1>2, <2>1, VisitEnds
<1> QED
    BY <1>3, <1>4, <1>5, <1>6, <1>7, VisitBegins DEF Screens

LEMMA ReceiveVisit ==
    ASSUME OInv, NEW c \in Consoles, FirstVisit(c), Receive(c)
    PROVE  FirstVisit(c)'
<1> DEFINE r == console[c]
           packet == Head(down[c])
<1>1. r \in ConsoleType /\ DOMAIN console = Consoles
    BY DEF OInv, SoundConsoles
<1>2. \E type : Receives(c, type)
    BY DEF Receive, HandleWelcome, HandleReject, HandleLobbies, HandleLobby
<1>3. /\ down[c] # <<>> /\ down'[c] = Tail(down[c]) /\ UNCHANGED <<serverVars, up>>
      /\ down[c] \in Seq(DownType)
    BY <1>2 DEF Receives, OInv, Queues
<1>4. Tells(down'[c]) => Tells(down[c])
    BY <1>3, TailTells
<1>5. /\ SamePlaces(c) /\ \A t \in c : SamePlace(t)
      /\ up'[c] = up[c] /\ Rest(up'[c], up[c]) /\ OnlyTold(c)
    BY <1>3, <1>4 DEF serverVars, SamePlaces, SamePlace, Rest, OnlyTold
<1>6. ASSUME console'[c] = r PROVE FirstVisit(c)'
    BY <1>5, <1>6, VisitKept DEF SameVisit
<1>7. ASSUME NEW state \in {"Hello", "Browse", "Rejected"}, console'[c] = Out(r, state)
      PROVE  FirstVisit(c)'
    BY <1>1, <1>4, <1>5, <1>7, OutFields, VisitEnds
<1>8. ASSUME HandleWelcome(c) PROVE FirstVisit(c)'
    <2>1. CASE r.state = "Hello"
        <3>1. console'[c].state = "Browse" /\ console'[c].visits = r.visits
            BY <1>1, <1>8, <2>1 DEF HandleWelcome, ConsoleType
        <3> QED
            BY <1>4, <1>5, <3>1, VisitEnds
    <2>2. CASE r.state # "Hello"
        BY <1>6, <1>8, <2>2 DEF HandleWelcome
    <2> QED
        BY <2>1, <2>2
<1>9. ASSUME HandleReject(c) PROVE FirstVisit(c)'
    <2>1. console'[c] = r \/ \E state \in {"Hello", "Browse", "Rejected"} : console'[c] = Out(r, state)
        BY <1>1, <1>9 DEF HandleReject
    <2> QED
        BY <1>6, <1>7, <2>1
<1>10. ASSUME HandleLobbies(c) PROVE FirstVisit(c)'
    BY <1>6, <1>10 DEF HandleLobbies
<1>11. ASSUME HandleLobby(c) PROVE FirstVisit(c)'
    <2>1. CASE ~TakesState(r, packet)
        BY <1>6, <1>11, <2>1 DEF HandleLobby
    <2>2. CASE TakesState(r, packet)
        <3>1. /\ console'[c].state = "Lobby" /\ console'[c].visits = r.visits
              /\ console'[c].join_id = r.join_id /\ console'[c].spectating = r.spectating
              /\ console'[c].token = r.token
            BY <1>1, <1>11, <2>2 DEF HandleLobby, ConsoleType
        <3>2. InVisit(c)
            BY <2>2 DEF TakesState, InVisit
        <3>3. Tells(down[c])
            BY <1>3, <1>11, TailTells DEF HandleLobby, Receives
        <3>4. ASSUME r.visits = 1 PROVE Visiting(c)'
            <4>1. Visiting(c) /\ Reached(c)
                BY <3>2, <3>3, <3>4 DEF FirstVisit, Reached
            <4>2. Asked(c)' = Asked(c) /\ UNCHANGED <<sessions, player>>
                BY <1>3, <3>1 DEF Asked, Stamped, serverVars
            <4>3. \A t \in c : player'[t].Lobby # NoLobby =>
                                t = r.token /\ AsAsked(console'[c], player'[t])
                BY <3>1, <4>1, <4>2 DEF Visiting, AsAsked
            <4>4. ~Holds(up'[c], "HELLO") /\ (Known(c)' => player'[r.token].Lobby # NoLobby)
                BY <1>5, <3>1, <4>1, <4>2 DEF Visiting, Known
            <4>5. HellosFirst(up'[c]) /\ OnlyJoins(up'[c], Asked(c)')
                BY <1>5, <4>1, <4>2 DEF Visiting
            <4> QED
                BY <3>1, <4>3, <4>4, <4>5 DEF Visiting
        <3>5. r.visits # 0
            BY <3>2 DEF FirstVisit, Unvisited
        <3> QED
            BY <3>1, <3>4, <3>5 DEF FirstVisit
    <2> QED
        BY <2>1, <2>2
<1> QED
    BY <1>8, <1>9, <1>10, <1>11 DEF Receive

\* What the timers send: HELLO before a visit, and during one no JOIN but for
\* the lobby asked for.
LEMMA UpdateVisit ==
    ASSUME OInv, NEW c \in Consoles, FirstVisit(c), NetUpdate(c)
    PROVE  FirstVisit(c)'
<1> DEFINE r == console[c]
<1>1. /\ r \in ConsoleType /\ DOMAIN console = Consoles
      /\ up[c] \in Seq(UpType) /\ DOMAIN up = Consoles
    BY DEF OInv, Queues, SoundConsoles
<1>2. UNCHANGED <<serverVars, down>> /\ SameVisit(c)
    BY <1>1 DEF NetUpdate, SameVisit, ConsoleType
<1>3. SamePlaces(c) /\ (\A t \in c : SamePlace(t)) /\ OnlyTold(c)
    BY <1>2 DEF serverVars, SamePlaces, SamePlace, OnlyTold
<1>4. CASE up'[c] = up[c]
    BY <1>2, <1>3, <1>4, VisitKept DEF Rest
<1>5. ASSUME NEW body \in Resent(c), up'[c] = Sent(up[c], Stamped(c, body))
      PROVE  FirstVisit(c)'
    <2> DEFINE packet == Stamped(c, body)
    <2>1. packet \in UpType /\ packet.body = body
        BY <1>5, ResentTyped, StampedTyped DEF Stamped
    <2>2. /\ \A type : Holds(up'[c], type) => Holds(up[c], type) \/ body.type = type
          /\ HellosFirst(up[c]) /\ (body.type = "HELLO" => ~Holds(up[c], "JOIN")) => HellosFirst(up'[c])
          /\ /\ OnlyJoins(up[c], Asked(c)) /\ body.type # "LEAVE"
             /\ body.type = "JOIN" => packet = Asked(c)
             => OnlyJoins(up'[c], Asked(c))
        <3> HIDE DEF packet
        <3>1. up'[c] = Sent(up[c], packet)
            BY <1>5 DEF packet
        <3> QED
            BY <1>1, <2>1, <3>1, SentVisit
    <2>3. On(c)
        BY DEF NetUpdate
    <2>4. (InVisit(c)' <=> InVisit(c)) /\ Asked(c)' = Asked(c)
        BY <1>2, SameAsked
    <2>5. body.type # "LEAVE" /\ (body.type = "HELLO" \/ body.type = "JOIN" => ~(r.state = "Lobby"))
        BY <1>5, <2>3 DEF Resent, On, Plain, JoinPacket, WishPacket, RetirePacket
    <2>6. body.type = "JOIN" => r.state = "Joining" /\ body = JoinPacket(r.join_id, r.spectating)
        BY <1>5, <2>3 DEF Resent, On, Plain, JoinPacket, WishPacket, RetirePacket
    <2>7. body.type = "HELLO" => r.state = "Hello"
        BY <1>5, <2>3 DEF Resent, On, Plain, JoinPacket, WishPacket, RetirePacket
    <2>8. body.type = "JOIN" => packet = Asked(c)
        BY <2>6 DEF Asked
    <2>9. ASSUME Unvisited(c) PROVE Unvisited(c)'
        BY <1>2, <1>3, <2>2, <2>4, <2>5, <2>6, <2>9 DEF Unvisited, SamePlace, InVisit
    <2>10. ASSUME Visiting(c), InVisit(c) PROVE Visiting(c)'
        <3>1. body.type # "HELLO"
            BY <2>7, <2>10 DEF InVisit
        <3>2. HellosFirst(up'[c]) /\ OnlyJoins(up'[c], Asked(c)')
            BY <2>2, <2>4, <2>5, <2>8, <2>10, <3>1 DEF Visiting
        <3>3. UNCHANGED <<sessions, player, down>> /\ console'[c].token = r.token
            BY <1>2 DEF serverVars, SameVisit
        <3>4. \A t \in c : player'[t].Lobby # NoLobby =>
                            t = r.token /\ AsAsked(console'[c], player'[t])
            BY <1>2, <2>10, <3>3 DEF Visiting, AsAsked, SameVisit
        <3>5. (Reached(c)' <=> Reached(c)) /\ (Known(c)' <=> Known(c))
            BY <1>2, <3>3 DEF Reached, Known, SameVisit
        <3>6. Reached(c)' => ~Holds(up'[c], "HELLO") /\ (Known(c)' => player'[r.token].Lobby # NoLobby)
            BY <2>2, <2>10, <3>1, <3>3, <3>5 DEF Visiting
        <3> QED
            BY <3>2, <3>3, <3>4, <3>6 DEF Visiting
    <2> QED
        BY <1>2, <2>4, <2>9, <2>10 DEF FirstVisit, SameVisit
<1>6. up'[c] = up[c] \/ \E body \in Resent(c) : up'[c] = Sent(up[c], Stamped(c, body))
    BY <1>1 DEF NetUpdate
<1> QED
    BY <1>4, <1>5, <1>6

\* What a console is told holds no more than that.
LEMMA ToldVisit ==
    ASSUME OInv, NEW c \in Consoles, NEW packet \in DownType, packet.type # "LOBBY",
           Answered(c, packet)
    PROVE  OnlyTold(c) /\ (Tells(down'[c]) => Tells(down[c]))
<1>1. down[c] \in Seq(DownType) /\ down'[c] = Sent(down[c], packet)
    BY DEF OInv, Queues, Answered
<1> QED
    BY <1>1, SentTells DEF OnlyTold

\* The server takes the JOIN of a first visit: the console is in the lobby it
\* asked for, and there is no HELLO left to take it out.
LEMMA JoinVisit ==
    ASSUME OInv, NEW c \in Consoles, NEW t \in c, FirstVisit(c), Arrives(c, t, "JOIN"),
           t \in sessions',
           player'[t].Lobby = Head(up[c]).body.id, player'[t].Spectating = Head(up[c]).body.spectate,
           Head(up[c]).body.id \in Lobbies, \A u \in c \ {t} : SamePlace(u)
    PROVE  FirstVisit(c)'
<1>1. /\ up[c] \in Seq(UpType) /\ up[c] # <<>> /\ Head(up[c]).body.type = "JOIN"
      /\ Head(up[c]).token = t /\ up'[c] = Tail(up[c]) /\ UNCHANGED console
    BY DEF Arrives, OInv, Queues
<1>2. Holds(up[c], "JOIN")
    BY <1>1, TailVisit
<1>3. console[c].visits # 0
    BY <1>2 DEF FirstVisit, Unvisited
<1>4. ASSUME console[c].visits = 1, InVisit(c) PROVE Visiting(c)'
    <2>1. Visiting(c)
        BY <1>4 DEF FirstVisit
    <2>2. Head(up[c]) = Asked(c)
        BY <1>1, <2>1, TailVisit DEF Visiting
    <2>3. t = console[c].token /\ AsAsked(console[c], player'[t])
        BY <1>1, <2>2 DEF AsAsked, Asked, Stamped, JoinPacket
    <2>4. HellosFirst(up'[c]) /\ OnlyJoins(up'[c], Asked(c)) /\ ~Holds(up'[c], "HELLO")
        BY <1>1, <2>1, TailVisit DEF Visiting
    <2>5. player'[t].Lobby # NoLobby
        BY DEF Lobbies, NoLobby
    <2>6. \A u \in c \ {t} : player'[u].Lobby = NoLobby
        BY <2>1, <2>3 DEF Visiting, SamePlace
    <2>7. Asked(c)' = Asked(c)
        BY <1>1 DEF Asked, Stamped
    <2> QED
        BY <1>1, <2>3, <2>4, <2>5, <2>6, <2>7 DEF Visiting
<1> QED
    BY <1>1, <1>3, <1>4 DEF FirstVisit, InVisit

LEMMA ServeVisit ==
    ASSUME OInv, NEW c \in Consoles, NEW t \in c, FirstVisit(c), Serves(c, t)
    PROVE  FirstVisit(c)'
<1>1. IInv /\ t \in Token /\ c \subseteq Token /\ player \in [Token -> PlayerType]
    BY ConsoleAssumption DEF OInv, NInv, IInv, Sound, Typed
<1>2. ASSUME NEW type, Arrives(c, t, type)
      PROVE  /\ up[c] \in Seq(UpType) /\ up[c] # <<>> /\ Head(up[c]).body.type = type
             /\ up'[c] = Tail(up[c])
             /\ UNCHANGED console /\ Rest(up'[c], up[c]) /\ SameVisit(c)
    BY <1>2 DEF Arrives, OInv, Queues, Rest, SameVisit
<1>3. UNCHANGED serverVars => \A u \in c : SamePlace(u)
    BY DEF serverVars, SamePlace
<1>4. UNCHANGED down => OnlyTold(c)
    BY DEF OnlyTold
<1>5. /\ Plain("WELCOME").type # "LOBBY" /\ Plain("LOBBIES").type # "LOBBY"
      /\ \A reason : Reject(reason).type # "LOBBY"
    BY DEF Plain, Reject
<1>6. ASSUME NEW type, Arrives(c, t, type), UNCHANGED serverVars, OnlyTold(c)
      PROVE  FirstVisit(c)'
    BY <1>2, <1>3, <1>6, VisitKept
<1>7. ASSUME ServeHello(c, t) PROVE FirstVisit(c)'
    <2>1. CASE UNCHANGED serverVars
        BY <1>5, <1>6, <1>7, <2>1, AnswersTyped, ToldVisit DEF ServeHello
    <2>2. CASE Hello(t) /\ Answered(c, Plain("WELCOME"))
        <3>1. /\ player'[t] = NewPlayer /\ \A u \in Token \ {t} : player'[u] = player[u]
            BY <1>1, <2>2 DEF Hello
        <3>2. player'[t].Lobby = NoLobby
            BY <3>1 DEF NewPlayer
        <3>3. /\ up[c] \in Seq(UpType) /\ up[c] # <<>> /\ Head(up[c]).body.type = "HELLO"
              /\ up'[c] = Tail(up[c]) /\ UNCHANGED console
            BY <1>2, <1>7 DEF ServeHello
        <3>4. Tells(down'[c]) => Tells(down[c])
            BY <1>5, <2>2, AnswersTyped, ToldVisit
        <3>5. \A u \in c : player'[u].Lobby # NoLobby => player[u].Lobby # NoLobby /\ player'[u] = player[u]
            BY <1>1, <3>1, <3>2
        <3>6. ASSUME Unvisited(c) PROVE Unvisited(c)'
            BY <3>3, <3>4, <3>5, <3>6, TailVisit DEF Unvisited, InVisit
        <3>7. ASSUME Visiting(c) PROVE Visiting(c)'
            <4>1. Holds(up[c], "HELLO")
                BY <3>3, TailVisit
            <4>2. ~Reached(c)
                BY <3>7, <4>1 DEF Visiting
            <4>3. ~Reached(c)'
                BY <3>3, <3>4, <3>5, <4>2, OwnToken DEF Reached
            <4>4. HellosFirst(up'[c]) /\ OnlyJoins(up'[c], Asked(c))
                BY <3>3, <3>7, TailVisit DEF Visiting
            <4>5. Asked(c)' = Asked(c)
                BY <3>3 DEF Asked, Stamped
            <4>6. \A u \in c : player'[u].Lobby # NoLobby =>
                                    u = console[c].token /\ AsAsked(console[c], player'[u])
                BY <3>5, <3>7 DEF Visiting
            <4> QED
                BY <3>3, <4>3, <4>4, <4>5, <4>6 DEF Visiting
        <3> QED
            BY <3>3, <3>6, <3>7 DEF FirstVisit, InVisit
    <2> QED
        BY <1>7, <2>1, <2>2 DEF ServeHello
<1>8. ASSUME ServeStranger(c, t) PROVE FirstVisit(c)'
    BY <1>5, <1>6, <1>8, AnswersTyped, ToldVisit DEF ServeStranger
<1>9. ASSUME ServeList(c, t) \/ ServePing(c, t) PROVE FirstVisit(c)'
    BY <1>4, <1>5, <1>6, <1>9, AnswersTyped, ToldVisit DEF ServeList, ServePing
<1>10. ASSUME ServeJoin(c, t) PROVE FirstVisit(c)'
    <2> DEFINE body == Head(up[c]).body
    <2>1. Arrives(c, t, "JOIN") /\ t \in sessions /\ ~body.spectate
        BY <1>10 DEF ServeJoin
    <2>2. body.spectate = FALSE /\ body.id \in Lobbies
        BY <2>1, ArrivesFacts, UpFields
    <2>3. CASE Join(t, body.id)
        <3>1. /\ player'[t].Lobby = body.id /\ player'[t].Spectating = FALSE /\ t \in sessions'
              /\ \A u \in Token \ {t} : SamePlace(u)
            BY <1>1, <2>2, <2>3, JoinPlace
        <3> QED
            BY <1>1, <2>1, <2>2, <3>1, JoinVisit
    <2>4. CASE player[t].Lobby = body.id /\ ~player[t].Spectating /\ UNCHANGED serverVars
        <3>1. player[t].Spectating = FALSE
            BY <1>1, <2>4 DEF PlayerType
        <3>2. /\ player'[t].Lobby = body.id /\ player'[t].Spectating = FALSE /\ t \in sessions'
              /\ \A u \in c \ {t} : SamePlace(u)
            BY <1>3, <2>1, <2>4, <3>1 DEF serverVars
        <3> QED
            BY <2>1, <2>2, <3>2, JoinVisit
    <2>5. CASE UNCHANGED serverVars /\ Answered(c, Reject("lobby full"))
        BY <1>5, <1>6, <2>1, <2>5, AnswersTyped, ToldVisit
    <2> QED
        BY <1>10, <2>3, <2>4, <2>5 DEF ServeJoin
<1>11. ASSUME ServeSpectate(c, t) PROVE FirstVisit(c)'
    <2> DEFINE body == Head(up[c]).body
    <2>1. Arrives(c, t, "JOIN") /\ t \in sessions /\ body.spectate
        BY <1>11 DEF ServeSpectate
    <2>2. body.spectate = TRUE /\ body.id \in Lobbies
        BY <2>1, ArrivesFacts, UpFields
    <2>3. CASE Spectate(t, body.id)
        <3>1. /\ player'[t].Lobby = body.id /\ player'[t].Spectating = TRUE /\ t \in sessions'
              /\ \A u \in Token \ {t} : SamePlace(u)
            BY <1>1, <2>2, <2>3, SpectatePlace
        <3> QED
            BY <1>1, <2>1, <2>2, <3>1, JoinVisit
    <2>4. CASE player[t].Lobby = body.id /\ player[t].Spectating /\ UNCHANGED serverVars
        <3>1. player[t].Spectating = TRUE
            BY <1>1, <2>4 DEF PlayerType
        <3>2. /\ player'[t].Lobby = body.id /\ player'[t].Spectating = TRUE /\ t \in sessions'
              /\ \A u \in c \ {t} : SamePlace(u)
            BY <1>3, <2>1, <2>4, <3>1 DEF serverVars
        <3> QED
            BY <2>1, <2>2, <3>2, JoinVisit
    <2> QED
        BY <1>11, <2>3, <2>4 DEF ServeSpectate
<1>12. ASSUME ServeLeave(c, t) PROVE FirstVisit(c)'
    <2>1. Holds(up[c], "LEAVE") /\ UNCHANGED console
        BY <1>2, <1>12, TailVisit DEF ServeLeave
    <2> QED
        BY <2>1 DEF FirstVisit, Unvisited, Visiting, OnlyJoins, InVisit
<1>13. ASSUME ServeWish(c, t) PROVE FirstVisit(c)'
    <2>1. Arrives(c, t, "WISH") /\ UNCHANGED down /\ Head(up[c]).body.wish \in Wishes
        BY <1>13, ArrivesFacts, UpFields DEF ServeWish
    <2>2. \A u \in c : SamePlace(u)
        BY <1>1, <1>3, <1>13, <2>1, RacePlace DEF ServeWish
    <2> QED
        BY <1>2, <1>4, <2>1, <2>2, VisitKept
<1>14. ASSUME ServeRetire(c, t) PROVE FirstVisit(c)'
    <2>1. Arrives(c, t, "RETIRE") /\ UNCHANGED down /\ Head(up[c]).body.race_id \in RaceIDs
        BY <1>14, ArrivesFacts, UpFields DEF ServeRetire
    <2>2. \A u \in c : SamePlace(u)
        BY <1>1, <1>3, <1>14, <2>1, RacePlace DEF ServeRetire
    <2> QED
        BY <1>2, <1>4, <2>1, <2>2, VisitKept
<1> QED
    BY <1>7, <1>8, <1>9, <1>10, <1>11, <1>12, <1>13, <1>14 DEF Serves

\* What a tick adds is of a lobby that a token of the console is in.
LEMMA TickTells ==
    ASSUME OInv, NEW c \in Consoles, NEW told \in SUBSET Lobbies, down'[c] \in Tellings(c, told)
    PROVE  OnlyTold(c)
<1> DEFINE S == {t \in c : player'[t].Lobby \in told}
<1>1. PICK order \in Seq(S) :
            down'[c] = SentAll(down[c], [i \in DOMAIN order |-> LobbyPacket(player', lobby', order[i])])
    BY TellingsFacts
<1>2. CASE order = <<>>
    <2>1. PICK none :
            none = [i \in DOMAIN order |-> LobbyPacket(player', lobby', order[i])]
        OBVIOUS
    <2>2. none \in Seq(DownType) /\ Len(none) = 0
        BY <1>2, <2>1
    <2>3. down[c] \in Seq(DownType) /\ down'[c] = SentAll(down[c], none)
        BY <1>1, <2>1 DEF OInv, Queues
    <2>4. ~Tells(none)
        BY <2>2 DEF Tells
    <2> QED
        BY <2>2, <2>3, <2>4, SentAllTells DEF OnlyTold
<1>3. CASE order # <<>>
    <2>1. order[1] \in S
        BY <1>3
    <2>2. player'[order[1]].Lobby # NoLobby /\ order[1] \in c
        BY <2>1 DEF Lobbies, NoLobby
    <2> QED
        BY <2>2 DEF OnlyTold
<1> QED
    BY <1>2, <1>3

\* The first visits go on soundly in every step.
LEMMA VisitStep ==
    ASSUME OInv, VInv, [OnlineNext]_onlineVars
    PROVE  VInv'
<1> SUFFICES ASSUME NEW c \in Consoles
             PROVE  FirstVisit(c)'
    BY DEF VInv
<1>1. FirstVisit(c) /\ IInv /\ c \subseteq Token
    BY ConsoleAssumption DEF VInv, OInv, NInv
<1>2. UNCHANGED serverVars => SamePlaces(c)
    BY DEF serverVars, SamePlaces, SamePlace
<1>3. ASSUME console'[c] = console[c], Rest(up'[c], up[c]), OnlyTold(c),
             \A t \in c : SamePlace(t) \/ Nowhere(t)
      PROVE  FirstVisit(c)'
    BY <1>1, <1>3, VisitKept DEF SameVisit
<1>4. ASSUME down'[c] = down[c] PROVE OnlyTold(c)
    BY <1>4 DEF OnlyTold
<1>5. up'[c] = up[c] => Rest(up'[c], up[c])
    BY DEF Rest
<1>6. /\ console \in SoundConsoles /\ DOMAIN console = Consoles /\ console[c] \in ConsoleType
      /\ DOMAIN up = Consoles /\ DOMAIN down = Consoles
      /\ up[c] \in Seq(UpType) /\ down[c] \in Seq(DownType)
    BY DEF OInv, Queues, SoundConsoles
<1>7. ASSUME NEW d \in Consoles, Screens(d) \/ Receive(d) \/ NetUpdate(d) \/ GiveUp(d)
      PROVE  FirstVisit(c)'
    <2>1. CASE d # c
        <3>1. console'[c] = console[c] /\ up'[c] = up[c] /\ down'[c] = down[c] /\ UNCHANGED serverVars
            BY <1>6, <1>7, <2>1
            DEF Screens, NetBegin, NetJoin, NetLeave, NetEnd, NetRetire, NetPressStart, ShowError,
                Receive, HandleWelcome, HandleReject, HandleLobbies, HandleLobby, Receives,
                NetUpdate, GiveUp
        <3> QED
            BY <1>2, <1>3, <1>4, <1>5, <3>1 DEF SamePlaces
    <2>2. CASE d = c /\ GiveUp(c)
        <3>1. /\ console'[c] = [Out(console[c], "Lost") EXCEPT !.error = TRUE]
              /\ UNCHANGED <<serverVars, up, down>>
            BY <1>6, <2>2 DEF GiveUp
        <3>2. console'[c].state = "Lost" /\ console'[c].visits = console[c].visits
            BY <1>6, <3>1, OutFields
        <3> QED
            BY <1>1, <1>2, <3>1, <3>2, VisitEnds
    <2> QED
        BY <1>1, <1>7, <2>1, <2>2, ScreensVisit, ReceiveVisit, UpdateVisit
<1>8. ASSUME NEW d \in Consoles, Serve(d) PROVE FirstVisit(c)'
    <2>1. PICK t \in d : Serves(d, t)
        BY <1>8 DEF Serve
    <2>2. CASE d # c
        <3>1. (Handle(t) \/ UNCHANGED vars) /\ t \in Token /\ UNCHANGED console
            BY <2>1, ServeHandles, ConsoleAssumption
        <3>2. t \notin c
            BY <2>1, <2>2, ConsoleAssumption
        <3>3. \A u \in c : SamePlace(u)
            BY <1>1, <3>1, <3>2, OthersPlace DEF vars, SamePlace
        <3>4. up'[c] = up[c]
            BY <1>6, <2>1, <2>2, ServesArrive DEF Arrives
        <3>5. UNCHANGED down \/ \E packet : Answered(d, packet)
            BY <2>1, ServeHandles
        <3>6. down'[c] = down[c]
            BY <1>6, <2>2, <3>5 DEF Answered
        <3> QED
            BY <1>3, <1>4, <1>5, <3>1, <3>3, <3>4, <3>6
    <2> QED
        BY <1>1, <2>1, <2>2, ServeVisit
<1>9. ASSUME NEW d \in Consoles, LoseUp(d) \/ LoseDown(d) PROVE FirstVisit(c)'
    <2>1. UNCHANGED <<serverVars, console>> /\ Rest(up'[c], up[c]) /\ Rest(down'[c], down[c])
        BY <1>6, <1>9 DEF LoseUp, LoseDown, Rest
    <2>2. OnlyTold(c)
        BY <1>6, <2>1, TailTells DEF OnlyTold, Rest
    <2> QED
        BY <1>2, <1>3, <2>1, <2>2 DEF SamePlaces
<1>10. ASSUME NEW silent \in SUBSET sessions, NEW due \in SUBSET Timed, NEW told \in SUBSET Lobbies,
              ServerTick(silent, due, told)
       PROVE  FirstVisit(c)'
    <2>1. \A t \in c : SamePlace(t) \/ Nowhere(t)
        BY <1>1, <1>10, TickPlace DEF ServerTick
    <2>2. UNCHANGED <<console, up>> /\ down'[c] \in Tellings(c, told)
        BY <1>10 DEF ServerTick
    <2>3. OnlyTold(c)
        BY <2>2, TickTells
    <2> QED
        BY <1>3, <1>5, <2>1, <2>2, <2>3
<1>11. ASSUME Strangers PROVE FirstVisit(c)'
    <2>1. PICK u \in Token \ UNION Consoles : Handle(u)
        BY <1>11 DEF Strangers
    <2>2. \A t \in c : SamePlace(t)
        BY <1>1, <2>1, OthersPlace
    <2> QED
        BY <1>3, <1>4, <1>5, <1>11, <2>2 DEF Strangers
<1>12. ASSUME Restart PROVE FirstVisit(c)'
    <2>1. (\A t \in c : Nowhere(t)) /\ UNCHANGED <<console, up, down>>
        BY <1>1, <1>12 DEF Restart, Nowhere, NewPlayer
    <2> QED
        BY <1>3, <1>4, <1>5, <2>1
<1>13. ASSUME UNCHANGED onlineVars PROVE FirstVisit(c)'
    BY <1>2, <1>3, <1>4, <1>5, <1>13 DEF onlineVars, serverVars, SamePlaces
<1> QED
    BY <1>7, <1>8, <1>9, <1>10, <1>11, <1>12, <1>13 DEF OnlineNext

\* In every state, a console's first visit is as described above.
THEOREM VisitInvariance == OnlineSpec => []VInv
<1>1. OnlineInit => VInv
    <2> SUFFICES ASSUME OnlineInit, NEW c \in Consoles
                 PROVE  FirstVisit(c)
        BY DEF VInv
    <2>1. console[c].visits = 0 /\ console[c].state = "Hello"
        BY DEF OnlineInit, FirstSession
    <2>2. up[c] = <<>> /\ down[c] = <<>> /\ (\A type : ~Holds(<<>>, type)) /\ ~Tells(<<>>)
        BY DEF OnlineInit, Holds, Tells
    <2>3. \A t \in c : player[t].Lobby = NoLobby
        BY ConsoleAssumption DEF OnlineInit, Init, NewPlayer
    <2> QED
        BY <2>1, <2>2, <2>3 DEF FirstVisit, Unvisited, InVisit
<1>2. OInv /\ VInv /\ [OnlineNext]_onlineVars => VInv'
    BY VisitStep
<1> QED
    BY <1>1, <1>2, OnlineInvariance, PTL DEF OnlineSpec

\* A console that the server knows is, in the first visit it makes in any of
\* its sessions, where it takes itself to be, whatever has become of the
\* sessions before.
THEOREM FirstVisitsHold == OnlineSpec => []FirstVisitsAgree
<1>1. OInv /\ VInv => FirstVisitsAgree
    <2> SUFFICES ASSUME OInv, NEW c \in Consoles, FirstVisit(c), console[c].visits = 1,
                        console[c].state = "Lobby", Known(c)
                 PROVE  Has(c, console[c].join_id, console[c].spectating)
        BY DEF VInv, FirstVisitsAgree
    <2>1. Visiting(c) /\ Reached(c) /\ console[c].token \in c
        BY OwnToken DEF FirstVisit, InVisit, Reached
    <2> QED
        BY <2>1 DEF Visiting, AsAsked, Has, InLobby
<1> QED
    BY <1>1, OnlineInvariance, VisitInvariance, PTL

\* The visits of a console are counted, up to the bound.
VisitsCounted == \A c \in Consoles : console[c].visits \in 0 .. MaxVisits

LEMMA CountStep ==
    ASSUME OInv, VisitsCounted, [OnlineNext]_onlineVars
    PROVE  VisitsCounted'
<1> SUFFICES ASSUME NEW c \in Consoles
             PROVE  console'[c].visits \in 0 .. MaxVisits
    BY DEF VisitsCounted
<1> DEFINE r == console[c]
<1>1. r.visits \in 0 .. MaxVisits /\ MaxVisits \in Nat
    BY ConsoleAssumption DEF VisitsCounted
<1>2. r \in ConsoleType /\ DOMAIN console = Consoles
    BY DEF OInv, SoundConsoles
<1>3. UNCHANGED console => console'[c].visits \in 0 .. MaxVisits
    BY <1>1
<1>4. ASSUME NEW id, NEW spectate, NEW u, NetJoin(u, id, spectate)
      PROVE  console'[c].visits \in 0 .. MaxVisits
    <2>1. CASE u = c
        <3>1. console'[c].visits = r.visits + 1 /\ r.visits < MaxVisits
            BY <1>2, <1>4, <2>1 DEF NetJoin, ConsoleType
        <3> QED
            BY <1>1, <3>1
    <2>2. CASE u # c
        BY <1>1, <1>2, <1>4, <2>2 DEF NetJoin
    <2> QED
        BY <2>1, <2>2
<1>5. ASSUME NEW u, NetLeave(u) \/ NetEnd(u) \/ NetRetire(u) \/ GiveUp(u)
      PROVE  console'[c].visits \in 0 .. MaxVisits
    <2>1. CASE NetLeave(u) \/ NetEnd(u)
        BY <1>1, <1>2, <2>1, OutFields DEF NetLeave, NetEnd
    <2>2. CASE NetRetire(u)
        BY <1>1, <1>2, <2>2 DEF NetRetire, ConsoleType
    <2>3. CASE GiveUp(u)
        BY <1>1, <1>2, <2>3, OutFields DEF GiveUp
    <2> QED
        BY <1>5, <2>1, <2>2, <2>3
<1>6. ASSUME NEW u, NetPressStart(u) \/ NetBegin(u) \/ ShowError(u)
      PROVE  console'[c].visits \in 0 .. MaxVisits
    <2>1. console'[c].visits = r.visits
        <3>1. CASE NetPressStart(u)
            BY <1>2, <3>1 DEF NetPressStart, ConsoleType
        <3>2. CASE NetBegin(u)
            <4>1. PICK token : console' = [console EXCEPT ![u].state = "Hello", ![u].error = FALSE,
                                ![u].token = token, ![u].fresh = @ \ {token}, ![u].pressed = FALSE]
                BY <3>2 DEF NetBegin
            <4> QED
                BY <1>2, <4>1 DEF ConsoleType
        <3>3. CASE ShowError(u)
            BY <1>2, <3>3 DEF ShowError, ConsoleType
        <3> QED
            BY <1>6, <3>1, <3>2, <3>3
    <2> QED
        BY <1>1, <2>1
<1>7. ASSUME NEW u, NetUpdate(u) PROVE console'[c].visits \in 0 .. MaxVisits
    BY <1>1, <1>2, <1>7 DEF NetUpdate, ConsoleType
<1>8. ASSUME NEW u, HandleWelcome(u) \/ HandleLobbies(u) \/ HandleLobby(u)
      PROVE  console'[c].visits \in 0 .. MaxVisits
    BY <1>1, <1>2, <1>8 DEF HandleWelcome, HandleLobbies, HandleLobby, ConsoleType
<1>9. ASSUME NEW u, HandleReject(u) PROVE console'[c].visits \in 0 .. MaxVisits
    <2>1. console'[c] = r \/ \E state : console'[c] = Out(r, state)
        BY <1>2, <1>9 DEF HandleReject
    <2> QED
        BY <1>1, <1>2, <2>1, OutFields
<1>10. ASSUME NEW u \in Consoles, Serve(u) \/ LoseUp(u) \/ LoseDown(u) PROVE UNCHANGED console
    BY <1>10, ServeHandles DEF Serve, LoseUp, LoseDown
<1> QED
    BY <1>3, <1>4, <1>5, <1>6, <1>7, <1>8, <1>9, <1>10
    DEF OnlineNext, Screens, Receive, ServerTick, Strangers, Restart, onlineVars

\* "A lost packet costs a quarter of a second, never a desync", of consoles
\* that make one visit in however many sessions; of two it is not true, be
\* they of one session or of two (the run Desync).
THEOREM RoomsAgreeOnce == MaxVisits = 1 => (OnlineSpec => []RoomsAgree)
<1> SUFFICES ASSUME MaxVisits = 1
             PROVE  OnlineSpec => []RoomsAgree
    OBVIOUS
<1>1. OnlineInit => VisitsCounted
    BY ConsoleAssumption DEF OnlineInit, FirstSession, VisitsCounted
<1>2. OInv /\ VisitsCounted /\ [OnlineNext]_onlineVars => VisitsCounted'
    BY CountStep
<1>3. OnlineSpec => []VisitsCounted
    BY <1>1, <1>2, OnlineInvariance, PTL DEF OnlineSpec
<1>4. VInv /\ VisitsCounted /\ FirstVisitsAgree => RoomsAgree
    <2> SUFFICES ASSUME VInv, VisitsCounted, FirstVisitsAgree, NEW c \in Consoles, console[c].state = "Lobby"
                 PROVE  console[c].visits = 1
        BY DEF RoomsAgree, FirstVisitsAgree
    <2>1. console[c].visits # 0
        BY DEF VInv, FirstVisit, Unvisited, InVisit
    <2> QED
        BY <2>1 DEF VisitsCounted
<1> QED
    BY <1>3, <1>4, VisitInvariance, FirstVisitsHold, PTL
=============================================================================
