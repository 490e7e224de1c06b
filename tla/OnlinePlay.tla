----------------------------- MODULE OnlinePlay -----------------------------
(***************************************************************************)
(* Consoles that play online: the sessions of dreamkarts/src/net.c, one    *)
(* after the other, over a network to the lobby server.                    *)
(*                                                                         *)
(* A console makes a new token for each session, and is here the set of    *)
(* the tokens it makes.  It has one socket, which it never closes: what    *)
(* the server sends to any of its tokens comes to that socket, and says    *)
(* nothing of the token.  The other tokens are clients nothing is known    *)
(* of: any packet of theirs may arrive at any time, as in LobbyServer.     *)
(*                                                                         *)
(* The network carries the packets of a console in order, and may lose any *)
(* of them, at any time and in either direction; what does not fit is lost *)
(* too.  Nothing is acknowledged, so every packet may go out again: the    *)
(* timers of net_update are left out, and a resend may come at any moment. *)
(* The three LEAVEs net_leave sends in a row are one packet here, lost     *)
(* when all three are.                                                     *)
(*                                                                         *)
(* While the link comes up (NET_LINK) a console neither sends nor          *)
(* receives: here it is still off then.                                    *)
(*                                                                         *)
(* Karts and chat are left out; so a race ends by its clock or because     *)
(* nobody is in it.                                                        *)
(***************************************************************************)
EXTENDS LobbyProps, Sequences

LOCAL INSTANCE SequencesExt

CONSTANTS
    Consoles,       \* the consoles modelled, each the set of its tokens
    Capacity,       \* packets the network holds for a console, each way
    MaxVisits,      \* bound on the visits to a lobby a console makes, ever
    MaxOutages      \* bound on time-outs of live sessions and server restarts

ASSUME ConsoleAssumption ==
    /\ \A c \in Consoles : c \subseteq Token
    /\ \A c, d \in Consoles : c = d \/ c \cap d = {}
    /\ Capacity \in Nat /\ MaxVisits \in Nat /\ MaxOutages \in Nat

VARIABLES
    console,    \* Consoles -> the variables of net.c
    up,         \* Consoles -> the packets on their way to the server
    down,       \* Consoles -> the packets on their way to the console
    outages     \* time-outs and restarts so far

serverVars == <<sessions, player, lobby, joinSeq>>
onlineVars == <<sessions, player, lobby, joinSeq, console, up, down, outages>>

-----------------------------------------------------------------------------
(* Packets.                                                                *)

NoRace == -1

\* What the console reads in a LOBBY packet: the room, whether it is shown
\* watching it, the state, the race, and whether it leads and races.
LobbyPacket(pl, lb, t) ==
    LET p == pl[t]
        room == lb[p.Lobby]
    IN  [type |-> "LOBBY", id |-> p.Lobby, watching |-> p.Spectating,
         state |-> room.State, race_id |-> room.RaceID, lot |-> Roam(room),
         leads |-> ~p.Spectating /\ room.Leader = p.Slot,
         racing |-> ~p.Spectating /\ p.Racing]

Plain(type) == [type |-> type]
PlayJoin(id, spectate) == [type |-> "JOIN", id |-> id, spectate |-> FALSE]  \* mutant
JoinPacket(id, spectate) == [type |-> "JOIN", id |-> id, spectate |-> spectate]
WishUnpressed(wish) == [type |-> "WISH", wish |-> [wish EXCEPT !.nonce = 0]]  \* mutant
WishPacket(wish) == [type |-> "WISH", wish |-> wish]
RetirePacket(race) == [type |-> "RETIRE", race_id |-> race]
Reject(reason) == [type |-> "REJECT", reason |-> reason]

BodyType ==
    {Plain(type) : type \in {"HELLO", "LIST", "PING", "LEAVE"}}
        \cup {JoinPacket(id, spectate) : id \in Lobbies, spectate \in BOOLEAN}
        \cup {WishPacket(wish) : wish \in Wishes}
        \cup {RetirePacket(race) : race \in RaceIDs}

\* Up go the token and the packet; down goes the packet alone.
UpType == [token : Token, body : BodyType]

LobbyPacketType ==
    [type : {"LOBBY"}, id : Lobbies, watching : BOOLEAN, state : Phases,
     race_id : RaceIDs, lot : BOOLEAN, leads : BOOLEAN, racing : BOOLEAN]

DownType ==
    {Plain(type) : type \in {"WELCOME", "LOBBIES"}}
        \cup {Reject(reason) : reason \in {"full", "lobby full", "session"}}
        \cup LobbyPacketType

Sent(queue, packet) == IF Len(queue) < Capacity THEN Append(queue, packet) ELSE queue

\* Several packets, of which the last ones may not fit.
SentAll(queue, packets) ==
    LET all == queue \o packets
    IN  [i \in 1 .. (IF Len(all) < Capacity THEN Len(all) ELSE Capacity) |-> all[i]]

-----------------------------------------------------------------------------
(* The console.  join_id and spectating are those of the visit under way,  *)
(* and shown is the newest LOBBY packet taken in it: the code leaves old   *)
(* values in the three, and sets them anew before it reads them.  error is *)
(* whether the screen shows one.  fresh (the tokens it has not made yet),  *)
(* visits (begun so far, over all sessions) and pressed (Start has been    *)
(* pressed in the session) are history.                                    *)

Nothing == [type |-> "NOTHING"]

ConsoleType ==
    [state : {"Hello", "Browse", "Joining", "Lobby", "Rejected", "Lost", "Off"},
     error : BOOLEAN, token : Token, fresh : SUBSET Token,
     join_id : Lobbies \cup {NoLobby}, spectating : BOOLEAN, start_nonce : Nonces,
     retire_id : RaceIDs \cup {NoRace}, shown : LobbyPacketType \cup {Nothing},
     pressed : BOOLEAN, visits : Nat]

\* A console in its first session, once the link is up: the first since it was
\* switched on, or since nothing of earlier ones is left but the start nonce.
FirstSession(c, token, nonce) ==
    [state |-> "Hello", error |-> FALSE, token |-> token, fresh |-> c \ {token},
     join_id |-> NoLobby, spectating |-> FALSE, start_nonce |-> nonce,
     retire_id |-> NoRace, shown |-> Nothing, pressed |-> FALSE, visits |-> 0]

OnlineInit ==
    /\ Init
    /\ \E token \in [Consoles -> Token], nonce \in [Consoles -> Nonces] :
            /\ \A c \in Consoles : token[c] \in c
            /\ console = [c \in Consoles |-> FirstSession(c, token[c], nonce[c])]
    /\ up = [c \in Consoles |-> <<>>]
    /\ down = [c \in Consoles |-> <<>>]
    /\ outages = 0

\* No longer in a lobby, nor on the way into one.
Out(r, state) ==
    [r EXCEPT !.state = state, !.join_id = NoLobby, !.spectating = FALSE, !.shown = Nothing]

On(c) == console[c].state \notin {"Rejected", "Lost", "Off"}

InVisit(c) == console[c].state \in {"Joining", "Lobby"}

Plays(c) == console[c].state = "Lobby" /\ ~console[c].spectating

\* The room's screen listens to a player only if the state it shows has it
\* among the players (net_me); one that asked to play may be shown watching.
HasMe(c) == Plays(c) /\ ~console[c].shown.watching

\* A packet as send_packet sends it.
Stamped(c, body) == [token |-> console[c].token, body |-> body]

-----------------------------------------------------------------------------
(* What the screens of online.c ask of the session.                        *)

\* net_begin, from the menu, up to the first HELLO: a new token.  The start
\* nonce goes on from the session before, and so does what is on its way.
NetBegin(c) ==
    /\ console[c].state = "Off"
    /\ \E token \in console[c].fresh :
            console' = [console EXCEPT ![c].state = "Hello", ![c].error = FALSE,
                                       ![c].token = token, ![c].fresh = @ \ {token},
                                       ![c].pressed = FALSE]
    /\ UNCHANGED <<serverVars, up, down, outages>>

\* net_join and net_spectate, from the lobby browser.
NetJoin(c, id, spectate) ==
    LET r == console[c]
    IN  /\ r.state = "Browse" /\ ~r.error
        /\ r.visits < MaxVisits
        /\ console' = [console EXCEPT ![c] =
                        [r EXCEPT !.state = "Joining", !.join_id = id,
                                  !.spectating = spectate, !.visits = @ + 1]]
        /\ UNCHANGED <<serverVars, up, down, outages>>

RetireDropped(r) == [r EXCEPT !.retire_id = NoRace]

\* net_leave, from the room or while joining.
NetLeave(c) ==
    /\ InVisit(c)
    /\ Plays(c) => HasMe(c)
    /\ console' = [console EXCEPT ![c] = RetireDropped(Out(@, "Browse"))]
    /\ up' = [up EXCEPT ![c] = Sent(@, Stamped(c, Plain("LEAVE")))]
    /\ UNCHANGED <<serverVars, down, outages>>

\* net_end, on the way back to the menu.  The socket stays open, and what
\* comes waits in it for the next session.
NetEnd(c) ==
    /\ console[c].state # "Off"
    /\ console' = [console EXCEPT ![c] = RetireDropped(Out(@, "Off"))]
    /\ up' = [up EXCEPT ![c] = IF InVisit(c) THEN Sent(@, Stamped(c, Plain("LEAVE"))) ELSE @]
    /\ UNCHANGED <<serverVars, down, outages>>

\* net_retire, from the menu of a race the console is in.
NetRetire(c) ==
    /\ Plays(c)
    /\ console[c].shown.racing
    /\ console[c].shown.state # "Waiting"
    /\ console' = [console EXCEPT ![c].retire_id = console[c].shown.race_id]
    /\ UNCHANGED <<serverVars, up, down, outages>>

\* net_press_start: the leader starts a race, or a player in the room asks to
\* go back on to the lot of a Free Roam session.
NetPressStart(c) ==
    LET r == console[c]
    IN  /\ HasMe(c)
        /\ IF r.shown.state = "Waiting" THEN r.shown.leads
           ELSE r.shown.lot /\ ~r.shown.racing
        /\ r.start_nonce + 1 \in Nonces
        /\ console' = [console EXCEPT ![c] =
                        [r EXCEPT !.start_nonce = @ + 1, !.pressed = TRUE]]
        /\ UNCHANGED <<serverVars, up, down, outages>>

\* A session that was refused is over once the screen has shown the error.
ShowError(c) ==
    /\ console[c].state = "Rejected"
    /\ console' = [console EXCEPT ![c].error = TRUE]
    /\ UNCHANGED <<serverVars, up, down, outages>>

-----------------------------------------------------------------------------
(* net_update: what a console receives, and what it sends again.           *)

\* A console that is lost goes on receiving; one that is rejected still gets
\* what came with the REJECT.
Receives(c, type) ==
    /\ console[c].state # "Off"
    /\ console[c].state = "Rejected" => ~console[c].error
    /\ down[c] # <<>>
    /\ Head(down[c]).type = type
    /\ down' = [down EXCEPT ![c] = Tail(@)]
    /\ UNCHANGED <<serverVars, up, outages>>

HandleWelcome(c) ==
    /\ Receives(c, "WELCOME")
    /\ console' = IF console[c].state = "Hello"
                  THEN [console EXCEPT ![c].state = "Browse"] ELSE console

HandleReject(c) ==
    /\ Receives(c, "REJECT")
    /\ console' =
        [console EXCEPT ![c] =
            CASE Head(down[c]).reason = "session" -> Out(@, "Hello")
              [] Head(down[c]).reason = "lobby full" ->
                    IF @.state = "Joining" THEN Out(@, "Browse") ELSE @
              [] OTHER -> Out(@, "Rejected")]

HandleLobbies(c) == Receives(c, "LOBBIES") /\ UNCHANGED console

AnyState(r, packet) == TRUE  \* mutant: of whatever visit

\* A console that is joining takes the state of the lobby it asked for, in
\* the part it asked for; one that is in takes any; others take none.
TakesState(r, packet) ==
    \/ r.state = "Lobby"
    \/ r.state = "Joining" /\ packet.id = r.join_id /\ packet.watching = r.spectating

HandleLobby(c) ==
    LET packet == Head(down[c])
    IN  /\ Receives(c, "LOBBY")
        /\ console' = IF TakesState(console[c], packet)
                      THEN [console EXCEPT ![c].state = "Lobby", ![c].shown = packet]
                      ELSE console

\* Nothing heard for six seconds (twelve after HELLO), or the link has gone.
GiveUp(c) ==
    /\ On(c)
    /\ console' = [console EXCEPT ![c] = [Out(@, "Lost") EXCEPT !.error = TRUE]]
    /\ UNCHANGED <<serverVars, up, down, outages>>

RetireStands(r) == r.retire_id  \* mutant: asked for in every race to come

\* The retire request, while the shown state has us in the race it names.
StillRetiring(r) ==
    IF r.shown.racing /\ r.shown.state # "Waiting" /\ r.shown.race_id = r.retire_id
    THEN r.retire_id ELSE NoRace

\* mutant: RETIRE goes out whether or not it was asked for
ResentRetire(c) ==
    LET r == console[c]
    IN  IF Plays(c) THEN {RetirePacket(r.retire_id)}
        ELSE IF r.state = "Hello" THEN {Plain("HELLO")}
        ELSE IF r.state = "Joining" THEN {JoinPacket(r.join_id, r.spectating)}
        ELSE {}

\* What the timers may call for, by the state of the session.
Resent(c) ==
    LET r == console[c]
    IN  CASE r.state = "Hello" -> {Plain("HELLO")}
          [] r.state = "Browse" -> {Plain("LIST"), Plain("PING")}
          [] r.state = "Joining" -> {JoinPacket(r.join_id, r.spectating), Plain("PING")}
          [] r.state = "Lobby" /\ r.spectating -> {Plain("PING")}
          [] OTHER ->
                {WishPacket(wish) : wish \in {w \in Wishes : w.nonce = r.start_nonce}}
                    \cup {RetirePacket(race) : race \in {StillRetiring(r)} \ {NoRace}}

NetUpdate(c) ==
    /\ On(c)
    /\ console' = IF Plays(c)
                  THEN [console EXCEPT ![c].retire_id = StillRetiring(console[c])]
                  ELSE console
    /\ \/ \E body \in Resent(c) : up' = [up EXCEPT ![c] = Sent(@, Stamped(c, body))]
       \/ UNCHANGED up
    /\ UNCHANGED <<serverVars, down, outages>>

Receive(c) == HandleWelcome(c) \/ HandleReject(c) \/ HandleLobbies(c) \/ HandleLobby(c)

Screens(c) ==
    \/ \E id \in Lobbies, spectate \in BOOLEAN : NetJoin(c, id, spectate)
    \/ NetBegin(c) \/ NetLeave(c) \/ NetEnd(c) \/ NetRetire(c) \/ NetPressStart(c)
    \/ ShowError(c)

-----------------------------------------------------------------------------
(* The server: a packet of a console arrives, and is answered.  Whatever   *)
(* session of the console it is of, the answer comes to its socket.        *)

Arrives(c, t, type) ==
    /\ up[c] # <<>>
    /\ Head(up[c]).token = t /\ Head(up[c]).body.type = type
    /\ up' = [up EXCEPT ![c] = Tail(@)]
    /\ UNCHANGED <<console, outages>>

Answered(c, packet) == down' = [down EXCEPT ![c] = Sent(@, packet)]

ServeHello(c, t) ==
    /\ Arrives(c, t, "HELLO")
    /\ IF t \in sessions \/ Cardinality(sessions) < MaxSessions
       THEN /\ IF t \in sessions THEN UNCHANGED serverVars ELSE Hello(t)
            /\ Answered(c, Plain("WELCOME"))
       ELSE UNCHANGED serverVars /\ Answered(c, Reject("full"))

\* Anything but HELLO from a token without a session.
ServeStranger(c, t) ==
    /\ t \notin sessions
    /\ \E type \in {"LIST", "PING", "JOIN", "LEAVE", "WISH", "RETIRE"} : Arrives(c, t, type)
    /\ UNCHANGED serverVars
    /\ Answered(c, Reject("session"))

ServeList(c, t) ==
    /\ t \in sessions
    /\ Arrives(c, t, "LIST")
    /\ UNCHANGED serverVars
    /\ Answered(c, Plain("LOBBIES"))

\* mutant: the server answers whoever it hears
PingAnswered(c, t) ==
    /\ t \in sessions
    /\ Arrives(c, t, "PING")
    /\ UNCHANGED serverVars
    /\ Answered(c, Plain("LOBBIES"))

ServePing(c, t) ==
    /\ t \in sessions
    /\ Arrives(c, t, "PING")
    /\ UNCHANGED <<serverVars, down>>

ServeJoin(c, t) ==
    LET id == Head(up[c]).body.id
    IN  /\ t \in sessions
        /\ Arrives(c, t, "JOIN")
        /\ ~Head(up[c]).body.spectate
        /\ \/ /\ \/ Join(t, id)
                 \/ player[t].Lobby = id /\ ~player[t].Spectating /\ UNCHANGED serverVars
              /\ Answered(c, LobbyPacket(player', lobby', t))
           \/ /\ player[t].Lobby = id => player[t].Spectating
              /\ FreeSlot(lobby[id]) = NoSlot
              /\ UNCHANGED serverVars
              /\ Answered(c, Reject("lobby full"))

ServeSpectate(c, t) ==
    LET id == Head(up[c]).body.id
    IN  /\ t \in sessions
        /\ Arrives(c, t, "JOIN")
        /\ Head(up[c]).body.spectate
        /\ \/ Spectate(t, id)
           \/ player[t].Lobby = id /\ player[t].Spectating /\ UNCHANGED serverVars
        /\ Answered(c, LobbyPacket(player', lobby', t))

ServeLeave(c, t) ==
    /\ t \in sessions
    /\ Arrives(c, t, "LEAVE")
    /\ IF player[t].Lobby = NoLobby THEN UNCHANGED serverVars ELSE Leave(t)
    /\ UNCHANGED down

ServeWish(c, t) ==
    LET wish == Head(up[c]).body.wish
    IN  /\ t \in sessions
        /\ Arrives(c, t, "WISH")
        /\ \/ FollowerWish(t, wish)
           \/ LeaderWish(t, wish)
           \/ ~InSlot(t) /\ UNCHANGED serverVars
        /\ UNCHANGED down

ServeRetire(c, t) ==
    LET race == Head(up[c]).body.race_id
        room == lobby[player[t].Lobby]
    IN  /\ t \in sessions
        /\ Arrives(c, t, "RETIRE")
        /\ IF Racing(t) /\ race = room.RaceID /\ Live(room)
           THEN Retire(t, race) ELSE UNCHANGED serverVars
        /\ UNCHANGED down

Serves(c, t) ==
    \/ ServeHello(c, t) \/ ServeStranger(c, t) \/ ServeList(c, t) \/ ServePing(c, t)
    \/ ServeJoin(c, t) \/ ServeSpectate(c, t) \/ ServeLeave(c, t)
    \/ ServeWish(c, t) \/ ServeRetire(c, t)

Serve(c) == \E t \in c : Serves(c, t)

-----------------------------------------------------------------------------
(* The server's clock, its other clients, and what goes wrong.             *)

\* The sessions that consoles still talk in.
InUse == {console[c].token : c \in {d \in Consoles : On(d)}}

\* What a console is sent when the lobbies of `told' are, in some order: a
\* LOBBY for each of its sessions that is in one of them.
Tellings(c, told) ==
    {SentAll(down[c], [i \in DOMAIN order |-> LobbyPacket(player', lobby', order[i])]) :
        order \in SetToSeqs({t \in c : player'[t].Lobby \in told})}

\* Tick, which sends the state of the lobbies of `told': those that have
\* changed and those whose 250 ms are over.
ServerTick(silent, due, told) ==
    /\ UNCHANGED <<console, up>>
    /\ outages + Cardinality(silent \cap InUse) <= MaxOutages
    /\ outages' = outages + Cardinality(silent \cap InUse)
    /\ Tick(silent, due)
    /\ down' \in {queues \in [Consoles -> UNION {Tellings(c, told) : c \in Consoles}] :
                    \A c \in Consoles : queues[c] \in Tellings(c, told)}

Strangers ==
    /\ \E t \in Token \ UNION Consoles : Handle(t)
    /\ UNCHANGED <<console, up, down, outages>>

\* The server is restarted, and knows nobody; what is under way arrives.
Restart ==
    /\ outages < MaxOutages
    /\ outages' = outages + 1
    /\ sessions' = {}
    /\ player' = [t \in Token |-> NewPlayer]
    /\ lobby' \in [Lobbies -> {NewLobby(r) : r \in FirstRaceIDs}]
    /\ joinSeq' = 0
    /\ UNCHANGED <<console, up, down>>

LoseUp(c) ==
    /\ up[c] # <<>>
    /\ up' = [up EXCEPT ![c] = Tail(@)]
    /\ UNCHANGED <<serverVars, console, down, outages>>

LoseDown(c) ==
    /\ down[c] # <<>>
    /\ down' = [down EXCEPT ![c] = Tail(@)]
    /\ UNCHANGED <<serverVars, console, up, outages>>

OnlineNext ==
    \/ \E c \in Consoles :
            Screens(c) \/ Receive(c) \/ NetUpdate(c) \/ GiveUp(c)
                \/ Serve(c) \/ LoseUp(c) \/ LoseDown(c)
    \/ \E silent \in SUBSET sessions, due \in SUBSET Timed, told \in SUBSET Lobbies :
            ServerTick(silent, due, told)
    \/ Strangers
    \/ Restart

OnlineSpec == OnlineInit /\ [][OnlineNext]_onlineVars

-----------------------------------------------------------------------------
(* Fairness.  The server's clock goes on ticking, and a console's timers   *)
(* go on firing; a packet on its way arrives or is lost; and of a packet   *)
(* that is sent again and again one arrives now and then.  A console that  *)
(* hears nothing gives up.                                                 *)

Resends(c, type) ==
    NetUpdate(c) /\ up'[c] # up[c] /\ up'[c][Len(up'[c])].body.type = type

ServesJoin(c) ==
    \E t \in c : ServeJoin(c, t) \/ ServeSpectate(c, t) \/ ServeStranger(c, t)

ServesWish(c) == \E t \in c : ServeWish(c, t)

HearsServer(c) == HandleReject(c) \/ HandleLobby(c)

TellsState(c) ==
    /\ player[console[c].token].Lobby # NoLobby
    /\ \E due \in SUBSET Timed : ServerTick({}, due, {player[console[c].token].Lobby})

TimesOut(c) == down[c] = <<>> /\ GiveUp(c)

Advances(l) == \E due \in SUBSET Timed : l \in due /\ ServerTick({}, due, {})

OnlineFair ==
    /\ \A c \in Consoles :
        /\ WF_onlineVars(NetUpdate(c))
        /\ WF_onlineVars(Serve(c) \/ LoseUp(c))
        /\ WF_onlineVars(Receive(c) \/ LoseDown(c))
        /\ WF_onlineVars(TimesOut(c))
        /\ \A type \in {"JOIN", "WISH"} : SF_onlineVars(Resends(c, type))
        /\ SF_onlineVars(ServesJoin(c))
        /\ SF_onlineVars(ServesWish(c))
        /\ SF_onlineVars(HearsServer(c))
        /\ SF_onlineVars(TellsState(c))
    /\ \A l \in Lobbies : WF_onlineVars(Advances(l))

OnlineFairSpec == OnlineSpec /\ OnlineFair

\* The server also goes on hearing from a console that browses, as it must
\* for the session not to time out.
BrowseFairSpec ==
    /\ OnlineFairSpec
    /\ \A c \in Consoles :
        SF_onlineVars(Resends(c, "LIST")) /\ SF_onlineVars(\E t \in c : ServeList(c, t))
=============================================================================
