-------------------------------- MODULE Chat --------------------------------
(***************************************************************************)
(* A console's say in the chat of its lobby: it says a line until it hears *)
(* the echo (dreamkarts/src/net.c), the server relays a line once and      *)
(* meters each player (server/lobby/server.go, chat).                      *)
(*                                                                         *)
(* The first session of a console and the server's record of it.  The room *)
(* has a seat for it each time it joins, in whichever slot the others have *)
(* left free; the others take and leave the other slots, and say any line, *)
(* at any time.  Packets arrive in order or are lost.  A line stands for   *)
(* its text, and line 0 for what CleanChat and the filter leave nothing    *)
(* of.  Left out: the list of lines a console shows, and watchers, who     *)
(* hear and have no say.                                                   *)
(***************************************************************************)
EXTENDS Integers, Sequences

CONSTANTS
    SayIds,         \* message ids are 1 .. SayIds (255)
    ChatSlots,      \* the slots of the room
    Censored,       \* the lines that CleanChat and the filter leave nothing of
    ChatBurst,      \* lines a player may say at once (3)
    ChatCapacity,   \* packets the network holds, each way
    MaxLines,       \* bound on the lines said
    MaxUnheard,     \* bound on the lines in a row the console hears no echo of
    MaxJoins        \* bound on its visits to the room

\* An id comes back after SayIds lines: some line in between is heard.
ASSUME ChatAssumption ==
    /\ 0 \in ChatSlots /\ ChatSlots \subseteq Nat
    /\ SayIds \in Nat \ {0} /\ ChatBurst \in Nat \ {0} /\ ChatCapacity \in Nat \ {0}
    /\ MaxLines \in Nat /\ MaxJoins \in Nat
    /\ MaxUnheard \in Nat /\ MaxUnheard < SayIds

VARIABLES
    mouth,      \* the console: its session, its slot in the LOBBY it took last,
                \* and the say_ variables, with the line of an id that was given
                \* up forgotten
    desk,       \* what the server keeps of the player
    saying,     \* the packets on their way to the server
    hearing,    \* the packets on their way to the console
    relayed,    \* the lines relayed, one entry a relay; for the properties
    lines       \* lines said so far

chatVars == <<mouth, desk, saying, hearing, relayed, lines>>

ChatInit ==
    /\ mouth = [state |-> "Browse", you |-> 0, say |-> "Idle", id |-> 0, line |-> 0,
                unheard |-> 0, joins |-> 0]
    /\ desk = [seated |-> FALSE, slot |-> 0, seen |-> FALSE, id |-> 0, tokens |-> ChatBurst]
    /\ saying = <<>>
    /\ hearing = <<>>
    /\ relayed = <<>>
    /\ lines = 0

Posted(queue, packet) ==
    IF Len(queue) < ChatCapacity THEN Append(queue, packet) ELSE queue
SendsOut(packet) == saying' = Posted(saying, packet)

ChatPacket(slot, id) == [type |-> "CHAT", slot |-> slot, id |-> id]
RoomPacket(slot) == [type |-> "LOBBY", you |-> slot]

-----------------------------------------------------------------------------
(* The console.                                                            *)

ChatJoin ==
    /\ mouth.state = "Browse" /\ mouth.joins < MaxJoins
    /\ mouth' = [mouth EXCEPT !.state = "Joining", !.say = "Idle", !.line = 0, !.joins = @ + 1]
    /\ UNCHANGED <<desk, saying, hearing, relayed, lines>>

\* The three LEAVEs that net_leave sends count as one.
ChatLeave ==
    /\ mouth.state # "Browse"
    /\ mouth' = [mouth EXCEPT !.state = "Browse", !.say = "Idle", !.line = 0]
    /\ SendsOut([type |-> "LEAVE"])
    /\ UNCHANGED <<desk, hearing, relayed, lines>>

NextSayId(id) == IF id = SayIds THEN 1 ELSE id + 1

\* What CleanChat and the filter leave of a line.
Cleaned(line) == IF line \in Censored THEN 0 ELSE line

\* net_say: one line at a time.
Say ==
    /\ mouth.state = "Lobby" /\ mouth.say # "Sending"
    /\ lines < MaxLines /\ mouth.unheard < MaxUnheard
    /\ lines' = lines + 1
    /\ mouth' = [mouth EXCEPT !.say = "Sending", !.id = NextSayId(@), !.line = Cleaned(lines'),
                              !.unheard = @ + 1]
    /\ UNCHANGED <<desk, saying, hearing, relayed>>

\* net_update: the JOIN, or the line, goes out again.
SayAgain ==
    /\ \/ mouth.state = "Joining" /\ SendsOut([type |-> "JOIN"])
       \/ /\ mouth.state = "Lobby" /\ mouth.say = "Sending"
          /\ SendsOut([type |-> "SAY", id |-> mouth.id, line |-> mouth.line])
    /\ UNCHANGED <<mouth, desk, hearing, relayed, lines>>

\* Three seconds without the echo.
SayFails ==
    /\ mouth.state = "Lobby" /\ mouth.say = "Sending"
    /\ mouth' = [mouth EXCEPT !.say = "Failed", !.line = 0]
    /\ UNCHANGED <<desk, saying, hearing, relayed, lines>>

IsAnyEcho(packet) == mouth.say = "Sending" /\ packet.slot = mouth.you  \* mutant: the id is not looked at

\* take_chat knows its echo by its slot, as last told, and the id.
IsEcho(packet) ==
    mouth.say = "Sending" /\ packet.slot = mouth.you /\ packet.id = mouth.id

\* A LOBBY is taken on the way into the room and in it; nothing in it tells of
\* which visit it is.
Hears ==
    LET packet == Head(hearing)
    IN  /\ hearing # <<>>
        /\ hearing' = Tail(hearing)
        /\ mouth' =
            CASE packet.type = "LOBBY" /\ mouth.state # "Browse" ->
                    [mouth EXCEPT !.state = "Lobby", !.you = packet.you]
              [] packet.type = "CHAT" /\ mouth.state = "Lobby" /\ IsEcho(packet) ->
                    [mouth EXCEPT !.say = "Sent", !.unheard = 0]
              [] OTHER -> mouth
        /\ UNCHANGED <<desk, saying, relayed, lines>>

-----------------------------------------------------------------------------
(* The server.                                                             *)

IsNoRepeat(packet) == FALSE  \* mutant: every SAY is a new line

IsRepeat(packet) == desk.seen /\ packet.id = desk.id

Unechoed(packet) == hearing  \* mutant: a repeat is dropped

EchoAgain(packet) == Posted(hearing, ChatPacket(desk.slot, desk.id))

ServeSay ==
    LET packet == Head(saying)
    IN  /\ saying # <<>> /\ packet.type = "SAY"
        /\ saying' = Tail(saying)
        /\ \/ /\ ~desk.seated \/ (~IsRepeat(packet) /\ (desk.tokens = 0 \/ packet.line = 0))
              /\ UNCHANGED <<desk, hearing, relayed>>
           \/ /\ desk.seated /\ IsRepeat(packet)
              /\ hearing' = EchoAgain(packet)
              /\ UNCHANGED <<desk, relayed>>
           \/ /\ desk.seated /\ ~IsRepeat(packet) /\ desk.tokens > 0 /\ packet.line # 0
              /\ desk' = [desk EXCEPT !.seen = TRUE, !.id = packet.id, !.tokens = @ - 1]
              /\ hearing' = Posted(hearing, ChatPacket(desk.slot, packet.id))
              /\ relayed' = Append(relayed, packet.line)
        /\ UNCHANGED <<mouth, lines>>

\* JOIN and LEAVE.  The newest id is forgotten with a new seat only, which is in
\* any slot that the others have left.
ServeSeat ==
    LET packet == Head(saying)
    IN  /\ saying # <<>> /\ packet.type \in {"JOIN", "LEAVE"}
        /\ saying' = Tail(saying)
        /\ \/ /\ packet.type = "JOIN"
              /\ \/ desk.seated /\ UNCHANGED desk
                 \/ /\ ~desk.seated
                    /\ \E slot \in ChatSlots :
                        desk' = [desk EXCEPT !.seated = TRUE, !.slot = slot, !.seen = FALSE]
              /\ hearing' = Posted(hearing, RoomPacket(desk'.slot))
           \/ /\ packet.type = "LEAVE"
              /\ desk' = [desk EXCEPT !.seated = FALSE]
              /\ UNCHANGED hearing
        /\ UNCHANGED <<mouth, relayed, lines>>

\* The state of the room, which goes out to all who are in it every 250 ms.  One
\* place is left for the server's answers.
TellsRoom ==
    /\ desk.seated /\ Len(hearing) + 1 < ChatCapacity
    /\ hearing' = Append(hearing, RoomPacket(desk.slot))
    /\ UNCHANGED <<mouth, desk, saying, relayed, lines>>

\* Another player's line is relayed, of any id.  Again, one place is left.
OthersSay ==
    /\ desk.seated /\ Len(hearing) + 1 < ChatCapacity
    /\ \E slot \in ChatSlots \ {desk.slot}, id \in 1 .. SayIds :
            hearing' = Append(hearing, ChatPacket(slot, id))
    /\ UNCHANGED <<mouth, desk, saying, relayed, lines>>

\* A second goes by.
Refill ==
    /\ desk.tokens < ChatBurst
    /\ desk' = [desk EXCEPT !.tokens = @ + 1]
    /\ UNCHANGED <<mouth, saying, hearing, relayed, lines>>

LosePacket ==
    /\ \/ saying # <<>> /\ saying' = Tail(saying) /\ UNCHANGED hearing
       \/ hearing # <<>> /\ hearing' = Tail(hearing) /\ UNCHANGED saying
    /\ UNCHANGED <<mouth, desk, relayed, lines>>

ChatNext ==
    \/ ChatJoin \/ ChatLeave \/ Say \/ SayAgain \/ SayFails \/ Hears
    \/ ServeSay \/ ServeSeat \/ TellsRoom \/ OthersSay \/ Refill \/ LosePacket

ChatSpec == ChatInit /\ [][ChatNext]_chatVars

\* A SAY whose echo finds room on the way back.
ServesHeardSay == ServeSay /\ Len(hearing) < ChatCapacity
HearsEcho == Hears /\ Head(hearing).type = "CHAT" /\ IsEcho(Head(hearing))

-----------------------------------------------------------------------------
(* What the console may count on.                                          *)

\* However often a line is resent, the room is told it once: a SAY that
\* comes late, after newer ones or after a new visit, is no new line.
LineOnce == \A i, j \in 1 .. Len(relayed) : relayed[i] = relayed[j] => i = j

\* In its first visit, a line the console reports as said was relayed: what
\* ended its resends was the echo of this line, of no other with its id, and no
\* line of another player.  In a later visit the console may go by the slot of
\* the visit before, which another player has by now.
SentWasRelayed ==
    mouth.joins = 1 /\ mouth.say = "Sent" =>
        \E i \in 1 .. Len(relayed) : relayed[i] = mouth.line

\* A line that is not given up gets through, however many packets are lost
\* and though it was over the limit when first said, while the player has
\* the seat in the slot it was told of.
LinesGetThrough ==
    (mouth.say = "Sending" /\ mouth.line # 0) ~>
        (mouth.say # "Sending" \/ ~desk.seated \/ mouth.you # desk.slot)
=============================================================================
