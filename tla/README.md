# Dreamcast homebrew, verified

TLA+ models of the concurrent parts of this repository, model-checked with
TLC and proved with TLAPS. The repository is a collection of Dreamcast
programs and their services. The one with a distributed system in it is
DreamKarts (`projects/games/dreamkarts`), a kart game whose consoles race
online through a small UDP server written in Go: its rooms, races and sessions
are the core of this project. Around it are parts that work by themselves and
have hazards of their own: the chat, the link and the dialer with their worker
threads, the alerts beside the server's loop, and the website's save vault and
network drive, on which several clients work at once.

## The system

Paths are below `projects/`.

| Part | Where | State | Operations | Hard because | Correct when |
|---|---|---|---|---|---|
| Lobby server: rooms and races | `games/dreamkarts/server/lobby/server.go`, `proto.go` | sessions; ten lobbies of six slots: leader, audience, picks, race state, race id, host; per player: seat, colour, points, nonce, race progress | HELLO, JOIN, spectate, LEAVE, WISH, RETIRE, KART; `Tick` (timeouts and race clock); `Relay` | packets of many consoles in any order; a player's flags are spread over handlers; the last player leaving remakes a room in place | seats agree, the earliest joiner leads, races get new ids and the racers of their start, places follow finishes, races end |
| Console session | `games/dreamkarts/src/net.c` | link/session state, what was asked, last LOBBY | resends of HELLO, JOIN, LEAVE, RETIRE, WISH; packet handlers | UDP: lost, repeated, late packets; one socket for all sessions | ends up where the player asked, or back at the list |
| Chat relay and filter | `server.go` (`chat`), `filter.go`, `words.go`, `net.c` | last say id, tokens; the line being said | SAY, CHAT | resends, a one-byte id window, a meter | each line relayed once, and what is reported as said was |
| Console link | `games/dreamkarts/src/netlink.c` | stage, worker flags | prepare, start, poll | flags shared by two threads without a lock | the connect screen ends |
| Dialer | `common/dialup.c`, used by `apps/ping-cube` | stage, cancel, error, link flags | start, poll, cancel, hang up, redial | the same, and PPP ends on a third thread | a stop is not lost, nothing is left on |
| Events and alerts | `server/lobby/events.go`, `server/alerts/alerts.go` | throttle windows, queues | `Notify`, `Close` | a goroutine per hook beside the server's loop | one alert a window |
| Save vault | `dcvmu.com/service/app.py` | saves, archives, a pending import | web requests | concurrent requests on one row, pages shown before and used after | no lost update, an import is stored once and whole, limits hold |
| Dreambox | `dcvmu.com/service/dreambox.py` | a network drive: tree of files, staged blocks; pairings and links of consoles | put, make, move, delete; pair, claim, unlink | moves and deletes of several consoles; claims repeated | a tree within its limits, one link a code |
| Net relay | `dcvmu.com/service/netrelay.py` | sessions by address | a WebSocket to one fixed network, capped in sessions and bytes | two pumps a session on one event loop | - |
| Demo lobby | `server/lobby/demo.go` | a lobby of bots | `tickDemo` | drawn from the clock | - |
| Server process | `server/cmd/dreamkarts-lobby/main.go` | the event loop | packets, 20 ms tick, relay tick, signals | - | one handler at a time |
| Online screens, chat box | `games/dreamkarts/src/online.c`, `chat.c` | screen | follows the session | - | - |
| Single-player game | rest of `games/dreamkarts/src` | world | one frame | floating point, one thread | - |
| Apps, other games, tools | `apps/`, other `games/`, `abandoned/`, `tools/` | - | - | separate programs, mostly one loop each over vendored code | - |

Consoles and server talk in packets that carry state, not events: a console
repeats what it wants (JOIN, WISH, RETIRE, KART) until the server's LOBBY or
RACE packet shows it, and the server repeats its state until it changes.
Inside the server one goroutine (`main.go`) takes a packet, a relay beat or a
tick at a time, so a handler is one atomic step. On a console the frame loop
polls, and shares flags with a worker thread: a step of the worker is one
access to them. On the website a request that writes is one SQLite transaction
(`BEGIN IMMEDIATE`), and what it was based on was read by an earlier request.

## Plan

By weight: the rooms carry every other part, the consoles are their users, and
the rest is beside them.

1. `LobbyServer`, `LobbyProps`, `MCLobby`: the rooms and races. Done, and
   every safety property of theirs is proved.
2. `OnlinePlay`, `OnlineProps`, `MCOnline`: the sessions of `net.c` composed
   with `LobbyServer` over a network that loses and delays. Done.
3. `Rooms`, what the server promises, and `LobbyRooms`, the refinement: checked
   and proved. Done.
4. `Chat`, `NetLink`, `Dialup`, `Alerts`, `SaveVault`, `Drive`, `DriveLinks`,
   and `MCParts`, which checks them. Done, and every safety property of theirs
   is proved: `PartsProofs`, `ChatProofs`, `VaultProofs`, `DriveProofs`.
5. A console's first visit, after any number of sessions. Done
   (`FirstVisitsAgree`, and `SentWasRelayed` of the chat); and that a later
   visit led astray comes to an end (`DesyncEnds`).
6. Open: a promise of a session from its own side, which `OnlinePlay` would
   implement as `LobbyRooms` implements `Rooms`; and the second visit of a
   console, where a late RETIRE of the first may meet a race with the same id
   (`net.c:561`).

## Modules

- **`LobbyServer`** - `server.go` as a state machine. `sessions`, `player`,
  `lobby` and `joinSeq` are the fields of `Server`, `Player` and `Lobby` with
  the code's names. One action per handler: `Hello`, `Join`, `Spectate`,
  `Leave`, `FollowerWish`/`LeaderWish` (the two halves of `wish`), `Retire`,
  `Kart`; and `Tick`, which drops every session of a set that has been silent
  for too long and then advances every lobby. `join` and `spectate` call
  `leave`, `wish` calls `startRace`, `Tick` calls `leave` and `advance`, and
  `advance` calls `finishRace` or `toWaiting`; the operators of those names'
  effects (`PlayersLeft`, `LobbiesLeft`, `OnGrid`, `RaceStarted`, `Placed`,
  `OffTrack`) take the players and rooms as values, so that a handler applies
  them in the code's order to intermediate values. A packet that its handler
  ignores is a stuttering step. Operators marked `mutant` are not part of the
  model: each is what one definition would be with a plausible bug.
- **`LobbyProps`** - the properties, each with the code it is about.
- **`Rooms`** - what the server promises its players, in no terms of its own:
  who is in a room and in which order they came, who leads it, and the race that
  is on, with its racers and, on the lot, its host. Slots, join numbers, nonces,
  ids and the audience are not in it. **`LobbyRooms`** is the refinement
  mapping: members are the players whose record names the room and who do not
  watch, their order is that of `JoinSeq`, the leader is whoever sits in the
  leader's slot, and a host who has retired (`hostGone`) is nobody. `RoomsKept`
  says that every step of the server is a step of `Rooms` or changes nothing
  there.
- **`OnlinePlay`** - consoles and server. A console is the set of the tokens it
  makes, one for each session (`make_token`), and has one socket: `open_socket`
  opens it once and `net_end` leaves it open, and no packet of the server names
  a token. So `up[c]`, on its way to the server, carries token and packet, and
  `down[c]`, on its way to the console, packets alone, of whatever session; both
  outlast the session. `console` holds, for each of `Consoles`, the variables of
  `net.c` that decide anything: `state` (the `NET_*` constants, and `Off` after
  `net_end`), `token`, `join_id`, `spectating`, `start_nonce`, which goes on
  from one session to the next, `retire_id`, `shown`, what the last LOBBY packet
  left in `net_lobby`, and `error`, whether the screen shows one. The actions
  are in four groups: what the screens of `online.c` call (`NetBegin`,
  `NetJoin`, `NetLeave`, `NetEnd`, `NetRetire`, `NetPressStart`, `ShowError`),
  the packet handlers of `handle` (`HandleWelcome`, `HandleReject`,
  `HandleLobbies`, `HandleLobby`), the timers of `net_update` (`NetUpdate`,
  `GiveUp`), and the server's `Handle` of one arriving packet with its answer
  (`Serve*`), each of which takes the step of the handler in `LobbyServer`.
  `ServerTick` is `Tick` with the LOBBY packets it sends, to every session in a
  room, also one its console has forgotten. A console in `NET_LOST` goes on
  receiving, as `net_update` does, and a late REJECT (session) brings it back to
  HELLO. Tokens outside `Consoles` are strangers, who send anything at any time,
  exactly as in `LobbyServer`. `Restart` puts the server back to `Init` while
  the network keeps what it carries.
- **`OnlineProps`** - what a console may count on.
- **`Chat`** - a line from `net_say` to its echo: the console resends it, or
  gives it up after three seconds; the server relays it once (`ChatID`, the
  newest id of a seat), meters the player, and echoes a repeat. The console
  knows the echo as `take_chat` does: by the slot of the last LOBBY it took
  (`you`) and the id. A seat is in whichever slot is free, the others take the
  rest and say lines with any id, and LOBBY packets of one visit may come in the
  next.
- **`NetLink`** - `link_worker` against `link_prepare`, `link_start` and
  `link_stage`, with `net.c` as the caller. **`Dialup`** - `connect_link` and
  its callers in `dialup.c`, PPP's own thread, and Ping Cube, which redials and
  exits. Each step of a worker is one access to a shared flag or one SDK call.
- **`Alerts`** - `Notify` in the server's goroutine, a sender a webhook with its
  queue and retries, and `Close`.
- **`SaveVault`** - an account's saves, archives and pending import. `page` and
  `review` are what a client was shown; an action uses what was shown, when the
  rows may be others by then. **`Drive`** - the tree of a Dreambox. A console's
  path ends in the name itself, so it makes nothing below `MAX_DEPTH`
  (`Directories`); the website's put and mkdir take the path of the folder alone
  (`Folders`), and may make one more level. **`DriveLinks`** - a console's
  pairing code, and the claims that ask for it.
- **`MCLobby`**, **`MCOnline`**, **`MCParts`** and the `.cfg` files - the
  instances.
- **`LobbyServerProofs`** - theorems about the server, with
  **`OnlinePlayProofs`** on top, and **`LobbyRoomsProofs`** with
  **`LobbyRaceProofs`** on that; **`PartsProofs`**, **`ChatProofs`**,
  **`VaultProofs`** and **`DriveProofs`** on the parts.

What is abstracted. Deadlines: a tick is told which sessions have been silent
for too long and which lobbies' deadlines have passed, and both are
arbitrary, so every race of a deadline with a packet is there. Names,
addresses, laps, cc, palette picks and the bytes of a kart decide nothing in
the server; `Kart` is the id of the race the relayed bytes were sent for.
`Progress`, a float in the code, is a number with the same order.
`PlayerType` bounds places and points by `Nat`; the points wrap at
`PointsMod`.

For the consoles: the timers of `net_update`. Every packet a timer may call for
may go out at any moment, which allows every schedule of the real timers.
`GiveUp` needs an empty queue towards the console, and no more, as the network
may delay a packet for longer than the six seconds. The network keeps the order
of one console's packets, and loses any of them; it does not reorder or repeat
them (a resend is a repeat in effect). The three LEAVEs that `net_leave` sends
in a row are one packet, lost when all three are. Chat is in `Chat`, and karts
are left out: a race with consoles in it ends by its clock, or because nobody is
left in it. After `GiveUp` or a final REJECT the player goes back to the menu by
`NetEnd`, and `NetBegin` starts the next session with a token the console has
not used. Two tokens are never the same, though `make_token` draws 32 bits.
While the link comes up a console neither sends nor reads, and is `Off`.

For the parts. In `Chat` packets arrive in order too; a line stands for its
text, and line 0 for one that `CleanChat` and the filter leave nothing of. The
hardware, the line, the webhooks and the wall clock may do anything at any
moment. Rows and objects carry what a decision compares: ids, revisions,
titles, names, parents and sizes, and no bytes; `uid` and `batch` are history
for the properties. A request that is turned away is no step. Users and
logins, hourly limits and the pages that only read are left out.

## Runs

`tlc -config MCX.cfg M`, with M the module named in the table. The runs of
`MCParts` do not check deadlock, because there a part stops where its bounds
end or its program exits; all others do.

| Run | Module | Instance | Question |
|---|---|---|---|
| Seats | `MCLobby` | two rooms of three, three consoles, no races | do slots, records and audiences agree, who leads, who wears what colour |
| Race | `MCLobby` | one room of three, three consoles, a course and the lot | who is in a race, on which bay, whose session it is, is a press of Start judged once, and is every step one of `Rooms` |
| Results | `MCLobby` | one room of two, three consoles, two finish times and two distances | finishes, places, relayed karts, and race ids |
| Ends | `MCLobby` | two consoles, a course and the lot, two joins, fair | does every race end, and every hostless session |
| ItemsDefault | `MCLobby` | as Race | **fails**: an emptied room has power-ups off |
| Joins | `MCOnline` | one console of two sessions, one stranger, a room of one, two packets each way, a visit in either session, one outage | does a console that takes itself to be in a room sit there, in its first visit |
| Settles | `MCOnline` | one console of one session, one packet each way, two visits, one outage, fair | do joins, presses of Start and retirements come to an end, and does a console that is led astray get out of it |
| Desync | `MCOnline` | as Joins without the stranger, one packet each way, two visits | **fails**: a late LOBBY of the last visit ends the next join |
| GhostSeat | `MCOnline` | one console, fair | **fails**: a seat whose LEAVE is lost is kept for as long as the console browses |
| FirstWish | `MCOnline` | one console, one stranger | **fails**: an heir's first wish may start a race it did not ask for |
| Parts | `MCParts` | each part by itself, fair | lines relayed once and through; a connect and an exit that end; one alert a window; no lost update, whole imports, limits; a tree; one link a code |
| StalePage | `MCParts` | as Parts | **fails**: a confirmed page deletes a save that was never shown |

**Bounds of the server's runs.** Three consoles are a leader, an heir and a
third who is not the heir; two rooms are enough for a move, as a player is in at
most one and no handler touches a third; a room of three has a gap between two
bays. Two nonces are the current one and another, which is all `wish`
distinguishes. Race ids wrap after 2: the wrap from the last id to 1 is reached
at once. Two finish times and distances give a winner, a loser and a tie. The
safety runs have no bound on the number of joins: their `VIEW` (`MCLobby`) names
consoles by where they are and join numbers by their rank in the room, and
`RaceView` does not tell who watches from who browses, nor one race id from
another, as a packet may bring any; this identifies only states that behave
alike, for the run's properties too. `RaceIDsMoveOn` is about the ids, and
checked in `Results`, whose view keeps them. `MaxJoinSeq = 100` is out of their
reach of interest: the shortest path to every state of the view takes far fewer
joins. `Ends` checks liveness, so it cannot use a view and counts joins instead:
two joins seat both consoles, and a third would be a return, which
`HostStaysGone` covers in `Race`. With a course and the lot in one instance, a
room may go from one kind of race to the other.

**Bounds of the consoles' runs.** In `Joins` the room has one slot, so that the
stranger can fill it and the console be turned away, or inherit; two packets
each way let a JOIN follow a LEAVE and a LOBBY follow a REJECT. What
`RoomsAgree` says of all visits is true of the first only (`Desync`, where the
second follows in the same session); `Joins` checks `FirstVisitsAgree`, which
does not wait for the queues to be empty either. In `Joins` the console has two
sessions and one visit, in either: in the second, after a first that left
HELLOs, list requests and the server's answers to them on the way. So nothing
but a packet of an earlier visit parts console and server, neither an ended
session, nor a stranger, nor a time-out, nor a restart, nor any loss; what a
second visit does is in `Desync` and `Settles`. `Settles` checks liveness, so
its instance is small: one console is its room's leader from the start, as the
room has one slot, and one packet each way is enough to lose any of them, and
for a LOBBY of the first visit to be taken in the second. `Nonces` bounds the
presses of Start (the wrap of the `uint8` nonce at 256 presses is not reached),
`MaxOutages` the time-outs of consoles and restarts of the server. `OnlineView`
leaves out what decides nothing here (colours, points, places) and ranks join
numbers, as the views above.

**Bounds of the parts.** The parts of `MCParts` share no state and no messages,
so an interleaving of two of them shows nothing: each behaviour is of one part,
chosen in the initial state, and the run's states are those of the parts added
up (some 300,000), not multiplied. The vault is two parts, saves and archives,
as no request is about both. The chat: three ids for at most two lines in a row
without an echo, so that an id comes back after a line that was heard, as 255
ids allow in the code after far more; four lines go once round the ids; two
packets each way let a repeat or a LEAVE follow a line, and another player's
line come before an echo; two slots let the other player have the slot the
console was told of before; one of the lines is filtered to nothing; two visits
let a line of the first be served in the second. A link: three of the player's
attempts and each kind of adapter. A dialer: three calls are a first, a redial
after a loss and one after a failure. Alerts: a queue of one is full at once,
and three kinds of news are one with a window, another whose telling prunes it,
and one without a window. The vault: two clients, each with a page and an import
before it; two files, three rows ever, two of them at once, so that an import of
two meets the limit halfway; and one import, which two clients confirm or cancel
(one that replaces it is left to the proofs of `VaultProofs`: it doubles the
run's states). Client symmetry is used: the vault's clients are alike, its
properties treat them alike, and no fairness or liveness property is about a
vault client. The drive: three names for directories of two entries, so that it
is the limit and not the names that turns the third away; with paths of three
names a directory can come to lie two below another that is then moved into it,
so that comparing it with the new parent alone is not enough (the mutant of
`DriveIsATree` does that), and a fourth level is made by a move or by the
website. Its sizes meet the quota. Links: two claims at once, three pairings.

**Fairness.** `FairSpec` asks of each lobby that a tick which finds its
deadline passed, and drops nobody, happens if the lobby waits on a deadline
for ever. `main.go` calls `Tick` every 20 ms from the loop that handles the
packets, and a deadline lies at most `MaxRaceLen` ahead and stays passed;
sessions time out finitely often. No console is assumed to send anything.

`OnlineFair` adds the consoles. Weak fairness for what goes on by itself: a
console's timers (`NetUpdate`; `net_update` is called every frame), a packet on
its way, which arrives or is lost, and the server's clock. Strong fairness for
what is sent again and again: of a JOIN, a WISH and the server's
answers, some arrive if they are sent for ever. The code earns this by
resending each on a timer for as long as the state calls for it
(`net_update`, and `Tick`'s 250 ms refresh of every lobby), and the network must
not lose all packets of a kind for ever; where it does, `GiveUp` ends the
session, and the properties allow that. That a console which hears nothing gives
up is weakly fair (`TimesOut`: nothing on its way to it, for as long as that
lasts); a server's LOBBY every 250 ms prevents it, and so would any answer to what
the console goes on sending, which is what `DesyncEnds` depends on. RETIRE gets no
fairness, as the shown state ends the request in the end, and LEAVE none: the code
sends it once. `BrowseFairSpec` asks the same of LIST, and is used only by
`GhostSeat`: its counterexample is then not one in which the server stops
hearing from the console, and would drop it.

`PartsSpec` asks, of the chat, that the console goes on resending and reading,
that the server serves JOINs and LEAVEs and refills the meter (weak fairness;
its refresh of the room is assumed of nobody), and that of the SAYs served with
room for an echo, and of the echoes, some get through if they are sent for ever
(strong). `SayFails` may end the wait at any time, and the property allows that.
Of link and dialer: the worker's thread runs, and the frame loop polls. Whether
a dial succeeds, a call drops or a player presses Start is left open. Nothing is
assumed of the alerts, whose one property is of safety, nor of the website's
clients.

**What fails.** Five runs show disagreements of the code with its own comments,
messages and `PROTOCOL.md`; `PROJECT.json` quotes the lines under `findings`.

- `ItemsDefault`: `leave` remakes an emptied room with a literal that lacks
  `Items: true`, so a used room has power-ups off until its next leader's first
  wish.
- `FirstWish`: the heir of a leader gets `synced = true` and its last nonce as
  the room's. A console the server has not heard a wish from has no last nonce,
  0 is taken for one, and its first WISH, sent without a press, starts a race
  if its counter stands at anything else, as it does after an earlier session.
- `Desync`: a console that leaves a lobby and joins the same one again takes a
  LOBBY packet still on its way from the first visit for the answer, stops
  sending JOIN, and is in a room that has it not. That lasts until it is told of
  the room it is in, or gives up (`DesyncEnds`).
- `GhostSeat`: LEAVE is not resent until the state reflects it. If all three
  copies are lost the player keeps its seat, and its lead, while the console
  browses.
- `StalePage`: a page is known by an id and a revision, and both come again:
  SQLite gives the id of the newest row anew once that row is deleted
  (`INTEGER PRIMARY KEY` without `AUTOINCREMENT`), and a revision starts at 1.
  A confirmation from an old page then deletes a save that was never shown.
  It takes the newest save of all accounts; edits, replacements and archives
  have the same test.

**What was noticed and has no run.**

- PPP may end between `ppp_connect` and the store to `link_monitored`
  (`dialup.c:248`): the end is then seen only if the carrier goes as well. The
  window is in `Dialup`, and its properties hold nonetheless.
- The socket of `net.c` is never closed (`net.c:150`, `net_end` at 186-193) and
  a LOBBY packet names no session. If the LEAVEs of an ended session are lost,
  the server goes on sending its LOBBY packets to the same address until it
  times out, and they answer the first JOIN of the next session as those of
  `Desync` do. It is one cause with `Desync`, so `FirstVisitsAgree` is about the
  first visit of a console and not of a session.
- In its second visit a console may report a line as said that was never
  relayed: `take_chat` goes by the slot in the last LOBBY (`net.c:282`), a LOBBY
  of the first visit may be the last, and the slot may be another player's by
  then, whose line happens to have the id. Without `joins = 1` `SentWasRelayed`
  is violated.
- A console lists a line of its own twice if another line comes between two
  echoes of it (`net.c:283` compares with the last line only); what `LineOnce`
  speaks of is the relay.
- A move within a Dreambox checks the depth of the place, not of what is moved,
  and may put objects deeper than `MAX_DEPTH`; so does the website, by one level
  (`dreambox.py:539`, `551`). No path reaches them until a directory above them
  is moved up. `DriveIsATree` holds of them.

## Proofs

For any finite set of consoles and any number of rooms, slots, colours, tracks,
nonces and race ids (at least three ids, at least as many colours as slots: the
assumptions of `LobbyServer`), and for `OnlinePlay` any set of consoles among
the clients, each of any number of tokens, any capacity of the network and any
number of sessions, visits, time-outs and restarts (`ConsoleAssumption`); and
for the parts under the assumptions of their modules, of which `ChatAssumption`
is the one to note: a console is not unheard for as many lines in a row as there
are ids (255).

| Module | Theorem | Of | Shows |
|---|---|---|---|
| `LobbyServerProofs` | `TypesHold`, `SeatsHold`, `LeadersHold`, `RacersHold`, `HostsLead` | `Spec` | `TypeOK`, `SeatsAgree`, `LeaderIsEarliest`, `RacersBelong`, `HostLeads` |
| | `RaceIDsHold` | `Spec` | `RaceIDsMoveOn`, an action property |
| | `PressesCountOnce` | `Spec` | `PressStartsOnce`, an action property |
| `LobbyRoomsProofs` | `RoomsImplemented` | `Spec` | `RoomsKept`, the refinement of `Rooms` |
| `LobbyRaceProofs` | `NobodyEntersLate`, `HostsStayGone` | `Spec` | `NoLateEntry`, `HostStaysGone`, action properties |
| | `ColoursHold`, `GridsHold`, `RelaysHold` | `Spec` | `ColoursDistinct`, `GridsDistinct`, `RelayIsCurrent` |
| | `FinishesHold` | `Spec` | `FinishStands`, an action property |
| | `PlacesDiffer`, `PlacesStand` | `Spec` | `PlacesDistinct`, `PlacesMatchFinish` |
| `OnlinePlayProofs` | `OnlineTypesHold`, `OnlineSeatsHold` | `OnlineSpec` | `OnlineTypeOK`, `SeatsAgree` |
| | `OnlinePressesCountOnce` | `OnlineSpec` | `PressStartsOnce` |
| | `FirstVisitsHold` | `OnlineSpec` | `FirstVisitsAgree` |
| | `RoomsAgreeOnce` | `OnlineSpec`, `MaxVisits = 1` | `RoomsAgree` |
| `PartsProofs` | `StagesSettle`, `CallsStayClean` | `LinkSpec`, `DialSpec` | `StageIsSettled`, `CallsAreClean` |
| | `WindowsHold` | `AlertSpec` | `OneAlertAWindow`, an action property |
| | `CodesLinkOnce` | `LinkingSpec` | `OneLinkACode` |
| `ChatProofs` | `LinesRelayedOnce`, `SentLinesWereRelayed` | `ChatSpec` | `LineOnce`, `SentWasRelayed` |
| `VaultProofs` | `ImportsStoreOnce`, `RowsFitLimits` | `VaultSpec` | `ImportsOnce`, `RowsWithinLimits` |
| | `NoChangeIsLost`, `ImportsAreWhole` | `VaultSpec` | `NoLostUpdate`, `ImportsWhole`, action properties |
| `DriveProofs` | `DriveStaysATree`, `DriveStaysWithinLimits` | `DriveSpec` | `DriveIsATree`, `DriveWithinLimits` |

So every safety property that a passing run checks is proved. `RoomsAgree` is
proved of consoles that make one visit in all their sessions together: of two it
is false, as `Desync` shows. `SentWasRelayed` is of the first visit likewise.

**The rooms.** All of `LobbyServerProofs` rests on `Invariance`, that `IInv` is
inductive. `SeatsAgree` alone is not: that a leader's leaving hands the lead to
a seated player needs the leader's slot to be taken; that the heir is earlier
than all others needs the join numbers of a room to differ, and those to be at
most `joinSeq` for `Join` to give a new one; that `toWaiting` leaves no racer
behind needs every racer to be seated in the room it clears. `Sound` is the
part of `IInv` that is about players and rooms, stated over values of the two,
because `Join`, `Spectate` and `Tick` act on what a leave has left: one lemma
says that a set of players leaving keeps `Sound`, another that a newcomer does,
and the actions compose them. The lemmas on `LowestOr` and `Earliest` (what the
code's searches return) come first, from the well-foundedness of the naturals.

**Presses of Start.** That a nonce starts at most one race needs more than
`IInv`: `NInv` adds that a room which compares nonces (`synced`) holds the last
nonce of its own leader, whoever that has become. `LeavingKeepsNonce` is the
interesting lemma: the heir brings its nonce along, and an emptied room
compares nothing until its next leader has been heard.

**The refinement.** `StepKept` takes the actions of the server one by one; most
are one action of `Rooms`, some of them a stutter. The hard ones are those
that call others. `Join` is one `Enter` though it leaves the old place first,
which may be in the room it enters: `RoomLeft` says what a leave has left of a
room, and `JoinKept` adds the newcomer to that. `Tick` is one `Clock`: the
silent are gone from all rooms before any of them moves on (`GoneRace`,
`AdvanceKept`). That the leader of a slot is the `First` of an order is
`LeaderFirst`, from `LeaderIsEarliest` and the join numbers.

**Races.** `NoLateEntry` and `HostStaysGone` are read off `Rooms`, whose steps
are few: the refinement does the work. The others are about numbers that
`Rooms` does not have, and need `RInv`, `IInv` with `Apart` (two players of a room
differ in preset colour, and two racers in bay) and with a racer's kart being
of the race that is on; `Onward` says what a step may do to a race's records.
That `Join` finds a colour and a latecomer a bay which is nobody's is a
pigeonhole (`NumberLeft`): the others in the room are fewer than its slots, and
slots no more than colours. That a start gives different bays is `GridsDiffer`,
from the order of points and slots being strict.

**Places.** `AllRanked` is the invariant. That places differ is not inductive: it
needs that in a race under way whoever does not race has no place, as whoever
enters does (`OthersUnplaced`), so that the racers' new places meet nobody's old
one; and `RanksFollow` is what `PlacesMatchFinish` says, of the racers who are
still there. `PlaceOf` counts those before a player; `PlacesFollow` says that it
is monotone in `PlaceBefore`, a strict order, by comparing sets.

**Consoles.** `OInv` is `NInv` with the types of the consoles and queues, a
console in a lobby having been shown one and having a token of its own.
`ServerSteps` says that every step of `OnlineNext` is a step of the server, a
stutter of it, or a restart, and `RestartIsInit` that a restart re-establishes
`Init`: so the invariants of the server carry over, while packets of sessions
and servers that are no more are still on their way. What has to be shown anew
is that the packets `Serve*` takes apart are of the types `LobbyServer` assumes
(`UpFields`), and that the console's handlers keep its record sound.

**First visits.** `VInv` follows a visit from its first JOIN; any number of
sessions may have gone before, and their packets be under way. Before it nothing
of a visit is under way (`Unvisited`); in it every JOIN on its way is the one
the console would send now, and no LEAVE is, so whatever the server does with
the packets it can only put the console where it asks to be (`Visiting`). What
could still part them is a session that begins anew without the console's
knowing, by a HELLO that comes late: but every HELLO was sent before the first
JOIN (`HellosFirst`), so once the server has had the console in the lobby
(`Reached`) none is left, and a session the server then has is one that sits
there. `Reached` is what makes this inductive: that there is a seat alone does
not outlast a time-out or a restart. There is one lemma a kind of step
(`ScreensVisit`, `ReceiveVisit`, `UpdateVisit`, `ServeVisit`), over lemmas on
queues and on what the handlers do to the place of a player who did not send the
packet (`OthersPlace`).

**Parts.** `LinkInv` ties the stage to where the worker is: it counts as running
from before its first store until its last. `DialInv` says the same of modem and
PPP at every step of a call. `WindowInv` says that a window which still holds is
remembered: pruning forgets only those that have passed. `PairingInv` says that
a pairing of which a link was ever made is gone, whether or not the link is
still there, so a second claim of it finds nothing to delete.

**Chat.** `ChatInv` follows the queue to the server: its lines never decrease,
and a line behind a LEAVE is newer than all before it. So a SAY of a line that
was relayed already meets the very seat that relayed it, with its id still the
newest, and is a repeat. The queue's order is used: over a network that
reorders, a line could come again behind a newer one. For the echoes, ids are
compared by `Age`, how many ids ago the console used them, as the numbers come
again: along the way from the console's queue over the server's record back to
the console ids only get older, none is as old as `SayIds`, and an echo tells of
the line that had its id last (`EchoInv`, of which `EchoFlow` is the part over
the queues). But the console knows an echo by its slot, and that slot and id are
its own's is true of the first visit (`InFirst`): before it nothing is under way
(`Unvisited`), and in it the server has given one seat, in one slot, no LEAVE is
on its way that would free it, every LOBBY tells that slot (`AllTold`), and
every chat line with it is an echo.

**The vault.** `ImportInv` says that the rows of an import exist only once it is
pending no more, and that no import is begun twice. `VaultInv` adds the counts
and titles. That the title chosen for a new save is nobody's is the loop of
numbered titles: the titles tried are more than the rows there are
(`TitleIsFree`). `NoChangeIsLost` and `ImportsAreWhole` take what a page or a
review says, and follow it through each request.

**The drive.** Whether an object comes to the root going up is a recursion, and
induction over it is out of the prover's reach. It is treated by sets of ids
instead: `Rooted` says that every set which holds the parent of each of its
objects, and an object, holds the root, and `AboveGoesUp` that what `Above`
returns is such a set. A move keeps it (`TreeMoves`): such a set with the moved
object in it has the new directory too, and what it shares with the way up from
there is a set of this kind in the tree before the move, because the check of
`Above` says that the object is not on that way; so the root was in it. Sums are
treated likewise: `SumsAgree` says that a sum does not depend on the order the
objects are taken in, by a least counterexample (`LeastNumber`, from the
well-foundedness of the naturals), and then `Used` is a sum that grows and
shrinks with the objects.

**Only model-checked.** Liveness, which the prover does not do under fairness:
`RacesEnd`, `SessionsEnd`, `JoinSettles`, `PressSettles`, `RetireSettles`,
`DesyncEnds`, `LinesGetThrough`, `ConnectEnds`, `ExitEnds`. That a request to
retire does not hit a race it was not made for is not checked at all
(`net.c:561`).

## Not modelled

`PROJECT.json` lists every component and why. Most of the repository's lines
are no code to model: generated textures, sounds and models as C arrays, and
games and apps that are one loop of drawing and floating point each. Of what is
left:

- in the server: the demo lobby, whose bots nobody can join; that `Notify` never
  waits for a sender (its select has a default), and how long a sender takes;
  the count of sessions by address; the word filter; the text of logs and
  alerts;
- in the consoles: karts and their timing, the tally of packets, the list of
  chat lines, the screens' layout, the save file, `link_shutdown`, which nothing
  calls, and `dialup_connect`;
- on the website: users and logins, hourly limits, the check of a file's bytes,
  the blocks staged for a file that is being written (a commit is one
  transaction, and when a console writes, commits or repeats itself is decided
  by a program that is not in this repository), the net relay, whose sessions
  share two counters on one event loop, and the cache of downloads.
