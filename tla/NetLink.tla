------------------------------ MODULE NetLink -------------------------------
(***************************************************************************)
(* The network link of DreamKarts (dreamkarts/src/netlink.c): a worker     *)
(* thread finds an adapter or dials, while the game's frame loop asks for  *)
(* the link and polls it.  The two share stage, worker_running, want_dial  *)
(* and modem_link without a lock: a step of the worker is one access to    *)
(* them.  The frame loop's calls are whole steps, but for link_start,      *)
(* which stores want_dial before it looks at the worker: in the others     *)
(* only the worker's last store can come between two accesses, and that    *)
(* one changes nothing they have read.                                     *)
(*                                                                         *)
(* The hardware, and whether a call is answered, is outside: a dial ends   *)
(* either way, and a call may drop.  Left out: the names and texts of the  *)
(* link, the server's address, and link_shutdown, which nothing calls.     *)
(***************************************************************************)
EXTENDS Naturals

CONSTANTS
    Hardware,   \* what may be plugged in: "Ethernet", "NoAddress", "Modem"
    MaxBegins   \* bound on the times the player goes online

ASSUME LinkAssumption ==
    Hardware \subseteq {"Ethernet", "NoAddress", "Modem"} /\ MaxBegins \in Nat

VARIABLES
    plugged,    \* the hardware of this console
    link,       \* stage, running, want, modem: the flags of netlink.c
    worker,     \* where the worker thread is, "Gone" when there is none
    frame,      \* "Poll", or "Start" inside link_start
    net,        \* net.c's state: "Off", "Link", "Online", "Lost"
    dropped,    \* dialup_dropped(): the call has been lost
    begins      \* net_begin calls so far

linkVars == <<plugged, link, worker, frame, net, dropped, begins>>

LinkInit ==
    /\ plugged \in Hardware
    /\ link = [stage |-> "Off", running |-> FALSE, want |-> FALSE, modem |-> FALSE]
    /\ worker = "Gone" /\ frame = "Poll" /\ net = "Off"
    /\ dropped = FALSE /\ begins = 0

-----------------------------------------------------------------------------
(* The worker, from adapter to address.                                    *)

\* One access: the flags it leaves, and where the thread goes on.
Works(from, to, flags) ==
    /\ worker = from /\ worker' = to /\ link' = flags
    /\ UNCHANGED <<plugged, frame, net, begins>>

ProbesAdapter ==
    /\ \/ plugged = "Ethernet" /\ Works("Probe", "Resolve", [link EXCEPT !.modem = FALSE])
       \/ plugged = "NoAddress" /\ Works("Probe", "Fail", link)
       \/ plugged = "Modem" /\ Works("Probe", "Choose", link)
    /\ UNCHANGED dropped

\* An early start finds no adapter: dialling waits for the player.
ChoosesToDial ==
    /\ \/ ~link.want /\ Works("Choose", "Wait", link)
       \/ link.want /\ Works("Choose", "Dial", [link EXCEPT !.modem = TRUE])
    /\ UNCHANGED dropped

Dials ==
    /\ \/ Works("Dial", "Resolve", link)
       \/ Works("Dial", "Fail", link)
    /\ dropped' = FALSE

ShowsStage ==
    /\ \/ Works("Wait", "Leave", [link EXCEPT !.stage = "Off"])
       \/ Works("Fail", "Leave", [link EXCEPT !.stage = "Failed"])
       \/ Works("Resolve", "Up", [link EXCEPT !.stage = "Resolving"])
       \/ Works("Up", "Leave", [link EXCEPT !.stage = "Up"])
    /\ UNCHANGED dropped

WorkerLeaves == Works("Leave", "Gone", [link EXCEPT !.running = FALSE]) /\ UNCHANGED dropped

Worker == ProbesAdapter \/ ChoosesToDial \/ Dials \/ ShowsStage \/ WorkerLeaves

-----------------------------------------------------------------------------
(* The frame loop.                                                         *)

\* mutant: a thread that cannot be had leaves the screen looking for one
StartWorkerUntold(flags) ==
    /\ worker = "Gone"
    /\ \/ worker' = "Probe" /\ link' = [flags EXCEPT !.stage = "Starting", !.running = TRUE]
       \/ worker' = "Gone" /\ link' = [flags EXCEPT !.stage = "Starting"]

\* start_worker: the thread before it is joined, and a new one may not be had.
StartWorker(flags) ==
    /\ worker = "Gone"
    /\ \/ worker' = "Probe" /\ link' = [flags EXCEPT !.stage = "Starting", !.running = TRUE]
       \/ worker' = "Gone" /\ link' = [flags EXCEPT !.stage = "Failed"]

\* The name entry comes up: the adapter is looked for while the player types.
LinkPrepare ==
    /\ frame = "Poll" /\ net = "Off" /\ ~link.running /\ link.stage = "Off"
    /\ StartWorker(link)
    /\ UNCHANGED <<plugged, frame, net, dropped, begins>>

\* net_begin calls link_start, which notes the wish to dial ...
NetBegin ==
    /\ frame = "Poll" /\ net = "Off" /\ begins < MaxBegins
    /\ begins' = begins + 1
    /\ net' = "Link" /\ frame' = "Start"
    /\ link' = [link EXCEPT !.want = TRUE]
    /\ UNCHANGED <<plugged, worker, dropped>>

\* ... and starts a worker unless there is one, or the link is up.
LinkStart ==
    /\ frame = "Start" /\ frame' = "Poll"
    /\ IF link.running \/ link.stage = "Up" THEN UNCHANGED <<link, worker>> ELSE StartWorker(link)
    /\ UNCHANGED <<plugged, net, dropped, begins>>

NoRepair(flags) == FALSE  \* mutant: link_stage only reads the stage

\* An early start found no Ethernet adapter after link_start was called.
NeedsWorker(flags) == flags.want /\ flags.stage = "Off" /\ ~flags.running

HasDropped(flags) == flags.stage = "Up" /\ flags.modem /\ dropped

\* net_update, once a frame: link_stage, then the state of the session, for
\* which there may be no socket.
LinkPolled ==
    /\ frame = "Poll" /\ net # "Off"
    /\ \/ NeedsWorker(link) /\ StartWorker(link)
       \/ ~NeedsWorker(link) /\ HasDropped(link) /\ link' = [link EXCEPT !.stage = "Failed"] /\ UNCHANGED worker
       \/ ~NeedsWorker(link) /\ ~HasDropped(link) /\ UNCHANGED <<link, worker>>
    /\ net' \in IF link'.stage = "Failed" THEN {"Lost"}
                 ELSE IF net = "Link" /\ link'.stage = "Up" THEN {"Online", "Lost"} ELSE {net}
    /\ UNCHANGED <<plugged, frame, dropped, begins>>

NetEnded ==
    /\ frame = "Poll" /\ net # "Off" /\ net' = "Off"
    /\ UNCHANGED <<plugged, link, worker, frame, dropped, begins>>

CallDrops ==
    /\ link.modem /\ link.stage = "Up" /\ ~dropped /\ dropped' = TRUE
    /\ UNCHANGED <<plugged, link, worker, frame, net, begins>>

LinkNext ==
    Worker \/ LinkPrepare \/ NetBegin \/ LinkStart \/ LinkPolled \/ NetEnded \/ CallDrops

LinkSpec == LinkInit /\ [][LinkNext]_linkVars

-----------------------------------------------------------------------------
(* What the player sees.                                                   *)

\* A stage with nobody at work on it would be shown for ever: when no worker
\* runs, the link is off, up or failed.
StageIsSettled == ~link.running => link.stage \in {"Off", "Up", "Failed"}

\* The connect screen comes to an end, whenever the player asks for the link
\* while the early look around is at work: in a session, or with a failure.
ConnectEnds == (net = "Link") ~> (net # "Link")
=============================================================================
