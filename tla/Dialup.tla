------------------------------- MODULE Dialup -------------------------------
(***************************************************************************)
(* The shared dialer (common/dialup.c) and a program on it that redials:   *)
(* Ping Cube (apps/ping-cube/ping-cube.c).  A worker thread dials; the     *)
(* program's frame loop starts it, polls its stage, asks it to stop, and   *)
(* starts it again when a call drops or fails in a way that may pass; PPP  *)
(* tells of the end of a call from a thread of its own.  They share the    *)
(* flags of dialup.c without a lock.                                       *)
(*                                                                         *)
(* A step of the worker is one SDK call, or one access to the flags where  *)
(* their order matters.  The modem, the line and PPP are outside: a call   *)
(* succeeds or fails, carrier may be lost, and either side may end PPP.    *)
(* Errors are of three kinds: canceled, those a redial may mend, and the   *)
(* rest.  Left out: settings, rates, texts, and dialup_connect.            *)
(***************************************************************************)
EXTENDS Naturals

CONSTANT MaxCalls   \* bound on the calls the program makes

ASSUME DialupAssumption == MaxCalls \in Nat

VARIABLES
    call,       \* the flags of dialup.c: stage, running, cancel, error, lost,
                \* monitored, and owned, the modem or PPP being its to shut down
    dialer,     \* the worker thread: where it is, and with what result
    line,       \* carrier and ppp: what the modem and PPP would say
    cube,       \* Ping Cube: exiting, the stage last polled, waiting (redial_at_ms
                \* is set), and where its frame is
    calls       \* calls made so far

dialVars == <<call, dialer, line, cube, calls>>

Down == [carrier |-> FALSE, ppp |-> FALSE]

\* dialup_start by start_link.
DialInit ==
    /\ call = [stage |-> "Detecting", running |-> TRUE, cancel |-> FALSE, error |-> "OK",
               lost |-> FALSE, monitored |-> FALSE, owned |-> FALSE]
    /\ dialer = [at |-> "Reset", error |-> "OK"]
    /\ line = Down
    /\ cube = [exiting |-> FALSE, stage |-> "Idle", waiting |-> FALSE, at |-> "Exit"]
    /\ calls = 1

HungUp(flags) == [flags EXCEPT !.monitored = FALSE, !.owned = FALSE]

-----------------------------------------------------------------------------
(* The worker: connect_link, then finish.                                  *)

\* On to the next step with these flags and this line ...
Goes(to, flags, state) ==
    dialer' = [dialer EXCEPT !.at = to] /\ call' = flags /\ line' = state
\* ... or to the end of the attempt.
Fails(error) ==
    dialer' = [at |-> "Finish", error |-> error] /\ UNCHANGED <<call, line>>

\* Each stage begins with a look at cancel_requested, but for the first,
\* which hangs up before it.
Stage(at, next) ==
    /\ dialer.at = at
    /\ IF call.cancel THEN Fails("Canceled") ELSE next
    /\ UNCHANGED <<cube, calls>>

ResetLine ==
    /\ dialer.at = "Reset"
    /\ Goes("Modem", [HungUp(call) EXCEPT !.lost = FALSE], Down)
    /\ UNCHANGED <<cube, calls>>
FindModem == Stage("Modem", Goes("Setup", [call EXCEPT !.owned = TRUE], line) \/ Fails("Hard"))
SetUpPpp == Stage("Setup", Goes("Dial", call, line) \/ Fails("Hard"))
DialNumber ==
    Stage("Dial", \/ Goes("Negotiate", [call EXCEPT !.stage = "Dialing"], [line EXCEPT !.carrier = TRUE])
                  \/ Goes("Blind", [call EXCEPT !.stage = "Dialing"], line)
                  \/ Fails("Soft") \/ Fails("Hard"))
\* No dial tone was heard.
DialBlind ==
    Stage("Blind", Goes("Negotiate", call, [line EXCEPT !.carrier = TRUE]) \/ Fails("Soft") \/ Fails("Hard"))
Negotiate ==
    Stage("Negotiate", \/ Goes("Settle", [call EXCEPT !.stage = "Negotiating"], [line EXCEPT !.ppp = TRUE])
                       \/ Fails("Soft"))
ForgetLoss == Stage("Settle", Goes("Watch", [call EXCEPT !.lost = FALSE], line))
WatchLine ==
    /\ dialer.at = "Watch" /\ Goes("Finish", [call EXCEPT !.monitored = TRUE], line)
    /\ UNCHANGED <<cube, calls>>

LeftOn(flags) == flags  \* mutant: a failed attempt leaves the modem on

FailedCall(flags) == HungUp(flags)

FinishDial ==
    /\ dialer.at = "Finish"
    /\ dialer' = [dialer EXCEPT !.at = "Leave"]
    /\ IF dialer.error = "OK"
       THEN call' = [call EXCEPT !.error = "OK", !.stage = "Ready"] /\ UNCHANGED line
       ELSE /\ call' = [FailedCall(call) EXCEPT !.error = dialer.error, !.stage = "Failed"]
            /\ line' = Down
    /\ UNCHANGED <<cube, calls>>

DialerLeaves ==
    /\ dialer.at = "Leave"
    /\ dialer' = [at |-> "Gone", error |-> "OK"]
    /\ call' = [call EXCEPT !.running = FALSE]
    /\ UNCHANGED <<line, cube, calls>>

Dialer ==
    \/ ResetLine \/ FindModem \/ SetUpPpp \/ DialNumber \/ DialBlind \/ Negotiate
    \/ ForgetLoss \/ WatchLine \/ FinishDial \/ DialerLeaves

-----------------------------------------------------------------------------
(* The line.                                                               *)

CarrierLost ==
    /\ line.carrier /\ line' = [line EXCEPT !.carrier = FALSE]
    /\ UNCHANGED <<call, dialer, cube, calls>>

\* monitor_enter_phase hears of it, once it is asked to.
PppEnds ==
    /\ line.ppp /\ line' = [line EXCEPT !.ppp = FALSE]
    /\ call' = [call EXCEPT !.lost = @ \/ call.monitored]
    /\ UNCHANGED <<dialer, cube, calls>>

Dropped == call.stage = "Ready" /\ ~call.running /\ (call.lost \/ ~line.carrier)

-----------------------------------------------------------------------------
(* A frame of Ping Cube: leave or go on, poll the stage, see to a redial.  *)

\* dialup_start: a thread to dial with may not be had.
DialupStart ==
    /\ calls < MaxCalls /\ calls' = calls + 1
    /\ \/ /\ dialer' = [at |-> "Reset", error |-> "OK"]
          /\ call' = [call EXCEPT !.stage = "Detecting", !.running = TRUE, !.cancel = FALSE, !.error = "OK"]
          /\ UNCHANGED line
       \/ /\ call' = [HungUp(call) EXCEPT !.stage = "Failed", !.cancel = FALSE, !.error = "Hard"]
          /\ line' = Down
          /\ UNCHANGED dialer

StartPressed ==
    /\ cube.at = "Exit" /\ ~cube.exiting
    /\ cube' = [cube EXCEPT !.exiting = TRUE]
    /\ call' = [call EXCEPT !.cancel = @ \/ call.running]
    /\ UNCHANGED <<dialer, line, calls>>

CubeExits ==
    /\ cube.at = "Exit" /\ cube.exiting /\ ~call.running
    /\ cube' = [cube EXCEPT !.at = "Gone"]
    /\ call' = [HungUp(call) EXCEPT !.stage = "Idle", !.error = "OK"]
    /\ line' = Down
    /\ UNCHANGED <<dialer, calls>>

PollModemStage ==
    /\ cube.at = "Exit" /\ ~(cube.exiting /\ ~call.running)
    /\ cube' = [cube EXCEPT !.at = "Redial", !.stage = call.stage]
    /\ UNCHANGED <<call, dialer, line, calls>>

AlwaysRedials == call.running  \* mutant: redialing goes on behind the exit

NoRedial == cube.exiting \/ call.running

ManageRedial ==
    LET drop == cube.stage = "Ready" /\ Dropped
        retry == cube.stage = "Failed" /\ call.error = "Soft"
    IN  /\ cube.at = "Redial"
        /\ \/ /\ ~NoRedial /\ (drop \/ (retry /\ cube.waiting))
              /\ DialupStart
              /\ cube' = [cube EXCEPT !.at = "Exit", !.stage = "Detecting", !.waiting = FALSE]
           \/ /\ ~NoRedial /\ retry /\ ~cube.waiting
              /\ cube' = [cube EXCEPT !.at = "Exit", !.waiting = TRUE]
              /\ UNCHANGED <<call, dialer, line, calls>>
           \/ /\ NoRedial \/ ~(drop \/ retry)
              /\ cube' = [cube EXCEPT !.at = "Exit"]
              /\ UNCHANGED <<call, dialer, line, calls>>

Cube == CubeExits \/ PollModemStage \/ ManageRedial

DialNext == Dialer \/ CarrierLost \/ PppEnds \/ StartPressed \/ Cube

DialSpec == DialInit /\ [][DialNext]_dialVars

-----------------------------------------------------------------------------
(* What the programs on it rely on.                                        *)

\* With no worker at it, the modem and PPP are on exactly when the stage says
\* that a call is up: no failed, canceled or ended attempt leaves them on.
CallsAreClean == ~call.running => (call.owned <=> call.stage = "Ready")

\* Start ends the program whatever the worker is at, and however soon a
\* failure would have it dial again.
ExitEnds == cube.exiting ~> cube.at = "Gone"
=============================================================================
