---------------------------- MODULE PartsProofs -----------------------------
(***************************************************************************)
(* Proofs about the parts that work by themselves, for every value of      *)
(* their constants: the console's link, the shared dialer, the alerts of   *)
(* the server and the pairing of consoles.                                 *)
(* In each, the inductive invariant says where the other thread, request   *)
(* or message may be when the property is at risk.                         *)
(***************************************************************************)
EXTENDS NetLink, Dialup, Alerts, DriveLinks, TLAPS

-----------------------------------------------------------------------------
(* The console's link: what the stage says while the worker is between     *)
(* its last store and its end, and that running tells of the worker.       *)

LinkInv ==
    /\ link \in [stage: {"Off", "Starting", "Resolving", "Up", "Failed"},
                 running: BOOLEAN, want: BOOLEAN, modem: BOOLEAN]
    /\ link.running <=> worker # "Gone"
    /\ worker \in {"Gone", "Leave"} => link.stage \in {"Off", "Up", "Failed"}

\* The worker's steps keep the two in step.
LEMMA WorkerKeepsLink ==
    ASSUME LinkInv, Worker
    PROVE  LinkInv'
<1>1. CASE ProbesAdapter
    BY <1>1 DEF ProbesAdapter, Works, LinkInv
<1>2. CASE ChoosesToDial
    BY <1>2 DEF ChoosesToDial, Works, LinkInv
<1>3. CASE Dials
    BY <1>3 DEF Dials, Works, LinkInv
<1>4. CASE ShowsStage
    BY <1>4 DEF ShowsStage, Works, LinkInv
<1>5. CASE WorkerLeaves
    BY <1>5 DEF WorkerLeaves, Works, LinkInv
<1> QED
    BY <1>1, <1>2, <1>3, <1>4, <1>5 DEF Worker

\* A start, had or not, leaves a worker or a stage that needs none.
LEMMA StartKeepsLink ==
    ASSUME LinkInv, StartWorker(link)
    PROVE  LinkInv'
BY DEF StartWorker, LinkInv

LEMMA LinkStepKept ==
    ASSUME LinkInv, [LinkNext]_linkVars
    PROVE  LinkInv'
<1>1. CASE Worker
    BY <1>1, WorkerKeepsLink
<1>2. CASE LinkPrepare
    BY <1>2, StartKeepsLink DEF LinkPrepare
<1>3. CASE NetBegin
    BY <1>3 DEF NetBegin, LinkInv
<1>4. CASE LinkStart
    <2>1. CASE link.running \/ link.stage = "Up"
        BY <1>4, <2>1 DEF LinkStart, LinkInv
    <2>2. CASE ~(link.running \/ link.stage = "Up")
        BY <1>4, <2>2, StartKeepsLink DEF LinkStart
    <2> QED
        BY <2>1, <2>2
<1>5. CASE LinkPolled
    <2>1. CASE StartWorker(link)
        BY <2>1, StartKeepsLink
    <2>2. CASE link' = [link EXCEPT !.stage = "Failed"] /\ UNCHANGED worker
        BY <2>2 DEF LinkInv
    <2>3. CASE UNCHANGED <<link, worker>>
        BY <2>3 DEF LinkInv
    <2> QED
        BY <1>5, <2>1, <2>2, <2>3 DEF LinkPolled
<1>6. CASE NetEnded \/ CallDrops \/ UNCHANGED linkVars
    BY <1>6 DEF NetEnded, CallDrops, linkVars, LinkInv
<1> QED
    BY <1>1, <1>2, <1>3, <1>4, <1>5, <1>6 DEF LinkNext

\* A stage that needs somebody at work has a worker, in whatever order the
\* worker and the frame loop look at each other's flags.
THEOREM StagesSettle == LinkSpec => []StageIsSettled
<1>1. LinkInit => LinkInv
    BY DEF LinkInit, LinkInv
<1>2. LinkInv /\ [LinkNext]_linkVars => LinkInv'
    BY LinkStepKept
<1>3. LinkInv => StageIsSettled
    BY DEF LinkInv, StageIsSettled
<1> QED
    BY <1>1, <1>2, <1>3, PTL DEF LinkSpec

-----------------------------------------------------------------------------
(* The shared dialer: between finding the modem and the end of an attempt  *)
(* the worker owns the modem, and nobody takes it away.                    *)

DialInv ==
    /\ call \in [stage: {"Idle", "Detecting", "Dialing", "Negotiating", "Ready", "Failed"},
                 running: BOOLEAN, cancel: BOOLEAN, error: {"OK", "Soft", "Hard", "Canceled"},
                 lost: BOOLEAN, monitored: BOOLEAN, owned: BOOLEAN]
    /\ call.running <=> dialer.at # "Gone"
    /\ dialer \in [at: {"Reset", "Modem", "Setup", "Dial", "Blind", "Negotiate", "Settle",
                        "Watch", "Finish", "Leave", "Gone"},
                   error: {"OK", "Soft", "Hard", "Canceled"}]
    /\ dialer.at \notin {"Finish", "Leave"} => dialer.error = "OK"
    /\ dialer.at \in {"Setup", "Dial", "Blind", "Negotiate", "Settle", "Watch"} => call.owned
    /\ dialer.at = "Finish" /\ dialer.error = "OK" => call.owned
    /\ dialer.at \in {"Leave", "Gone"} => (call.owned <=> call.stage = "Ready")

\* The worker's own steps.
LEMMA DialerKeepsCall ==
    ASSUME DialInv, Dialer
    PROVE  DialInv'
<1> USE DEF Stage, Goes, Fails
<1>1. CASE ResetLine
    BY <1>1 DEF ResetLine, HungUp, DialInv
<1>2. CASE FindModem
    <2>1. CASE dialer' = [dialer EXCEPT !.at = "Setup"] /\ call' = [call EXCEPT !.owned = TRUE]
        BY <1>2, <2>1 DEF FindModem, DialInv
    <2>2. CASE dialer' = [at |-> "Finish", error |-> "Hard"] /\ UNCHANGED call
        BY <1>2, <2>2 DEF FindModem, DialInv
    <2>3. CASE dialer' = [at |-> "Finish", error |-> "Canceled"] /\ UNCHANGED call
        BY <1>2, <2>3 DEF FindModem, DialInv
    <2> QED
        BY <1>2, <2>1, <2>2, <2>3 DEF FindModem
<1>3. CASE SetUpPpp
    BY <1>3 DEF SetUpPpp, DialInv
<1>4. CASE DialNumber
    <2>1. dialer.at = "Dial"
        BY <1>4 DEF DialNumber
    <2>2. CASE /\ dialer' \in {[dialer EXCEPT !.at = "Negotiate"], [dialer EXCEPT !.at = "Blind"]}
               /\ call' = [call EXCEPT !.stage = "Dialing"]
        BY <2>1, <2>2 DEF DialInv
    <2>3. CASE /\ dialer' \in [at: {"Finish"}, error: {"Soft", "Hard", "Canceled"}]
               /\ UNCHANGED call
        BY <2>1, <2>3 DEF DialInv
    <2> QED
        BY <1>4, <2>2, <2>3 DEF DialNumber
<1>10. CASE DialBlind
    <2>1. dialer.at = "Blind"
        BY <1>10 DEF DialBlind
    <2>2. CASE dialer' = [dialer EXCEPT !.at = "Negotiate"] /\ UNCHANGED call
        BY <2>1, <2>2 DEF DialInv
    <2>3. CASE /\ dialer' \in [at: {"Finish"}, error: {"Soft", "Hard", "Canceled"}]
               /\ UNCHANGED call
        BY <2>1, <2>3 DEF DialInv
    <2> QED
        BY <1>10, <2>2, <2>3 DEF DialBlind
<1>5. CASE Negotiate
    BY <1>5 DEF Negotiate, DialInv
<1>6. CASE ForgetLoss
    <2>1. CASE dialer' = [dialer EXCEPT !.at = "Watch"] /\ call' = [call EXCEPT !.lost = FALSE]
        BY <1>6, <2>1 DEF ForgetLoss, DialInv
    <2>2. CASE dialer' = [at |-> "Finish", error |-> "Canceled"] /\ UNCHANGED call
        BY <1>6, <2>2 DEF ForgetLoss, DialInv
    <2> QED
        BY <1>6, <2>1, <2>2 DEF ForgetLoss
<1>9. CASE WatchLine
    BY <1>9 DEF WatchLine, DialInv
<1>7. CASE FinishDial
    <2>1. CASE dialer.error = "OK"
        <3>1. call' = [call EXCEPT !.error = "OK", !.stage = "Ready"]
            BY <1>7, <2>1, Zenon DEF FinishDial
        <3>3. call'.owned /\ call'.stage = "Ready" /\ call'.running = call.running
            BY <1>7, <2>1, <3>1 DEF FinishDial, DialInv
        <3>4. call' \in [stage: {"Idle", "Detecting", "Dialing", "Negotiating", "Ready", "Failed"},
                 running: BOOLEAN, cancel: BOOLEAN, error: {"OK", "Soft", "Hard", "Canceled"},
                 lost: BOOLEAN, monitored: BOOLEAN, owned: BOOLEAN]
            BY <3>1 DEF DialInv
        <3>2. dialer.at = "Finish" /\ dialer' = [dialer EXCEPT !.at = "Leave"]
            BY <1>7, Zenon DEF FinishDial
        <3> QED
            BY <2>1, <3>2, <3>3, <3>4 DEF DialInv
    <2>2. CASE dialer.error # "OK"
        <3>1. call' = [call EXCEPT !.monitored = FALSE, !.owned = FALSE, !.error = dialer.error, !.stage = "Failed"]
            BY <1>7, <2>2 DEF FinishDial, FailedCall, HungUp, DialInv
        <3>2. dialer.at = "Finish" /\ dialer' = [dialer EXCEPT !.at = "Leave"]
            BY <1>7, Zenon DEF FinishDial
        <3>3. ~call'.owned /\ call'.stage = "Failed" /\ call'.running = call.running
            BY <3>1 DEF DialInv
        <3>4. call' \in [stage: {"Idle", "Detecting", "Dialing", "Negotiating", "Ready", "Failed"},
                 running: BOOLEAN, cancel: BOOLEAN, error: {"OK", "Soft", "Hard", "Canceled"},
                 lost: BOOLEAN, monitored: BOOLEAN, owned: BOOLEAN]
            BY <3>1 DEF DialInv
        <3> QED
            BY <2>2, <3>2, <3>3, <3>4 DEF DialInv
    <2> QED
        BY <2>1, <2>2
<1>8. CASE DialerLeaves
    BY <1>8 DEF DialerLeaves, DialInv
<1> QED
    BY <1>1, <1>2, <1>3, <1>4, <1>5, <1>6, <1>7, <1>8, <1>9, <1>10 DEF Dialer

\* A new attempt begins, or fails at once, where the last has left.
LEMMA RedialKeepsCall ==
    ASSUME DialInv, ManageRedial
    PROVE  DialInv'
<1>1. CASE ~NoRedial /\ DialupStart
    <2>1. dialer.at = "Gone" /\ ~call.running
        BY <1>1 DEF NoRedial, DialInv
    <2>2. CASE dialer' = [at |-> "Reset", error |-> "OK"]
              /\ call' = [call EXCEPT !.stage = "Detecting", !.running = TRUE, !.cancel = FALSE, !.error = "OK"]
        BY <2>2 DEF DialInv
    <2>3. CASE call' = [HungUp(call) EXCEPT !.stage = "Failed", !.cancel = FALSE, !.error = "Hard"]
              /\ UNCHANGED dialer
        BY <2>1, <2>3 DEF HungUp, DialInv
    <2> QED
        BY <1>1, <2>2, <2>3 DEF DialupStart
<1>2. CASE UNCHANGED <<call, dialer>>
    BY <1>2 DEF DialInv
<1> QED
    BY <1>1, <1>2 DEF ManageRedial

LEMMA DialStepKept ==
    ASSUME DialInv, [DialNext]_dialVars
    PROVE  DialInv'
<1>1. CASE Dialer
    BY <1>1, DialerKeepsCall
<1>2. CASE PppEnds
    BY <1>2 DEF PppEnds, DialInv
<1>3. CASE StartPressed
    BY <1>3 DEF StartPressed, DialInv
<1>4. CASE CubeExits
    BY <1>4 DEF CubeExits, HungUp, DialInv
<1>5. CASE ManageRedial
    BY <1>5, RedialKeepsCall
<1>6. CASE CarrierLost \/ PollModemStage \/ UNCHANGED dialVars
    BY <1>6 DEF CarrierLost, PollModemStage, dialVars, DialInv
<1> QED
    BY <1>1, <1>2, <1>3, <1>4, <1>5, <1>6 DEF DialNext, Cube

\* Whenever no worker is at it, the modem is on just when the stage says so.
THEOREM CallsStayClean == DialSpec => []CallsAreClean
<1>1. DialInit => DialInv
    BY DEF DialInit, DialInv
<1>2. DialInv /\ [DialNext]_dialVars => DialInv'
    BY DialStepKept
<1>3. DialInv => CallsAreClean
    BY DEF DialInv, CallsAreClean
<1> QED
    BY <1>1, <1>2, <1>3, PTL DEF DialSpec

-----------------------------------------------------------------------------
(* Pairing: a claim may still hold a pairing that another claim has taken, *)
(* that has expired, or whose link was undone; it was typed, and it has    *)
(* made a link or is waiting to, never both.                               *)

PairingInv ==
    /\ begun \in Nat /\ claim \in [Claimants -> Nat]
    /\ \A p \in pairings : p \in [n: 1 .. begun, user: BOOLEAN, expired: BOOLEAN]
    /\ \A p, q \in pairings : p.n = q.n => p = q
    /\ \A p \in pairings : p.user => p.n \in typed
    /\ \A n \in typed : n \in 1 .. begun
    /\ \A c \in Claimants : claim[c] # 0 => claim[c] \in typed
    /\ made \in Seq(Nat)
    /\ \A i \in 1 .. Len(made), p \in pairings : made[i] # p.n
    /\ OneLinkACode

\* One pairing changes in what is typed or expired, and keeps its number.
LEMMA PairingMarked ==
    ASSUME PairingInv, NEW p \in pairings, NEW q, q \in [n: 1 .. begun, user: BOOLEAN, expired: BOOLEAN],
           q.n = p.n, q.user => p.n \in typed',
           pairings' = (pairings \ {p}) \cup {q}, typed' \in {typed, typed \cup {p.n}},
           UNCHANGED <<claim, links, made, begun>>
    PROVE  PairingInv'
<1>1. \A r \in pairings' : r \in [n: 1 .. begun, user: BOOLEAN, expired: BOOLEAN]
    BY DEF PairingInv
<1>2. \A r, t \in pairings' : r.n = t.n => r = t
    BY DEF PairingInv
<1>3. \A r \in pairings' : r.user => r.n \in typed'
    BY DEF PairingInv
<1>4. p.n \in 1 .. begun
    BY DEF PairingInv
<1>5. \A i \in 1 .. Len(made'), r \in pairings' : made'[i] # r.n
    BY DEF PairingInv
<1>6. OneLinkACode'
    BY DEF PairingInv, OneLinkACode
<1> QED
    BY <1>1, <1>2, <1>3, <1>4, <1>5, <1>6 DEF PairingInv

LEMMA PairingStepKept ==
    ASSUME PairingInv, [LinkingNext]_linkingVars
    PROVE  PairingInv'
<1>1. CASE Pair
    <2>1. begun' = begun + 1 /\ \A i \in 1 .. Len(made) : made[i] \in 1 .. begun
        BY <1>1 DEF Pair, PairingInv, OneLinkACode
    <2>2. \A p \in pairings' : p \in pairings \/ p = [n |-> begun', user |-> FALSE, expired |-> FALSE]
        BY <1>1 DEF Pair
    <2>3. \A p \in pairings : p.n \in 1 .. begun
        BY DEF PairingInv
    <2>8. UNCHANGED <<made, typed>> /\ begun \in Nat
        BY <1>1 DEF Pair, PairingInv
    <2>4. ASSUME NEW i \in 1 .. Len(made), NEW p \in pairings'
          PROVE  made[i] # p.n
        BY <2>1, <2>2, <2>8 DEF PairingInv
    <2>9. OneLinkACode'
        BY <2>8 DEF PairingInv, OneLinkACode
    <2>5. ASSUME NEW p \in pairings'
          PROVE  p \in [n: 1 .. begun', user: BOOLEAN, expired: BOOLEAN]
        <3>1. begun \in Nat /\ 1 .. begun \subseteq 1 .. begun' /\ begun' \in 1 .. begun'
            BY <2>1 DEF PairingInv
        <3>2. CASE p \in pairings
            BY <3>1, <3>2 DEF PairingInv
        <3>3. CASE p = [n |-> begun', user |-> FALSE, expired |-> FALSE]
            BY <3>1, <3>3
        <3> QED
            BY <2>2, <3>2, <3>3
    <2>6. ASSUME NEW p \in pairings', NEW q \in pairings', p.n = q.n
          PROVE  p = q
        <3>1. begun' \notin 1 .. begun
            <4>1. begun \in Nat
                BY DEF PairingInv
            <4> QED
                BY <2>1, <4>1
        <3>2. CASE p \in pairings /\ q \in pairings
            BY <2>6, <3>2 DEF PairingInv
        <3>3. \A r \in pairings' : r \notin pairings => r.n = begun'
            BY <2>2
        <3>4. \A r \in pairings : r.n # begun'
            BY <2>3, <3>1
        <3>5. CASE p \notin pairings /\ q \notin pairings
            BY <2>2, <3>5
        <3> QED
            BY <2>6, <3>2, <3>3, <3>4, <3>5
    <2>7. /\ \A p \in pairings' : p.user => p.n \in typed'
          /\ \A n \in typed' : n \in 1 .. begun'
          /\ begun' \in Nat
        BY <1>1, <2>1, <2>2 DEF Pair, PairingInv
    <2> QED
        BY <1>1, <2>4, <2>5, <2>6, <2>7, <2>8, <2>9 DEF Pair, PairingInv
<1>2. CASE TypeCode
    <2>1. PICK p \in pairings :
            /\ pairings' = (pairings \ {p}) \cup {[p EXCEPT !.user = TRUE]}
            /\ typed' = typed \cup {p.n}
        BY <1>2 DEF TypeCode
    <2>2. p \in [n: 1 .. begun, user: BOOLEAN, expired: BOOLEAN]
        BY DEF PairingInv
    <2> QED
        BY <1>2, <2>1, <2>2, PairingMarked DEF TypeCode
<1>3. CASE QuarterOfAnHour
    <2>1. PICK p \in pairings : pairings' = (pairings \ {p}) \cup {[p EXCEPT !.expired = TRUE]}
        BY <1>3 DEF QuarterOfAnHour
    <2>2. p \in [n: 1 .. begun, user: BOOLEAN, expired: BOOLEAN] /\ (p.user => p.n \in typed)
        BY DEF PairingInv
    <2> QED
        BY <1>3, <2>1, <2>2, PairingMarked DEF QuarterOfAnHour
<1>4. ASSUME NEW c \in Claimants, ReadsPairing(c)
      PROVE  PairingInv'
    BY <1>4 DEF ReadsPairing, PairingInv, OneLinkACode
<1>5. ASSUME NEW c \in Claimants, TakesPairing(c)
      PROVE  PairingInv'
    <2>1. claim[c] \in typed /\ claim' \in [Claimants -> Nat]
        BY <1>5 DEF TakesPairing, PairingInv
    <2>2. \A d \in Claimants : claim'[d] # 0 => claim'[d] \in typed
        BY <1>5 DEF TakesPairing, PairingInv
    <2>3. pairings' = {p \in pairings : p.n # claim[c]}
        BY <1>5 DEF TakesPairing
    <2>4. UNCHANGED <<typed, begun>>
        BY <1>5 DEF TakesPairing
    <2>5. CASE ~IsFirst(c) /\ UNCHANGED made
        BY <2>1, <2>2, <2>3, <2>4, <2>5 DEF PairingInv, OneLinkACode
    <2>6. CASE IsFirst(c) /\ made' = Append(made, claim[c])
        <3>1. claim[c] \in Nat /\ made' \in Seq(Nat) /\ Len(made') = Len(made) + 1
            BY <2>6 DEF PairingInv
        <3>2. \A i \in 1 .. Len(made) : made'[i] = made[i] /\ made[i] # claim[c]
            BY <2>6 DEF IsFirst, PairingInv
        <3>3. made'[Len(made) + 1] = claim[c]
            BY <2>6 DEF PairingInv
        <3>4. \A i \in 1 .. Len(made') : i \in 1 .. Len(made) \/ i = Len(made) + 1
            BY <3>1 DEF PairingInv
        <3>5. OneLinkACode'
            BY <2>1, <2>4, <3>1, <3>2, <3>3, <3>4 DEF PairingInv, OneLinkACode
        <3>6. \A i \in 1 .. Len(made'), p \in pairings' : made'[i] # p.n
            BY <2>3, <3>2, <3>3, <3>4 DEF PairingInv
        <3>7. \A p \in pairings' : p \in pairings
            BY <2>3
        <3> QED
            BY <2>1, <2>2, <2>4, <3>1, <3>5, <3>6, <3>7 DEF PairingInv
    <2> QED
        BY <1>5, <2>5, <2>6 DEF TakesPairing
<1>6. CASE Unlink
    BY <1>6 DEF Unlink, PairingInv, OneLinkACode
<1>7. CASE UNCHANGED linkingVars
    BY <1>7 DEF linkingVars, PairingInv, OneLinkACode
<1> QED
    BY <1>1, <1>2, <1>3, <1>4, <1>5, <1>6, <1>7 DEF LinkingNext

\* However many claims of a console are under way together, and whatever was
\* unlinked or expired in between, a typed code makes one link ever: none again
\* after its link was undone.
THEOREM CodesLinkOnce == LinkingSpec => []OneLinkACode
<1>1. LinkingInit => PairingInv
    BY DEF LinkingInit, PairingInv, OneLinkACode
<1>2. PairingInv /\ [LinkingNext]_linkingVars => PairingInv'
    BY PairingStepKept
<1>3. PairingInv => OneLinkACode
    BY DEF PairingInv
<1> QED
    BY <1>1, <1>2, <1>3, PTL DEF LinkingSpec

-----------------------------------------------------------------------------
(* Alerts: a window that was forgotten has closed.                         *)

WindowInv ==
    /\ clock \in Nat
    /\ last \in [Hooks -> [NewsKinds -> {Never} \cup Nat]]
    /\ told \in [Hooks -> [NewsKinds -> {Never} \cup Nat]]
    /\ news \subseteq NewsKinds
    /\ \A h \in Hooks, k \in NewsKinds :
            told[h][k] # Never => told[h][k] = last[h][k] \/ clock - told[h][k] >= Throttle[k]

\* What is let through finds its window closed.
LEMMA NotifyKeepsWindows ==
    ASSUME WindowInv, Notify
    PROVE  /\ WindowInv'
           /\ \A h \in Hooks, k \in NewsKinds :
                    told'[h][k] # told[h][k] /\ told[h][k] # Never
                        => told'[h][k] - told[h][k] >= Throttle[k]
<1>1. PICK k \in news :
            LET passed == {h \in Hooks : ~Open(h, k)}
            IN  /\ last' = [h \in Hooks |-> IF h \in passed THEN [Pruned(h, k) EXCEPT ![k] = clock]
                                            ELSE last[h]]
                /\ told' = [h \in Hooks |-> IF h \in passed THEN [told[h] EXCEPT ![k] = clock] ELSE told[h]]
                /\ news' = {} /\ clock' = clock
    BY DEF Notify
<1>2. k \in NewsKinds /\ Throttle \in [NewsKinds -> Nat] /\ clock \in Nat /\ Never = -1
    BY AlertsAssumption DEF WindowInv, Never
<1>3. ASSUME NEW h \in Hooks
      PROVE  /\ Pruned(h, k) \in [NewsKinds -> {Never} \cup Nat]
             /\ \A j \in NewsKinds :
                    Pruned(h, k)[j] = last[h][j] \/ (Pruned(h, k)[j] = Never /\ ~Open(h, j))
    BY <1>2 DEF Pruned, WindowInv
<1>4. ASSUME NEW h \in Hooks, NEW j \in NewsKinds, ~Open(h, j), told[h][j] # Never
      PROVE  told[h][j] \in Nat /\ clock - told[h][j] >= Throttle[j]
    BY <1>2, <1>4 DEF WindowInv, Open
<1>5. last' \in [Hooks -> [NewsKinds -> {Never} \cup Nat]] /\ told' \in [Hooks -> [NewsKinds -> {Never} \cup Nat]]
    BY <1>1, <1>2, <1>3 DEF WindowInv
<1>6. ASSUME NEW h \in Hooks, NEW j \in NewsKinds
      PROVE  /\ told'[h][j] # Never => told'[h][j] = last'[h][j] \/ clock' - told'[h][j] >= Throttle[j]
             /\ told'[h][j] # told[h][j] /\ told[h][j] # Never => told'[h][j] - told[h][j] >= Throttle[j]
    <2>1. CASE Open(h, k)
        BY <1>1, <2>1 DEF WindowInv
    <2>2. CASE ~Open(h, k)
        <3>1. last'[h] = [Pruned(h, k) EXCEPT ![k] = clock] /\ told'[h] = [told[h] EXCEPT ![k] = clock]
            BY <1>1, <2>2
        <3>2. CASE j = k
            BY <1>2, <1>3, <1>4, <2>2, <3>1, <3>2 DEF WindowInv
        <3>3. CASE j # k
            <4>1. told'[h][j] = told[h][j] /\ last'[h][j] = Pruned(h, k)[j]
                BY <1>2, <1>3, <3>1, <3>3 DEF WindowInv
            <4> QED
                BY <1>1, <1>2, <1>3, <1>4, <4>1 DEF WindowInv
        <3> QED
            BY <3>2, <3>3
    <2> QED
        BY <2>1, <2>2
<1> QED
    BY <1>1, <1>2, <1>5, <1>6 DEF WindowInv

LEMMA AlertStepKept ==
    ASSUME WindowInv, [AlertNext]_alertVars
    PROVE  /\ WindowInv'
           /\ \A h \in Hooks, k \in NewsKinds :
                    told'[h][k] # told[h][k] /\ told[h][k] # Never
                        => told'[h][k] - told[h][k] >= Throttle[k]
<1>1. CASE Notify
    BY <1>1, NotifyKeepsWindows
<1>2. CASE TimePasses
    <2>1. clock' = clock + 1 /\ UNCHANGED <<news, last, told>>
        BY <1>2 DEF TimePasses
    <2> QED
        BY <2>1, AlertsAssumption DEF WindowInv, Never
<1>3. CASE Happens
    BY <1>3 DEF Happens, WindowInv
<1>4. CASE UNCHANGED <<news, last, told, clock>>
    BY <1>4 DEF WindowInv
<1>5. UNCHANGED alertVars \/ Close \/ (\E h \in Hooks : Takes(h) \/ Posts(h)) => UNCHANGED <<news, last, told, clock>>
    BY DEF Close, Takes, Posts, alertVars
<1> QED
    BY <1>1, <1>2, <1>3, <1>4, <1>5 DEF AlertNext

\* Whatever other news prunes the windows, one player's news is told once in
\* a window.
THEOREM WindowsHold == AlertSpec => OneAlertAWindow
<1>1. AlertInit => WindowInv
    BY DEF AlertInit, WindowInv
<1>2. WindowInv /\ [AlertNext]_alertVars =>
        WindowInv' /\ [\A h \in Hooks, k \in NewsKinds :
            told'[h][k] # told[h][k] /\ told[h][k] # Never
                => told'[h][k] - told[h][k] >= Throttle[k]]_alertVars
    BY AlertStepKept
<1> QED
    BY <1>1, <1>2, PTL DEF AlertSpec, OneAlertAWindow
=============================================================================
