------------------------------- MODULE Alerts -------------------------------
(***************************************************************************)
(* The alerts of the DreamKarts server (server/alerts/alerts.go): each     *)
(* webhook has a throttle window per kind of news, a queue, and a sender   *)
(* that posts to a service which may be slow, refuse or rate limit.  The   *)
(* server's one goroutine tells the notifier its news and goes on; at its  *)
(* end it closes the notifier and waits for a while (cmd/dreamkarts-lobby).*)
(*                                                                         *)
(* News is its throttle key: the joins of one player, or the race starts.  *)
(* Left out: what an alert says, and the news a webhook does not take.     *)
(***************************************************************************)
EXTENDS Integers, Sequences

CONSTANTS
    Hooks,      \* the webhooks
    NewsKinds,  \* what a throttle window belongs to
    Throttle,   \* NewsKinds -> the least time between two alerts
    QueueLen,   \* alerts a webhook holds while its service is slow (16)
    MaxTime     \* bound on the clock

ASSUME AlertsAssumption ==
    Throttle \in [NewsKinds -> Nat] /\ QueueLen \in Nat \ {0} /\ MaxTime \in Nat

Never == -1
Attempts == 3
Done == -1

VARIABLES
    news,       \* what has happened and the server has not told yet, or {}
    last,       \* Hooks -> NewsKinds -> when its window was opened, or Never
    queue,      \* Hooks -> the alerts to post
    sender,     \* Hooks -> the attempt it is at, 0 between alerts, or Done
    ending,     \* "No", "Closing" or "Gone": where the server's end is
    told,       \* Hooks -> NewsKinds -> when an alert was last let through
    clock

alertVars == <<news, last, queue, sender, ending, told, clock>>

AlertInit ==
    /\ news = {} /\ ending = "No" /\ clock = 0
    /\ last = [h \in Hooks |-> [k \in NewsKinds |-> Never]] /\ told = last
    /\ queue = [h \in Hooks |-> <<>>]
    /\ sender = [h \in Hooks |-> 0]

-----------------------------------------------------------------------------
(* The server's goroutine.                                                 *)

Happens ==
    /\ news = {} /\ ending = "No"
    /\ \E k \in NewsKinds : news' = {k}
    /\ UNCHANGED <<last, queue, sender, ending, told, clock>>

Open(h, k) == last[h][k] # Never /\ clock - last[h][k] < Throttle[k]

PrunedByNews(h, k) ==  \* mutant: every window is closed by the throttle of the news
    [j \in NewsKinds |-> IF j = k \/ last[h][j] = Never THEN last[h][j]
                         ELSE IF clock - last[h][j] >= Throttle[k] THEN Never ELSE last[h][j]]

\* Windows that have closed are forgotten.
Pruned(h, k) == [j \in NewsKinds |-> IF Open(h, j) THEN last[h][j] ELSE Never]

\* The window opens first; a queue that is full drops the alert.
Notify ==
    \E k \in news :
        LET passed == {h \in Hooks : ~Open(h, k)}
        IN  /\ news' = {}
            /\ last' = [h \in Hooks |-> IF h \in passed THEN [Pruned(h, k) EXCEPT ![k] = clock]
                                        ELSE last[h]]
            /\ told' = [h \in Hooks |-> IF h \in passed THEN [told[h] EXCEPT ![k] = clock] ELSE told[h]]
            /\ queue' = [h \in Hooks |-> IF h \in passed /\ Len(queue[h]) < QueueLen
                                         THEN Append(queue[h], k) ELSE queue[h]]
            /\ UNCHANGED <<sender, ending, clock>>

\* A signal stops the server: the deferred Close closes the queues, and waits
\* until the senders are done or five seconds are over.
Close ==
    /\ \/ news = {} /\ ending = "No" /\ ending' = "Closing"
       \/ ending = "Closing" /\ ending' = "Gone"
    /\ UNCHANGED <<news, last, queue, sender, told, clock>>

-----------------------------------------------------------------------------
(* A sender.                                                               *)

Takes(h) ==
    /\ sender[h] = 0 /\ ending # "Gone"
    /\ \/ /\ queue[h] # <<>>
          /\ queue' = [queue EXCEPT ![h] = Tail(@)]
          /\ sender' = [sender EXCEPT ![h] = 1]
       \/ /\ queue[h] = <<>> /\ ending # "No"
          /\ sender' = [sender EXCEPT ![h] = Done]
          /\ UNCHANGED queue
    /\ UNCHANGED <<news, last, ending, told, clock>>

\* The service answers, once in a while with a rate limit.
Posts(h) ==
    /\ sender[h] \in 1 .. Attempts /\ ending # "Gone"
    /\ \/ sender' = [sender EXCEPT ![h] = 0]
       \/ sender[h] < Attempts /\ sender' = [sender EXCEPT ![h] = @ + 1]
    /\ UNCHANGED <<news, last, queue, ending, told, clock>>

TimePasses ==
    /\ clock < MaxTime /\ clock' = clock + 1
    /\ UNCHANGED <<news, last, queue, sender, ending, told>>

AlertNext ==
    \/ Happens \/ Notify \/ Close \/ TimePasses
    \/ \E h \in Hooks : Takes(h) \/ Posts(h)

AlertSpec == AlertInit /\ [][AlertNext]_alertVars

-----------------------------------------------------------------------------
(* What the server's owner may count on.                                   *)

\* "One player reconnecting or hopping lobbies posts at most once every five
\* minutes" (alerts.go): a webhook lets no two alerts of a kind through
\* within its window, whatever other news has windows forgotten in between.
OneAlertAWindow ==
    [][\A h \in Hooks, k \in NewsKinds :
            told'[h][k] # told[h][k] /\ told[h][k] # Never
                => told'[h][k] - told[h][k] >= Throttle[k]]_alertVars
=============================================================================
