------------------------------ MODULE MCParts ------------------------------
(***************************************************************************)
(* Small instances, for TLC, of the parts that work by themselves: the     *)
(* chat, the console's link, the shared dialer, the server's alerts, and   *)
(* the save vault, drive and links of the website.  They share no state    *)
(* and no messages, so nothing is learned from their interleavings: each   *)
(* behaviour is one of one part, chosen at its start, and the states of    *)
(* the run are those of the parts, added and not multiplied.  The vault is *)
(* two parts, its saves and its archives, as no request is about both.     *)
(***************************************************************************)
EXTENDS Chat, NetLink, Dialup, Alerts, SaveVault, Drive, DriveLinks, TLC

VARIABLE part

partsVars ==
    <<part, chatVars, linkVars, dialVars, alertVars, vaultVars, objects, linkingVars>>

PartsInit ==
    /\ part \in {"chat", "link", "dialer", "alerts", "saves", "archives", "drive", "linking"}
    /\ ChatInit /\ LinkInit /\ DialInit /\ AlertInit /\ VaultInit /\ DriveInit /\ LinkingInit
    /\ part # "link" => plugged = CHOOSE h \in Hardware : TRUE

\* Where a part waits, with the others at rest.
InChat ==
    part = "chat" /\ UNCHANGED <<part, linkVars, dialVars, alertVars, vaultVars, objects, linkingVars>>
InLink ==
    part = "link" /\ UNCHANGED <<part, chatVars, dialVars, alertVars, vaultVars, objects, linkingVars>>
InDialer ==
    part = "dialer" /\ UNCHANGED <<part, chatVars, linkVars, alertVars, vaultVars, objects, linkingVars>>
InAlerts ==
    part = "alerts" /\ UNCHANGED <<part, chatVars, linkVars, dialVars, vaultVars, objects, linkingVars>>
InVault ==
    part \in Tables /\ UNCHANGED <<part, chatVars, linkVars, dialVars, alertVars, objects, linkingVars>>
InDrive ==
    part = "drive" /\ UNCHANGED <<part, chatVars, linkVars, dialVars, alertVars, vaultVars, linkingVars>>
InLinking ==
    part = "linking" /\ UNCHANGED <<part, chatVars, linkVars, dialVars, alertVars, vaultVars, objects>>

PartsNext ==
    \/ InChat /\ ChatNext
    \/ InLink /\ LinkNext
    \/ InDialer /\ DialNext
    \/ InAlerts /\ AlertNext
    \/ InVault /\ VaultNext /\ \A t \in Tables \ {part} : rows'[t] = {}
    \/ InDrive /\ DriveNext
    \/ InLinking /\ LinkingNext

(***************************************************************************)
(* Fairness.  A console in a room resends its line, or its JOIN, every     *)
(* fraction of a second, reads what arrives every frame, and the server's  *)
(* one goroutine serves what arrives and refills the meters; of a packet   *)
(* that is sent again and again, one is not lost.  The threads of the link *)
(* and the dialer run, and so do the frame loops that poll them, until     *)
(* they are done.                                                          *)
(***************************************************************************)
PartsSpec ==
    /\ PartsInit /\ [][PartsNext]_partsVars
    /\ WF_chatVars(part = "chat" /\ SayAgain)
    /\ WF_chatVars(part = "chat" /\ ServeSeat)
    /\ WF_chatVars(part = "chat" /\ Refill)
    /\ WF_chatVars(part = "chat" /\ Hears)
    /\ SF_chatVars(part = "chat" /\ ServesHeardSay)
    /\ SF_chatVars(part = "chat" /\ HearsEcho)
    /\ WF_linkVars(part = "link" /\ Worker)
    /\ WF_linkVars(part = "link" /\ LinkPolled)
    /\ WF_linkVars(part = "link" /\ LinkStart)
    /\ WF_dialVars(part = "dialer" /\ Dialer)
    /\ WF_dialVars(part = "dialer" /\ Cube)

\* Joins are told once in a while, starts each time (0); and the limits of
\* the vault are small enough to be met.
MCThrottle == [k \in NewsKinds |-> IF k = "start" THEN 0 ELSE 2]
MCMaxRows == [t \in Tables |-> IF t = "saves" THEN 2 ELSE 1]

\* The clients of the vault are alike, and no fairness and no liveness
\* property is about them, so this loses none of either.
ClientSymmetry == Permutations(Clients)
=============================================================================
