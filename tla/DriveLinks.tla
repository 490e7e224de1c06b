----------------------------- MODULE DriveLinks -----------------------------
(***************************************************************************)
(* Linking consoles to a Dreambox (dcvmu.com/service/dreambox.py): a       *)
(* console shows a code and asks again and again whether its user has      *)
(* typed it on the website; the claim that finds it typed turns the        *)
(* pairing into a link, whose token is the console's from then on.         *)
(*                                                                         *)
(* A claim reads the pairing and writes in a transaction of its own, so it *)
(* is two steps, and a console that hears no answer claims again.  A       *)
(* pairing stands for its device secret and its code.                      *)
(***************************************************************************)
EXTENDS Naturals, Sequences

CONSTANTS
    Claimants,         \* claims that may be under way together
    MaxPairings     \* bound on the pairings begun

ASSUME LinksAssumption == MaxPairings \in Nat

VARIABLES
    pairings,   \* records: n, user (whether the code was typed), expired
    claim,      \* Claimants -> the pairing it has found typed, or 0
    links,      \* records: n, and the claim that made the link
    made,       \* the pairings of all the links ever made, in order, and
    typed,      \* the pairings whose code was typed; for the properties
    begun       \* pairings begun

linkingVars == <<pairings, claim, links, made, typed, begun>>

LinkingInit ==
    /\ pairings = {} /\ links = {} /\ made = <<>> /\ typed = {} /\ begun = 0
    /\ claim = [c \in Claimants |-> 0]

\* drive_pair, which clears away what has expired.
Pair ==
    /\ begun < MaxPairings /\ begun' = begun + 1
    /\ pairings' = {p \in pairings : ~p.expired}
                    \cup {[n |-> begun', user |-> FALSE, expired |-> FALSE]}
    /\ UNCHANGED <<claim, links, made, typed>>

\* archicast_link.
TypeCode ==
    /\ \E p \in pairings :
        /\ ~p.user /\ ~p.expired
        /\ pairings' = (pairings \ {p}) \cup {[p EXCEPT !.user = TRUE]}
        /\ typed' = typed \cup {p.n}
    /\ UNCHANGED <<claim, links, made, begun>>

\* drive_claim finds a user ...
ReadsPairing(c) ==
    /\ claim[c] = 0
    /\ \E p \in pairings : p.user /\ ~p.expired /\ claim' = [claim EXCEPT ![c] = p.n]
    /\ UNCHANGED <<pairings, links, made, typed, begun>>

IsUnlinked(c) == \A l \in links : l.n # claim[c]  \* mutant: not the DELETE, only the links are looked at

IsFirst(c) == \E p \in pairings : p.n = claim[c]

\* ... and takes the pairing away, unless another has.
TakesPairing(c) ==
    /\ claim[c] # 0
    /\ claim' = [claim EXCEPT ![c] = 0]
    /\ pairings' = {p \in pairings : p.n # claim[c]}
    /\ \/ /\ IsFirst(c)
          /\ links' = links \cup {[n |-> claim[c], by |-> c]}
          /\ made' = Append(made, claim[c])
       \/ ~IsFirst(c) /\ UNCHANGED <<links, made>>
    /\ UNCHANGED <<typed, begun>>

\* archicast_unlink, and a year without use.
Unlink ==
    /\ \E l \in links : links' = links \ {l}
    /\ UNCHANGED <<pairings, claim, made, typed, begun>>

QuarterOfAnHour ==
    /\ \E p \in pairings : ~p.expired /\ pairings' = (pairings \ {p}) \cup {[p EXCEPT !.expired = TRUE]}
    /\ UNCHANGED <<claim, links, made, typed, begun>>

LinkingNext ==
    \/ Pair \/ TypeCode \/ Unlink \/ QuarterOfAnHour
    \/ \E c \in Claimants : ReadsPairing(c) \/ TakesPairing(c)

LinkingSpec == LinkingInit /\ [][LinkingNext]_linkingVars

-----------------------------------------------------------------------------
(* What a user may count on.                                               *)

\* A code makes one link ever, and only once its user has typed it: however
\* many claims of its console are under way, a link that was undone is not made
\* again by a claim that found the code before.
OneLinkACode ==
    /\ \A i, j \in 1 .. Len(made) : made[i] = made[j] => i = j
    /\ \A i \in 1 .. Len(made) : made[i] \in typed
=============================================================================
