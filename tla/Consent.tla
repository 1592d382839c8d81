------------------------------ MODULE Consent ------------------------------
(***************************************************************************)
(* What the browser consents of one process come to for their users, with  *)
(* no lock, server, channel or goroutine in sight: on fixed ports one flow *)
(* at a time asks, and what ends a flow is a redirect that belongs to its  *)
(* own address and was asked for, or the flow's own failure. BrowserAuth   *)
(* implements it (BrowserAuth!Promise).                                    *)
(***************************************************************************)
CONSTANTS
    Flows,
    Addresses,
    NoFlow

VARIABLES
    site,    \* where a flow's redirect arrives: an address, fixed or ephemeral
    stage,   \* "idle", "due", "asking" its user, "over"
    asked,   \* the flows whose URL the user has been given
    answer   \* the flow whose redirect ended a flow; NoFlow for none

vars == <<site, stage, asked, answer>>

Init ==
    /\ site \in [Flows -> [fixed : BOOLEAN, at : Addresses]]
    /\ stage = [f \in Flows |-> "idle"]
    /\ asked = {}
    /\ answer = [f \in Flows |-> NoFlow]

Enter(f, s) == stage' = [stage EXCEPT ![f] = s] /\ UNCHANGED site

Begin(f) == stage[f] = "idle" /\ Enter(f, "due") /\ UNCHANGED <<asked, answer>>

\* On a fixed port, nobody else on one is asking.
Ask(f) ==
    /\ stage[f] = "due"
    /\ site[f].fixed => \A g \in Flows : site[g].fixed => stage[g] # "asking"
    /\ Enter(f, "asking")
    /\ asked' = asked \cup {f}
    /\ UNCHANGED answer

\* The redirect may be a late one, of a flow before: the state parameter tells.
Settle(f) ==
    /\ stage[f] = "asking"
    /\ \E g \in asked : site[g] = site[f] /\ answer' = [answer EXCEPT ![f] = g]
    /\ Enter(f, "over")
    /\ UNCHANGED asked

Abandon(f) == stage[f] \in {"due", "asking"} /\ Enter(f, "over") /\ UNCHANGED <<asked, answer>>

Next == \E f \in Flows : Begin(f) \/ Ask(f) \/ Settle(f) \/ Abandon(f)

Spec == Init /\ [][Next]_vars
=============================================================================
