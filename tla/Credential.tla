----------------------------- MODULE Credential -----------------------------
(***************************************************************************)
(* What a helper command's token promises the requests of a backend, with  *)
(* no mutex, clock or cache in sight: one run of the helper at a time, the *)
(* newest token for everybody, and for a request that was rejected, once,  *)
(* a token that was minted after the rejection. ExecToken implements it    *)
(* (ExecToken!Promise).                                                    *)
(***************************************************************************)
EXTENDS Naturals

CONSTANT Callers

VARIABLES
    begun,    \* runs of the helper so far
    running,  \* the newest of them has not ended
    current,  \* the token that is handed out, named by its run; 0 for none
    stage,    \* of each request: "idle", "waiting" for a token, "sent"
    uses,     \* the token it was sent with
    beyond    \* for a request that is to be sent again: the runs that do not count

vars == <<begun, running, current, stage, uses, beyond>>

Init ==
    /\ begun = 0 /\ running = FALSE /\ current = 0
    /\ stage = [c \in Callers |-> "idle"]
    /\ uses = [c \in Callers |-> 0]
    /\ beyond = [c \in Callers |-> 0]

Enter(c, s) == stage' = [stage EXCEPT ![c] = s]

Ask(c) ==
    /\ stage[c] = "idle"
    /\ Enter(c, "waiting")
    /\ UNCHANGED <<begun, running, current, uses, beyond>>

\* The helper is run for somebody who waits.
Run ==
    /\ ~running
    /\ \E c \in Callers : stage[c] = "waiting"
    /\ begun' = begun + 1 /\ running' = TRUE
    /\ UNCHANGED <<current, stage, uses, beyond>>

\* A token is sent only if it is the newest there is, and new enough for c.
SendWith(c, token) ==
    /\ stage[c] = "waiting"
    /\ token > beyond[c]
    /\ Enter(c, "sent")
    /\ uses' = [uses EXCEPT ![c] = token]
    /\ UNCHANGED <<begun, beyond>>

Send(c) == SendWith(c, current) /\ UNCHANGED <<running, current>>

\* The run ends with a token, which is at once in use or kept for later.
Mint ==
    /\ running /\ running' = FALSE
    /\ current' = begun
    /\ \/ \E c \in Callers : SendWith(c, begun)
       \/ UNCHANGED <<begun, stage, uses, beyond>>

Leave(c) ==
    /\ Enter(c, "idle")
    /\ uses' = [uses EXCEPT ![c] = 0]
    /\ beyond' = [beyond EXCEPT ![c] = 0]

\* The run ends without one, and the request it was for has failed.
Fail(c) ==
    /\ running /\ running' = FALSE
    /\ stage[c] = "waiting"
    /\ Leave(c)
    /\ UNCHANGED <<begun, current>>

Answer(c) == stage[c] = "sent" /\ Leave(c) /\ UNCHANGED <<begun, running, current>>

\* No run that has begun by now counts for the request any more.
Reject(c) ==
    /\ stage[c] = "sent" /\ beyond[c] = 0
    /\ Enter(c, "waiting")
    /\ uses' = [uses EXCEPT ![c] = 0]
    /\ beyond' = [beyond EXCEPT ![c] = begun]
    /\ UNCHANGED <<begun, running, current>>

\* A token is given up, but never while another one is being minted.
Discard ==
    /\ ~running
    /\ current' = 0
    /\ UNCHANGED <<begun, running, stage, uses, beyond>>

Next ==
    \/ Run \/ Mint \/ Discard
    \/ \E c \in Callers : Ask(c) \/ Send(c) \/ Fail(c) \/ Answer(c) \/ Reject(c)

Spec == Init /\ [][Next]_vars
=============================================================================
