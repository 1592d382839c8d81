----------------------------- MODULE MCBackoff -----------------------------
(* Backoff with the proportions of the code's constants in a few ticks. *)
EXTENDS Backoff

\* A ceiling above and one below the first wait, a helper that outlasts the limit of
\* its round trip, and a backend without connect_retry, whose round trips have none.
MCPolicies ==
    {[ceiling |-> 12, timeout |-> 2, overrun |-> 0],
     [ceiling |-> 2, timeout |-> 2, overrun |-> 3],
     [ceiling |-> 1, timeout |-> 0, overrun |-> 0]}
=============================================================================
