---------------------------- MODULE BackendLife ----------------------------
(***************************************************************************)
(* What mcpmux promises of a configured backend, seen from a client and an *)
(* operator: whether its tools are published and a session serves them.    *)
(* Mux implements it in every detail (Mux!Life), Serve from the            *)
(* configuration on (Serve!Life).                                          *)
(***************************************************************************)
CONSTANT Backends

VARIABLES
    state,   \* a backend as its user sees it: "new", not decided by its first
             \* attempt; "pending", retried in the background; "skipped", given up
             \* for the life of the process; "up", its tools published and a session
             \* open; "down", the session lost
    over,    \* the process has shut down
    browser, \* the backends whose bring-up may open a browser
    retried  \* backends that do not come up are retried, browser ones excepted

vars == <<state, over, browser, retried>>

Init ==
    /\ state = [b \in Backends |-> "new"]
    /\ over = FALSE
    /\ browser \in SUBSET Backends /\ retried \in BOOLEAN

\* The configuration is read before anything is decided.
Configure ==
    /\ \A b \in Backends : state[b] = "new"
    /\ browser' \in SUBSET Backends /\ retried' \in BOOLEAN
    /\ UNCHANGED <<state, over>>

Become(b, s) == state' = [state EXCEPT ![b] = s] /\ UNCHANGED <<over, browser, retried>>

\* Tools are published once, by a backend that is new or pending; its session
\* may already be gone at that moment.
PublishTools(b) ==
    /\ state[b] \in {"new", "pending"}
    /\ Become(b, "up") \/ Become(b, "down")

\* The first attempt failed; one that may open a browser is not made again.
KeepTrying(b) ==
    /\ state[b] = "new"
    /\ retried /\ b \notin browser
    /\ Become(b, "pending")

GiveUp(b) ==
    /\ state[b] = "new"
    /\ ~retried \/ b \in browser
    /\ Become(b, "skipped")

Lose(b) == state[b] = "up" /\ Become(b, "down")

Recover(b) == state[b] = "down" /\ Become(b, "up")

\* The process ends only when every session is closed.
Finish ==
    /\ \A b \in Backends : state[b] # "up"
    /\ over' = TRUE
    /\ UNCHANGED <<state, browser, retried>>

Next ==
    /\ ~over
    /\ \/ \E b \in Backends : PublishTools(b) \/ KeepTrying(b) \/ GiveUp(b) \/ Lose(b) \/ Recover(b)
       \/ Configure
       \/ Finish

Spec == Init /\ [][Next]_vars
=============================================================================
