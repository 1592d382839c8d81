----------------------------- MODULE HTTPServe -----------------------------
(***************************************************************************)
(* Serving clients over HTTP and shutting that down: ServeHTTPListener     *)
(* (internal/mux/mux.go:468-504), its watcher goroutine, net/http's Server *)
(* as the code uses it, and the main goroutine that closes the Mux and     *)
(* exits once ServeHTTPListener has returned (cmd/serve.go:40-44,87-92).   *)
(***************************************************************************)
CONSTANT Requests  \* the requests clients send; an SSE stream is a long one

VARIABLES
    ctxDone,   \* SIGINT or SIGTERM
    serve,     \* srv.Serve in the main goroutine: "accepting", "closed", "failed"
    shut,      \* srv.Shutdown has closed the listener
    watcher,   \* the goroutine: "select", "draining", "gone"
    expired,   \* the grace period of five seconds is over
    request,   \* each request: "none", "active", "answered", "cut"
    process    \* "serving", "closing" (the deferred m.Close), "exited"

vars == <<ctxDone, serve, shut, watcher, expired, request, process>>

TypeOK ==
    /\ ctxDone \in BOOLEAN
    /\ serve \in {"accepting", "closed", "failed"}
    /\ shut \in BOOLEAN
    /\ watcher \in {"select", "draining", "gone"}
    /\ expired \in BOOLEAN
    /\ request \in [Requests -> {"none", "active", "answered", "cut"}]
    /\ process \in {"serving", "closing", "exited"}
    /\ process # "serving" => serve # "accepting"
    /\ watcher = "draining" => shut

Init ==
    /\ ctxDone = FALSE
    /\ serve = "accepting"
    /\ shut = FALSE
    /\ watcher = "select"
    /\ expired = FALSE
    /\ request = [r \in Requests |-> "none"]
    /\ process = "serving"

Active == {r \in Requests : request[r] = "active"}

\* Every connection still open is closed under its request.
CutActive == request' = [r \in Requests |-> IF r \in Active THEN "cut" ELSE request[r]]

\* serveDone is closed as ServeHTTPListener returns.
ServeDone == serve # "accepting"

----------------------------------------------------------------------------
(* Clients and signals. *)

Accept(r) ==
    /\ serve = "accepting" /\ ~shut
    /\ request[r] = "none"
    /\ request' = [request EXCEPT ![r] = "active"]
    /\ UNCHANGED <<ctxDone, serve, shut, watcher, expired, process>>

\* Handlers keep running until the process ends.
Answer(r) ==
    /\ process # "exited"
    /\ request[r] = "active"
    /\ request' = [request EXCEPT ![r] = "answered"]
    /\ UNCHANGED <<ctxDone, serve, shut, watcher, expired, process>>

Cancel ==
    /\ process # "exited" /\ ~ctxDone
    /\ ctxDone' = TRUE
    /\ UNCHANGED <<serve, shut, watcher, expired, request, process>>

----------------------------------------------------------------------------
(* The watcher goroutine. *)

\* Mutant: the drain leaves the listener open.
WatcherWaits ==
    /\ watcher = "select" /\ process # "exited"
    /\ ctxDone
    /\ watcher' = "draining"
    /\ UNCHANGED <<ctxDone, serve, shut, expired, request, process>>

\* Shutdown closes the listener first, then waits for the open connections.
WatcherShutdown ==
    /\ watcher = "select" /\ process # "exited"
    /\ ctxDone
    /\ shut' = TRUE
    /\ watcher' = "draining"
    /\ UNCHANGED <<ctxDone, serve, expired, request, process>>

\* Mutant: serveDone only counts once the context is cancelled.
WatcherServeDoneLate ==
    /\ watcher = "select" /\ process # "exited"
    /\ ServeDone /\ ctxDone
    /\ watcher' = "gone"
    /\ UNCHANGED <<ctxDone, serve, shut, expired, request, process>>

\* Serve has returned by itself.
WatcherServeDone ==
    /\ watcher = "select" /\ process # "exited"
    /\ ServeDone
    /\ watcher' = "gone"
    /\ UNCHANGED <<ctxDone, serve, shut, expired, request, process>>

Drained ==
    /\ watcher = "draining" /\ process # "exited"
    /\ Active = {}
    /\ watcher' = "gone"
    /\ UNCHANGED <<ctxDone, serve, shut, expired, request, process>>

\* Mutant: a drain that timed out is not followed by srv.Close.
GraceExpiresLeaves ==
    /\ watcher = "draining" /\ process # "exited"
    /\ expired' = TRUE
    /\ watcher' = "gone"
    /\ UNCHANGED <<ctxDone, serve, shut, request, process>>

\* Shutdown gives up and srv.Close closes what is left.
GraceExpires ==
    /\ watcher = "draining" /\ process # "exited"
    /\ expired' = TRUE
    /\ CutActive
    /\ watcher' = "gone"
    /\ UNCHANGED <<ctxDone, serve, shut, process>>

----------------------------------------------------------------------------
(* The main goroutine. *)

\* http.ErrServerClosed, as soon as Shutdown has begun; not an error here.
ServeCloses ==
    /\ serve = "accepting"
    /\ shut
    /\ serve' = "closed"
    /\ UNCHANGED <<ctxDone, shut, watcher, expired, request, process>>

\* The listener fails.
ServeFails ==
    /\ serve = "accepting" /\ ~shut
    /\ serve' = "failed"
    /\ UNCHANGED <<ctxDone, shut, watcher, expired, request, process>>

\* Mutant: RunE does not wait for Serve.
CloseMuxEarly ==
    /\ process = "serving"
    /\ ctxDone
    /\ process' = "closing"
    /\ UNCHANGED <<ctxDone, serve, shut, watcher, expired, request>>

\* RunE returns and its deferred calls run.
CloseMux ==
    /\ process = "serving"
    /\ ServeDone
    /\ process' = "closing"
    /\ UNCHANGED <<ctxDone, serve, shut, watcher, expired, request>>

\* The process ends, with every request still in it.
Exit ==
    /\ process = "closing"
    /\ process' = "exited"
    /\ CutActive
    /\ UNCHANGED <<ctxDone, serve, shut, watcher, expired>>

Terminated == process = "exited" /\ UNCHANGED vars

Next ==
    \/ \E r \in Requests : Accept(r) \/ Answer(r)
    \/ Cancel
    \/ WatcherShutdown
    \/ WatcherServeDone
    \/ Drained
    \/ GraceExpires
    \/ ServeCloses
    \/ ServeFails
    \/ CloseMux
    \/ Exit
    \/ Terminated

\* Goroutines run and timers fire; m.Close may take any time (see Mux), so Exit
\* is not fair.
Spec ==
    /\ Init /\ [][Next]_vars
    /\ WF_vars(WatcherShutdown)
    /\ WF_vars(WatcherServeDone)
    /\ WF_vars(Drained)
    /\ WF_vars(GraceExpires)
    /\ WF_vars(ServeCloses)
    /\ WF_vars(CloseMux)

----------------------------------------------------------------------------
(* Properties. *)

\* ServeHTTPListener returns once its context is cancelled, whatever the clients
\* keep open (mux.go:471).
ReturnsOnCancel == ctxDone ~> ServeDone

\* The watcher ends in either way ServeHTTPListener can return: it is not leaked
\* when Serve fails before any signal (mux.go:483-484).
WatcherExits == ServeDone ~> (watcher = "gone" \/ process = "exited")

\* A request never outlives the grace period: when the watcher has gone after a
\* drain, no connection is left (mux.go:481,492-494). And none is cut before that
\* period is over, unless by the end of the process.
NoneLeftAfterDrain ==
    /\ shut /\ watcher = "gone" => Active = {}
    /\ \A r \in Requests : request[r] = "cut" => expired \/ process = "exited"

\* mux.go:481: on shutdown, requests in flight are drained with a bounded grace
\* period; none is cut before that period is over.
DrainedBeforeExit ==
    serve = "closed" /\ ~expired => \A r \in Requests : request[r] # "cut"
=============================================================================
