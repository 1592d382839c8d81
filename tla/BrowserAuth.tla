---------------------------- MODULE BrowserAuth ----------------------------
(***************************************************************************)
(* The browser consents of one process: authMu, the loopback servers that  *)
(* receive the redirect and the channel a flow waits on                    *)
(* (browserAuthorizer, internal/auth/oauth.go:241-388). A flow is one call *)
(* of fetch; its redirect carries its state parameter, so a redirect is    *)
(* named by the flow it belongs to. An answer is a code or an error: both  *)
(* end the flow.                                                           *)
(***************************************************************************)
CONSTANTS
    Flows,        \* calls of fetch
    Authorizers,  \* one browserAuthorizer for each interactive backend
    Assignments,  \* the ways the flows may be calls on the authorizers
    Fixed,        \* the authorizers with a callback_port
    PortOf,       \* their port; two backends may share one
    NoFlow        \* nil

ASSUME AssignmentsAssumption == Assignments \subseteq [Flows -> Authorizers]
ASSUME FixedAssumption == Fixed \subseteq Authorizers
ASSUME NoFlowAssumption == NoFlow \notin Flows

VARIABLES
    of,        \* the authorizer each flow is a call on
    pc,        \* where fetch stands
    ctxDone,   \* the caller's context has ended
    authMu,    \* the flow that holds it
    server,    \* the loopback server of a flow on a fixed port
    stopped,   \* the daemon's context has ended, and the ephemeral servers with it
    waiting,   \* the flow whose channel is in an authorizer's waiting field
    channel,   \* the redirect in a flow's channel
    got,       \* the redirect a flow received
    page,      \* the browser's request for a flow's redirect
    picked     \* the channel its handler found in waiting

flowVars == <<pc, ctxDone, authMu, got>>
pageVars == <<page, picked>>
vars == <<of, flowVars, server, stopped, waiting, channel, pageVars>>

OnFixed(f) == of[f] \in Fixed
Fetching == {"queued", "listen", "install", "open", "opened", "select", "clear", "close", "unlock"}
Holding == Fetching \ {"queued"}  \* of a flow on a fixed port: it has authMu

TypeOK ==
    /\ of \in Assignments
    /\ pc \in [Flows -> {"idle", "returned"} \cup Fetching]
    /\ ctxDone \in [Flows -> BOOLEAN]
    /\ authMu \in Flows \cup {NoFlow}
    /\ server \in [Flows -> {"none", "bound", "serving", "late", "closed"}]
    /\ stopped \in BOOLEAN
    /\ waiting \in [Authorizers -> Flows \cup {NoFlow}]
    /\ {channel, got, picked} \subseteq [Flows -> Flows \cup {NoFlow}]
    /\ page \in [Flows -> {"none", "asked", "picked", "delivered", "dropped"}]
    /\ \A f \in Flows : OnFixed(f) => (authMu = f <=> pc[f] \in Holding)

Init ==
    /\ of \in Assignments
    /\ pc = [f \in Flows |-> "idle"]
    /\ ctxDone = [f \in Flows |-> FALSE]
    /\ authMu = NoFlow
    /\ server = [f \in Flows |-> "none"]
    /\ stopped = FALSE
    /\ waiting = [a \in Authorizers |-> NoFlow]
    /\ channel = [f \in Flows |-> NoFlow]
    /\ got = [f \in Flows |-> NoFlow]
    /\ page = [f \in Flows |-> "none"]
    /\ picked = [f \in Flows |-> NoFlow]

Goto(f, step) == pc' = [pc EXCEPT ![f] = step]

\* The listener of f's server has f's port.
Bound(f) == server[f] \in {"bound", "serving", "late"}
PortTaken(p) == \E f \in Flows : OnFixed(f) /\ PortOf[of[f]] = p /\ Bound(f)

----------------------------------------------------------------------------
(* fetch.                                                                  *)

\* The SDK asks for a code: a connect, an eager consent, a 401 of a tool call.
Fetch(f) ==
    /\ pc[f] = "idle"
    /\ Goto(f, IF OnFixed(f) THEN "queued" ELSE "install")
    /\ UNCHANGED <<of, ctxDone, authMu, got, server, stopped, waiting, channel, pageVars>>

\* authMu.Lock: not bounded by the context.
Lock(f) ==
    /\ pc[f] = "queued"
    /\ authMu = NoFlow
    /\ authMu' = f
    /\ Goto(f, "listen")
    /\ UNCHANGED <<of, ctxDone, got, server, stopped, waiting, channel, pageVars>>

\* The port is bound and the goroutine that serves it is started.
Listen(f) ==
    /\ pc[f] = "listen"
    /\ ~PortTaken(PortOf[of[f]])
    /\ server' = [server EXCEPT ![f] = "bound"]
    /\ Goto(f, "install")
    /\ UNCHANGED <<of, ctxDone, authMu, got, stopped, waiting, channel, pageVars>>

\* Mutant: the error return keeps the lock.
ListenFailsLocked(f) ==
    /\ pc[f] = "listen"
    /\ Goto(f, "returned")
    /\ UNCHANGED <<of, ctxDone, authMu, got, server, stopped, waiting, channel, pageVars>>

\* The port is in use, by this process or by another one.
ListenFails(f) ==
    /\ pc[f] = "listen"
    /\ authMu' = NoFlow
    /\ Goto(f, "returned")
    /\ UNCHANGED <<of, ctxDone, got, server, stopped, waiting, channel, pageVars>>

Install(f) ==
    /\ pc[f] = "install"
    /\ waiting' = [waiting EXCEPT ![of[f]] = f]
    /\ Goto(f, "open")
    /\ UNCHANGED <<of, ctxDone, authMu, got, server, stopped, channel, pageVars>>

\* The URL is logged and, perhaps, opened; from now on the user may answer.
OpenURL(f) ==
    /\ pc[f] = "open"
    /\ page' = [page EXCEPT ![f] = "asked"]
    /\ Goto(f, "opened")
    /\ UNCHANGED <<of, ctxDone, authMu, got, server, stopped, waiting, channel, picked>>

\* The browser is started; await reaches its select.
Opened(f) ==
    /\ pc[f] = "opened"
    /\ Goto(f, "select")
    /\ UNCHANGED <<of, ctxDone, authMu, got, server, stopped, waiting, channel, pageVars>>

Receive(f) ==
    /\ pc[f] = "select"
    /\ channel[f] # NoFlow
    /\ got' = [got EXCEPT ![f] = channel[f]]
    /\ channel' = [channel EXCEPT ![f] = NoFlow]
    /\ Goto(f, "clear")
    /\ UNCHANGED <<of, ctxDone, authMu, server, stopped, waiting, pageVars>>

\* Mutant: a flow that is given up leaves its channel in place.
GiveUpInstalled(f) ==
    /\ pc[f] = "select"
    /\ ctxDone[f]
    /\ Goto(f, IF OnFixed(f) THEN "close" ELSE "returned")
    /\ UNCHANGED <<of, ctxDone, authMu, got, server, stopped, waiting, channel, pageVars>>

GiveUp(f) ==
    /\ pc[f] = "select"
    /\ ctxDone[f]
    /\ Goto(f, "clear")
    /\ UNCHANGED <<of, ctxDone, authMu, got, server, stopped, waiting, channel, pageVars>>

\* await's deferred reset, whoever's channel is installed by now.
Clear(f) ==
    /\ pc[f] = "clear"
    /\ waiting' = [waiting EXCEPT ![of[f]] = NoFlow]
    /\ Goto(f, IF OnFixed(f) THEN "close" ELSE "returned")
    /\ UNCHANGED <<of, ctxDone, authMu, got, server, stopped, channel, pageVars>>

\* Mutant: the deferred calls in the other order.
CloseServerUnlocked(f) ==
    /\ pc[f] = "close"
    /\ authMu' = NoFlow
    /\ Goto(f, "returned")
    /\ UNCHANGED <<of, ctxDone, got, server, stopped, waiting, channel, pageVars>>

\* srv.Close closes the listener, provided that Serve has got to know it.
CloseServer(f) ==
    /\ pc[f] = "close"
    /\ server' = [server EXCEPT ![f] = IF @ = "serving" THEN "closed" ELSE "late"]
    /\ Goto(f, "unlock")
    /\ UNCHANGED <<of, ctxDone, authMu, got, stopped, waiting, channel, pageVars>>

Unlock(f) ==
    /\ pc[f] = "unlock"
    /\ authMu' = NoFlow
    /\ Goto(f, "returned")
    /\ UNCHANGED <<of, ctxDone, got, server, stopped, waiting, channel, pageVars>>

----------------------------------------------------------------------------
(* The loopback servers and the browser.                                   *)

\* The goroutine of serveCallback runs: Serve takes over the listener, or closes
\* it because the server is closed already.
ServeCallback(f) ==
    /\ server[f] \in {"bound", "late"}
    /\ server' = [server EXCEPT ![f] = IF @ = "bound" THEN "serving" ELSE "closed"]
    /\ UNCHANGED <<of, flowVars, stopped, waiting, channel, pageVars>>

\* Mutant: one /callback handler for all authorizers.
AnsweringShared(g) == Authorizers

\* The authorizers whose server answers on the redirect address of g.
Answering(g) ==
    IF OnFixed(g)
    THEN LET serving == {f \in Flows : OnFixed(f) /\ server[f] = "serving"}
         IN  {of[f] : f \in {h \in serving : PortOf[of[h]] = PortOf[of[g]]}}
    ELSE IF stopped THEN {} ELSE {of[g]}

\* The user answers, and handleCallback reads waiting under a.mu ...
Redirect(g) ==
    /\ page[g] = "asked"
    /\ \E a \in Answering(g) :
         picked' = [picked EXCEPT ![g] = waiting[a]]
    /\ page' = [page EXCEPT ![g] = "picked"]
    /\ UNCHANGED <<of, flowVars, server, stopped, waiting, channel>>

\* The user answers and nothing listens on the address.
Refused(g) ==
    /\ page[g] = "asked"
    /\ IF OnFixed(g) THEN ~PortTaken(PortOf[of[g]]) ELSE stopped
    /\ page' = [page EXCEPT ![g] = "dropped"]
    /\ UNCHANGED <<of, flowVars, server, stopped, waiting, channel, picked>>

\* Mutant: a channel without a buffer.
DeliverUnbuffered(g) ==
    /\ page[g] = "picked"
    /\ IF picked[g] # NoFlow /\ channel[picked[g]] = NoFlow /\ pc[picked[g]] = "select"
       THEN /\ channel' = [channel EXCEPT ![picked[g]] = g]
            /\ page' = [page EXCEPT ![g] = "delivered"]
       ELSE page' = [page EXCEPT ![g] = "dropped"] /\ UNCHANGED channel
    /\ UNCHANGED <<of, flowVars, server, stopped, waiting, picked>>

\* ... and sends to it without waiting, once it has let go of a.mu.
Deliver(g) ==
    /\ page[g] = "picked"
    /\ IF picked[g] # NoFlow /\ channel[picked[g]] = NoFlow
       THEN /\ channel' = [channel EXCEPT ![picked[g]] = g]
            /\ page' = [page EXCEPT ![g] = "delivered"]
       ELSE page' = [page EXCEPT ![g] = "dropped"] /\ UNCHANGED channel
    /\ UNCHANGED <<of, flowVars, server, stopped, waiting, picked>>

\* The attempt times out, the client cancels its call, the daemon stops.
Cancel(f) ==
    /\ pc[f] \in Fetching /\ ~ctxDone[f]
    /\ ctxDone' = [ctxDone EXCEPT ![f] = TRUE]
    /\ UNCHANGED <<of, pc, authMu, got, server, stopped, waiting, channel, pageVars>>

Stop ==
    /\ ~stopped
    /\ stopped' = TRUE
    /\ UNCHANGED <<of, flowVars, server, waiting, channel, pageVars>>

Finished == (\A f \in Flows : pc[f] = "returned") /\ UNCHANGED vars

----------------------------------------------------------------------------

\* What fetch and its servers do by themselves.
Proceed(f) ==
    \/ Lock(f)
    \/ Listen(f) \/ ListenFails(f)
    \/ Install(f)
    \/ OpenURL(f) \/ Opened(f)
    \/ Receive(f) \/ GiveUp(f)
    \/ Clear(f)
    \/ CloseServer(f)
    \/ Unlock(f)

Next ==
    \/ \E f \in Flows :
         \/ Fetch(f)
         \/ Proceed(f)
         \/ ServeCallback(f)
         \/ Redirect(f)
         \/ Refused(f)
         \/ Deliver(f)
         \/ Cancel(f)
    \/ Stop
    \/ Finished

\* Goroutines run; a flow takes authMu once, so nobody can be overtaken forever.
\* No answer of the user and no end of a context is taken for granted.
Spec ==
    /\ Init /\ [][Next]_vars
    /\ \A f \in Flows :
         /\ WF_vars(Lock(f))
         /\ WF_vars(Listen(f) \/ ListenFails(f))
         /\ WF_vars(Install(f))
         /\ WF_vars(OpenURL(f))
         /\ WF_vars(Opened(f))
         /\ WF_vars(Receive(f) \/ GiveUp(f))
         /\ WF_vars(Clear(f))
         /\ WF_vars(CloseServer(f))
         /\ WF_vars(Unlock(f))
         /\ WF_vars(ServeCallback(f))
         /\ WF_vars(Deliver(f))

----------------------------------------------------------------------------
(* Properties.                                                             *)

Asking(f) == pc[f] \in {"opened", "select"}

\* Two backends with a callback_port never ask the user at the same time, so
\* that a redirect on a shared port belongs to the flow that is being served
\* (authMu, oauth.go:241-247).
OneConsent == \A f, g \in Flows : OnFixed(f) /\ OnFixed(g) /\ Asking(f) /\ Asking(g) => f = g

\* Whoever gets authMu next finds the port free (fetch, oauth.go:333-336); only
\* the listener of a flow that gave up before its server goroutine ran may
\* still be there.
PortReleased ==
    authMu = NoFlow => \A f \in Flows : OnFixed(f) => server[f] \notin {"bound", "serving"}

\* waiting is non-nil only while a flow is in progress (oauth.go:260), however
\* flows of one authorizer overlap: a late redirect is told so.
WaitingOnlyInFlow ==
    \A a \in Authorizers : waiting[a] # NoFlow
        => \E f \in Flows : of[f] = a /\ pc[f] \in {"open", "opened", "select", "clear"}

\* A redirect of g on the port of f comes too late: g has returned.
LateOnPortOf(f, g) ==
    /\ g # f /\ pc[g] = "returned" /\ page[g] = "delivered"
    /\ OnFixed(g) /\ PortOf[of[g]] = PortOf[of[f]]

\* While a flow on a fixed port asks, its user's answer goes to that flow and stays
\* there: the handler that took it found the flow's own channel (a flow of another
\* backend with the same port, or an earlier one of the same backend, left neither a
\* server nor a channel behind), and once the handler is done the channel holds the
\* answer. It is lost in one case only: the late redirect of a consent that is over,
\* on the same port, has come before it and fills the channel (oauth.go:305-320, 358).
AnswerKept ==
    \A f \in Flows : OnFixed(f) /\ Asking(f) =>
        /\ page[f] = "picked" => picked[f] = f
        /\ page[f] = "delivered" => channel[f] = f
        /\ page[f] = "dropped" => \E g \in Flows : channel[f] = g /\ LateOnPortOf(f, g)

\* Where the redirect of f arrives.
Address(f) ==
    [fixed |-> OnFixed(f), at |-> IF OnFixed(f) THEN PortOf[of[f]] ELSE of[f]]

Due == {"queued", "listen", "install", "open"}
Promise == INSTANCE Consent WITH
    Addresses <- Authorizers \cup {PortOf[a] : a \in Fixed},
    site <- [f \in Flows |-> Address(f)],
    stage <- [f \in Flows |-> IF Asking(f) THEN "asking"
                              ELSE IF pc[f] \in Due THEN "due"
                              ELSE IF pc[f] = "idle" THEN "idle" ELSE "over"],
    asked <- {f \in Flows : page[f] # "none"},
    answer <- got

\* BrowserAuth implements Consent: whichever channel waiting holds by the time a
\* redirect comes, and however late it is delivered, what ends a flow was asked for
\* at the address of that flow, and on fixed ports one flow at a time asks
\* (handleCallback, oauth.go:305-320; fetch, oauth.go:337-352; await,
\* oauth.go:357-388).
ImplementsConsent == Promise!Spec

\* The user's answer ends the flow on a fixed port that asked for it, even when
\* it comes before await has reached its select (the buffered channel,
\* oauth.go:358), unless the flow's context ends. What ends it may be the late
\* redirect that AnswerKept names: its code is then refused by the SDK's state check,
\* and the flow is over all the same.
AnswerCounts ==
    \A f \in Flows :
        (OnFixed(f) /\ page[f] = "picked" /\ pc[f] \in Fetching) ~> (got[f] # NoFlow \/ ctxDone[f])

\* A consent that is waiting for its user holds up the others.
HeldUp == authMu # NoFlow /\ pc[authMu] = "select" /\ ~ctxDone[authMu]

\* A cancelled flow returns, or is held up by another flow that waits for its
\* user: no error path keeps authMu, no failed listener blocks the queue.
CancelledReturnsOrHeldUp ==
    \A f \in Flows : (pc[f] \in Fetching /\ ctxDone[f]) ~> (pc[f] = "returned" \/ HeldUp)
=============================================================================
