-------------------------------- MODULE Mux --------------------------------
(***************************************************************************)
(* The life of every backend of one mcpmux process, and the life of the    *)
(* process that owns them (internal/mux/mux.go, reconnect.go, backend.go,  *)
(* dialer.go; cmd/serve.go, list.go, signal_unix.go).                      *)
(*                                                                         *)
(* Actors: main (the command's RunE), the synchronous connector (main) and *)
(* the background one (ConnectInBackground), one run goroutine for each    *)
(* backend of m.backends, the SIGUSR1 watcher, and the environment: the    *)
(* upstream servers, the operator's signals, the end of a session.         *)
(* pc[b] is where the goroutine that owns b stands: a connector until b is *)
(* in "backends" (m.backends), b's run goroutine from then on.             *)
(***************************************************************************)
EXTENDS Naturals, FiniteSets

CONSTANTS
    Backends,      \* the configured backends
    Kind,          \* Kind[b]: "command" (subprocess), "http", "exec" (http with
                   \* a credential helper) or "oauth" (http with a consent)
    SessionIds,    \* names for the client sessions of a backend
    NoSession,     \* the nil *mcp.ClientSession
    Modes          \* the ways the process may be started

\* daemon: "mcpmux serve", otherwise "mcpmux list" (mux.New); retry: opts.Retry
\* is not nil; eager: opts.Eager.
Mode == [daemon : BOOLEAN, retry : BOOLEAN, eager : BOOLEAN]

ASSUME KindAssumption == Kind \in [Backends -> {"command", "http", "exec", "oauth"}]
ASSUME SessionAssumption == NoSession \notin SessionIds
ASSUME ModesAssumption == Modes \subseteq {m \in Mode : m.retry => m.daemon}

VARIABLES
    mode,      \* how this process was started: configuration and command line
    main,      \* where RunE and, in it, Close stand
    bg,        \* the goroutine of ConnectInBackground (wg)
    ctxDone,   \* the caller's context is cancelled (SIGINT, SIGTERM)
    closing,   \* m.closing, set with closeCancel
    toClose,   \* backends Close's loop has still to look at
    sigusr1,   \* a SIGUSR1 is in the watcher's channel
    pc,        \* where the owner of a backend stands
    backends,  \* m.backends
    registered,\* b.registered
    kick,      \* b.kick holds a token
    cur,       \* b.session
    fresh,     \* reconnect's local session, not yet stored
    alive,     \* the sessions of b that are open
    parent     \* the context b's newest session was dialled with

mainVars == <<main, bg, ctxDone, closing, toClose>>
catalogVars == <<backends, registered>>
sessionVars == <<cur, fresh, alive, parent>>
vars == <<mode, mainVars, sigusr1, pc, catalogVars, kick, sessionVars>>

MainStates == {"connect", "serve", "close", "wgwait", "sessions", "svgwait", "closed"}
UnrecordedSteps == {"config", "open", "eager", "list", "publish", "add", "skipped"}
RunSteps == {"open", "eager", "list", "publish", "backoff", "lostrace",
             "supervise", "redial", "redialed", "store", "rewait", "exited"}
Steps == UnrecordedSteps \cup RunSteps

TypeOK ==
    /\ mode \in Modes
    /\ main \in MainStates
    /\ bg \in {"idle", "running", "done"}
    /\ {ctxDone, closing, sigusr1} \subseteq BOOLEAN
    /\ toClose \subseteq Backends
    /\ pc \in [Backends -> Steps]
    /\ backends \subseteq Backends
    /\ \A b \in Backends : pc[b] \in IF b \in backends THEN RunSteps ELSE UnrecordedSteps
    /\ registered \in [Backends -> BOOLEAN]
    /\ kick \in [Backends -> BOOLEAN]
    /\ cur \in [Backends -> SessionIds \cup {NoSession}]
    /\ fresh \in [Backends -> SessionIds \cup {NoSession}]
    /\ alive \in [Backends -> SUBSET SessionIds]
    /\ parent \in [Backends -> {"caller", "run"}]

Init ==
    /\ mode \in Modes
    /\ main = "connect" /\ bg = "idle"
    /\ ctxDone = FALSE /\ closing = FALSE /\ sigusr1 = FALSE
    /\ toClose = {}
    /\ pc = [b \in Backends |-> "config"]
    /\ backends = {}
    /\ registered = [b \in Backends |-> FALSE]
    /\ kick = [b \in Backends |-> FALSE]
    /\ cur = [b \in Backends |-> NoSession]
    /\ fresh = [b \in Backends |-> NoSession]
    /\ alive = [b \in Backends |-> {}]
    /\ parent = [b \in Backends |-> "caller"]

----------------------------------------------------------------------------
(* What the code reads.                                                    *)

Interactive(b) == Kind[b] = "oauth"

\* serve partitions the backends; mux.New connects all of them in one go.
Sync(b) == ~mode.daemon \/ ~Interactive(b)

\* The connector is done with b: it is in m.backends or skipped.
Decided(b) == b \in backends \/ pc[b] = "skipped"

\* b is being brought up, by a connector or by its run goroutine.
BringingUp(b) == pc[b] \in {"open", "eager", "list", "publish"}

\* run's context: cancelled with the caller's and by Close.
RunCtxDone == ctxDone \/ closing

\* The context an attempt for b is made under.
AttemptCtxDone(b) == ctxDone \/ (b \in backends /\ closing)

\* The process has not ended.
Running == main # "closed"

\* m.mu is held by Close while it walks m.backends.
MuFree == main # "sessions"

\* Mutant: a failed first attempt is always final.
RetryNoone(b) == IF b \in backends THEN "backoff" ELSE "skipped"

\* Where an owner goes when bringUp fails: the retry loop sleeps; connectOne
\* skips the backend or keeps it for the retry loop.
AfterFailure(b) ==
    IF b \in backends THEN "backoff"
    ELSE IF ~mode.retry \/ Interactive(b) THEN "skipped" ELSE "add"

CloseCur(b) == alive' = [alive EXCEPT ![b] = @ \ {cur[b]}]

Goto(b, step) == pc' = [pc EXCEPT ![b] = step]

----------------------------------------------------------------------------
(* bringUp, run by a connector for a backend it has not decided on, and by *)
(* awaitFirstConnect.                                                      *)

\* Connect takes up its next backend; each connector has one in hand.
Start(b) ==
    /\ pc[b] = "config"
    /\ IF Sync(b) THEN main = "connect" ELSE bg = "running"
    /\ \A c \in Backends : Sync(c) = Sync(b) => pc[c] = "config" \/ Decided(c)
    /\ Goto(b, "open")
    /\ UNCHANGED <<mode, mainVars, sigusr1, catalogVars, kick, sessionVars>>

\* open: the handshake succeeds and the session is stored.
OpenOK(b) ==
    /\ pc[b] = "open"
    /\ \E s \in SessionIds \ alive[b] :
         /\ cur' = [cur EXCEPT ![b] = s]
         /\ alive' = [alive EXCEPT ![b] = @ \cup {s}]
    /\ parent' = [parent EXCEPT ![b] = IF b \in backends THEN "run" ELSE "caller"]
    /\ Goto(b, IF mode.eager /\ Interactive(b) THEN "eager" ELSE "list")
    /\ UNCHANGED <<mode, mainVars, sigusr1, catalogVars, kick, fresh>>

\* The dial, the credential helper or the handshake fails, or times out.
OpenFails(b) ==
    /\ pc[b] = "open"
    /\ Goto(b, AfterFailure(b))
    /\ UNCHANGED <<mode, mainVars, sigusr1, catalogVars, kick, sessionVars>>

\* The eager consent is best effort: its outcome changes nothing here.
EagerDone(b) ==
    /\ pc[b] = "eager"
    /\ Goto(b, "list")
    /\ UNCHANGED <<mode, mainVars, sigusr1, catalogVars, kick, sessionVars>>

\* register: the catalog arrives and every tool is added to the server.
ListOK(b) ==
    /\ pc[b] = "list"
    /\ cur[b] \in alive[b]
    /\ Goto(b, "publish")
    /\ UNCHANGED <<mode, mainVars, sigusr1, catalogVars, kick, sessionVars>>

\* Mutant: the session of a failed register is forgotten but not closed.
ListFailsLeaks(b) ==
    /\ pc[b] = "list"
    /\ cur' = [cur EXCEPT ![b] = NoSession]
    /\ Goto(b, AfterFailure(b))
    /\ UNCHANGED <<mode, mainVars, sigusr1, catalogVars, kick, fresh, alive, parent>>

\* bringUp closes the session of a failed register and forgets it.
ListFails(b) ==
    /\ pc[b] = "list"
    /\ CloseCur(b)
    /\ cur' = [cur EXCEPT ![b] = NoSession]
    /\ Goto(b, AfterFailure(b))
    /\ UNCHANGED <<mode, mainVars, sigusr1, catalogVars, kick, fresh, parent>>

\* register records the catalog under m.mu.
Publish(b) ==
    /\ pc[b] = "publish"
    /\ MuFree
    /\ registered' = [registered EXCEPT ![b] = TRUE]
    /\ Goto(b, IF b \in backends THEN "lostrace" ELSE "add")
    /\ UNCHANGED <<mode, mainVars, sigusr1, backends, kick, sessionVars>>

\* Mutant: the run goroutine starts but the backend is not recorded.
AddUnrecorded(b) ==
    /\ pc[b] = "add"
    /\ MuFree
    /\ Goto(b, IF registered[b] THEN "supervise" ELSE "backoff")
    /\ UNCHANGED <<mode, mainVars, sigusr1, catalogVars, kick, sessionVars>>

\* connectOne adds b to m.backends and starts its run goroutine.
Add(b) ==
    /\ pc[b] = "add"
    /\ MuFree
    /\ backends' = backends \cup {b}
    /\ Goto(b, IF registered[b] THEN "supervise" ELSE "backoff")
    /\ UNCHANGED <<mode, mainVars, sigusr1, registered, kick, sessionVars>>

----------------------------------------------------------------------------
(* The run goroutine: awaitFirstConnect, then supervise and reconnect.     *)

\* After the select, closing and the context are looked at once more.
NextAttempt(b) == Goto(b, IF RunCtxDone THEN "exited" ELSE "open")

BackoffElapses(b) ==
    /\ pc[b] = "backoff"
    /\ NextAttempt(b)
    /\ UNCHANGED <<mode, mainVars, sigusr1, catalogVars, kick, sessionVars>>

Kicked(b) ==
    /\ pc[b] = "backoff"
    /\ kick[b]
    /\ kick' = [kick EXCEPT ![b] = FALSE]
    /\ NextAttempt(b)
    /\ UNCHANGED <<mode, mainVars, sigusr1, catalogVars, sessionVars>>

\* Mutant: the retry loop's sleep does not watch the context.
WaitUncancelled(b) ==
    /\ pc[b] = "rewait"
    /\ RunCtxDone
    /\ Goto(b, "exited")
    /\ UNCHANGED <<mode, mainVars, sigusr1, catalogVars, kick, sessionVars>>

\* Either wait ends with the context.
WaitCancelled(b) ==
    /\ pc[b] \in {"backoff", "rewait"}
    /\ RunCtxDone
    /\ Goto(b, "exited")
    /\ UNCHANGED <<mode, mainVars, sigusr1, catalogVars, kick, sessionVars>>

\* Mutant: a late bring-up does not look at closing.
LostRaceUnseen(b) ==
    /\ pc[b] = "lostrace"
    /\ Goto(b, "supervise")
    /\ UNCHANGED <<mode, mainVars, sigusr1, catalogVars, kick, sessionVars>>

\* A late bring-up gives its session up when Close has begun.
LostRace(b) ==
    /\ pc[b] = "lostrace"
    /\ \/ closing /\ CloseCur(b) /\ Goto(b, "exited")
       \/ ~closing /\ Goto(b, "supervise") /\ UNCHANGED alive
    /\ UNCHANGED <<mode, mainVars, sigusr1, catalogVars, kick, cur, fresh, parent>>

\* session.Wait returns; a session closed by the shutdown is not replaced.
SessionLost(b) ==
    /\ pc[b] = "supervise"
    /\ cur[b] \notin alive[b]
    /\ Goto(b, IF RunCtxDone THEN "exited" ELSE "redial")
    /\ UNCHANGED <<mode, mainVars, sigusr1, catalogVars, kick, sessionVars>>

\* Mutant: reconnect dials with the context of the first attempt.
RedialWithCallers(b) ==
    /\ pc[b] = "redial"
    /\ \E s \in SessionIds \ (alive[b] \cup {cur[b]}) :
         /\ fresh' = [fresh EXCEPT ![b] = s]
         /\ alive' = [alive EXCEPT ![b] = @ \cup {s}]
    /\ Goto(b, "redialed")
    /\ UNCHANGED <<mode, mainVars, sigusr1, catalogVars, kick, cur, parent>>

RedialOK(b) ==
    /\ pc[b] = "redial"
    /\ \E s \in SessionIds \ (alive[b] \cup {cur[b]}) :
         /\ fresh' = [fresh EXCEPT ![b] = s]
         /\ alive' = [alive EXCEPT ![b] = @ \cup {s}]
    /\ parent' = [parent EXCEPT ![b] = "run"]
    /\ Goto(b, "redialed")
    /\ UNCHANGED <<mode, mainVars, sigusr1, catalogVars, kick, cur>>

\* Mutant: a failed redial drops the dead session at once.
RedialFailsForgets(b) ==
    /\ pc[b] = "redial"
    /\ cur' = [cur EXCEPT ![b] = NoSession]
    /\ Goto(b, "rewait")
    /\ UNCHANGED <<mode, mainVars, sigusr1, catalogVars, kick, fresh, alive, parent>>

\* Mutant: reconnect tries once.
RedialFailsForGood(b) ==
    /\ pc[b] = "redial"
    /\ Goto(b, "exited")
    /\ UNCHANGED <<mode, mainVars, sigusr1, catalogVars, kick, sessionVars>>

RedialFails(b) ==
    /\ pc[b] = "redial"
    /\ Goto(b, "rewait")
    /\ UNCHANGED <<mode, mainVars, sigusr1, catalogVars, kick, sessionVars>>

RewaitElapses(b) ==
    /\ pc[b] = "rewait"
    /\ Goto(b, IF RunCtxDone THEN "exited" ELSE "redial")
    /\ UNCHANGED <<mode, mainVars, sigusr1, catalogVars, kick, sessionVars>>

\* reconnect looks at closing ...
CheckClosing(b) ==
    /\ pc[b] = "redialed"
    /\ \/ /\ closing
          /\ alive' = [alive EXCEPT ![b] = @ \ {fresh[b]}]
          /\ fresh' = [fresh EXCEPT ![b] = NoSession]
          /\ Goto(b, "exited")
       \/ /\ ~closing
          /\ Goto(b, "store")
          /\ UNCHANGED <<alive, fresh>>
    /\ UNCHANGED <<mode, mainVars, sigusr1, catalogVars, kick, cur, parent>>

\* ... and only then, in a step of its own, stores the new session.
Restore(b) ==
    /\ pc[b] = "store"
    /\ cur' = [cur EXCEPT ![b] = fresh[b]]
    /\ fresh' = [fresh EXCEPT ![b] = NoSession]
    /\ Goto(b, "supervise")
    /\ UNCHANGED <<mode, mainVars, sigusr1, catalogVars, kick, alive, parent>>

----------------------------------------------------------------------------
(* main: Connect, serving, and Close.                                      *)

\* serve goes on to ConnectInBackground and serving, list to its deferred Close.
SyncConnected ==
    /\ main = "connect"
    /\ \A b \in Backends : Sync(b) => Decided(b)
    /\ main' = IF mode.daemon THEN "serve" ELSE "close"
    /\ bg' = IF \E b \in Backends : ~Sync(b) THEN "running" ELSE "done"
    /\ UNCHANGED <<mode, ctxDone, closing, toClose, sigusr1, pc, catalogVars, kick, sessionVars>>

\* The background Connect has gone through its backends: wg.Done.
BgDone ==
    /\ bg = "running"
    /\ \A b \in Backends : Decided(b)
    /\ bg' = "done"
    /\ UNCHANGED <<mode, main, ctxDone, closing, toClose, sigusr1, pc, catalogVars, kick, sessionVars>>

\* Serving ends with the context, on a fatal error, or at the end of stdin.
ServeReturns ==
    /\ main = "serve"
    /\ main' = "close"
    /\ UNCHANGED <<mode, bg, ctxDone, closing, toClose, sigusr1, pc, catalogVars, kick, sessionVars>>

CloseBegins ==
    /\ main = "close"
    /\ closing' = TRUE
    /\ main' = "wgwait"
    /\ UNCHANGED <<mode, bg, ctxDone, toClose, sigusr1, pc, catalogVars, kick, sessionVars>>

\* Mutant: Close does not wait for the background Connect.
WgNotAwaited ==
    /\ main = "wgwait"
    /\ toClose' = backends
    /\ main' = "sessions"
    /\ UNCHANGED <<mode, bg, ctxDone, closing, sigusr1, pc, catalogVars, kick, sessionVars>>

\* wg.Wait, then m.mu.Lock.
WgWaited ==
    /\ main = "wgwait"
    /\ bg = "done"
    /\ toClose' = backends
    /\ main' = "sessions"
    /\ UNCHANGED <<mode, bg, ctxDone, closing, sigusr1, pc, catalogVars, kick, sessionVars>>

CloseSession(b) ==
    /\ main = "sessions"
    /\ b \in toClose
    /\ CloseCur(b)
    /\ toClose' = toClose \ {b}
    /\ UNCHANGED <<mode, main, bg, ctxDone, closing, sigusr1, pc, catalogVars, kick, cur, fresh, parent>>

SessionsClosed ==
    /\ main = "sessions"
    /\ toClose = {}
    /\ main' = "svgwait"
    /\ UNCHANGED <<mode, bg, ctxDone, closing, toClose, sigusr1, pc, catalogVars, kick, sessionVars>>

\* Mutant: Close does not wait for the run goroutines.
SvgNotAwaited ==
    /\ main = "svgwait"
    /\ main' = "closed"
    /\ UNCHANGED <<mode, bg, ctxDone, closing, toClose, sigusr1, pc, catalogVars, kick, sessionVars>>

SvgWaited ==
    /\ main = "svgwait"
    /\ \A b \in backends : pc[b] = "exited"
    /\ main' = "closed"
    /\ UNCHANGED <<mode, bg, ctxDone, closing, toClose, sigusr1, pc, catalogVars, kick, sessionVars>>

\* Mutant: RetryPendingNow kicks the registered backends.
KickRegistered ==
    /\ sigusr1
    /\ MuFree /\ Running
    /\ sigusr1' = FALSE
    /\ kick' = [b \in Backends |-> kick[b] \/ (b \in backends /\ registered[b])]
    /\ UNCHANGED <<mode, mainVars, pc, catalogVars, sessionVars>>

\* RetryPendingNow, called by the SIGUSR1 watcher.
HandleSignal ==
    /\ sigusr1
    /\ MuFree /\ Running
    /\ sigusr1' = FALSE
    /\ kick' = [b \in Backends |-> kick[b] \/ (b \in backends /\ ~registered[b])]
    /\ UNCHANGED <<mode, mainVars, pc, catalogVars, sessionVars>>

----------------------------------------------------------------------------
(* The environment, as long as the process runs.                           *)

\* SIGINT or SIGTERM.
Terminate ==
    /\ ~ctxDone /\ Running
    /\ ctxDone' = TRUE
    /\ UNCHANGED <<mode, main, bg, closing, toClose, sigusr1, pc, catalogVars, kick, sessionVars>>

\* SIGUSR1; the channel holds one signal, and only a daemon listens.
Signal ==
    /\ mode.daemon /\ ~sigusr1 /\ Running
    /\ sigusr1' = TRUE
    /\ UNCHANGED <<mode, mainVars, pc, catalogVars, kick, sessionVars>>

\* The upstream hangs up, a keepalive goes unanswered, a subprocess dies.
SessionDies(b) ==
    /\ \E s \in alive[b] : alive' = [alive EXCEPT ![b] = @ \ {s}]
    /\ UNCHANGED <<mode, mainVars, sigusr1, pc, catalogVars, kick, cur, fresh, parent>>

Terminated == main = "closed" /\ UNCHANGED vars

----------------------------------------------------------------------------

\* bringUp and connectOne: a connector's steps, or a run goroutine's.
BringUp(b) ==
    \/ Start(b)
    \/ OpenOK(b)
    \/ OpenFails(b)
    \/ EagerDone(b)
    \/ ListOK(b)
    \/ ListFails(b)
    \/ Publish(b)
    \/ Add(b)

Run(b) ==
    \/ BackoffElapses(b)
    \/ Kicked(b)
    \/ WaitCancelled(b)
    \/ LostRace(b)
    \/ SessionLost(b)
    \/ RedialOK(b)
    \/ RedialFails(b)
    \/ RewaitElapses(b)
    \/ CheckClosing(b)
    \/ Restore(b)

MainStep ==
    \/ SyncConnected
    \/ BgDone
    \/ ServeReturns
    \/ CloseBegins
    \/ WgWaited
    \/ SessionsClosed
    \/ SvgWaited

Next ==
    \/ \E b \in Backends : BringUp(b) \/ Run(b) \/ CloseSession(b) \/ SessionDies(b)
    \/ MainStep
    \/ HandleSignal
    \/ Terminate
    \/ Signal
    \/ Terminated

Spec == Init /\ [][Next]_vars

----------------------------------------------------------------------------
(* Fairness.                                                               *)

\* What b's requests wait for ends with their context. Not so where they need a
\* helper command (a run of it can outlive its context, defaultRunner) or a consent:
\* authMu.Lock ignores the context, and dial runs the client_id_command before the
\* limit of connect is set.
Obliging(b) == Kind[b] \in {"command", "http"}

\* The attempts the code bounds: by the retry policy, or by a context that is
\* already cancelled.
OpenBounded(b) == Obliging(b) /\ (mode.retry \/ AttemptCtxDone(b))
ListBounded(b) == Obliging(b) /\ (mode.retry \/ AttemptCtxDone(b) \/ cur[b] \notin alive[b])
RedialBounded(b) == OpenBounded(b)

\* To close a session is a request, too.
ClosesAtOnce(b) == closing => Obliging(b)

\* A subprocess is killed when the context of its exec.CommandContext ends.
Doomed(b) == Kind[b] = "command" /\ (ctxDone \/ (parent[b] = "run" /\ closing))

OwnerFairness(b) ==
    /\ WF_vars(Start(b))
    /\ WF_vars(OpenBounded(b) /\ (OpenOK(b) \/ OpenFails(b)))
    /\ WF_vars(ListBounded(b) /\ (ListOK(b) \/ ListFails(b)))
    /\ WF_vars(Publish(b))
    /\ WF_vars(Add(b))
    /\ WF_vars(Kicked(b) \/ WaitCancelled(b))
    /\ WF_vars(ClosesAtOnce(b) /\ LostRace(b))
    /\ WF_vars(SessionLost(b))
    /\ WF_vars(RedialBounded(b) /\ (RedialOK(b) \/ RedialFails(b)))
    /\ WF_vars(ClosesAtOnce(b) /\ CheckClosing(b))
    /\ WF_vars(Restore(b))
    /\ WF_vars(Doomed(b) /\ SessionDies(b))

MainFairness ==
    /\ WF_vars(SyncConnected)
    /\ WF_vars(BgDone)
    /\ WF_vars(ctxDone /\ ServeReturns)
    /\ WF_vars(CloseBegins)
    /\ WF_vars(WgWaited)
    /\ WF_vars((\A b \in toClose : Obliging(b)) /\ \E b \in Backends : CloseSession(b))
    /\ WF_vars(SessionsClosed)
    /\ WF_vars(SvgWaited)
    /\ WF_vars(~ctxDone /\ HandleSignal)

TimerFairness(b) == WF_vars(BackoffElapses(b)) /\ WF_vars(RewaitElapses(b))

\* The program's own progress, with every backoff as long as it likes.
ImpatientSpec == Spec /\ MainFairness /\ \A b \in Backends : OwnerFairness(b)

\* Upstreams that do not turn every attempt down, nor hang up on every new
\* session before it is stored, helpers that end and consents that are given.
UpstreamFairness(b) ==
    /\ SF_vars(OpenOK(b))
    /\ SF_vars(ListOK(b))
    /\ WF_vars(cur[b] \notin alive[b] /\ ListFails(b))
    /\ SF_vars(RedialOK(b))
    /\ SF_vars(fresh[b] \in alive[b] /\ CheckClosing(b))
    /\ SF_vars(fresh[b] \in alive[b] /\ Restore(b))

Shutdown == ctxDone \/ main \notin {"connect", "serve"}

\* The behaviours in which nobody stops the process or signals it; no action
\* that is fair above is ever held back by the restriction.
UnattendedSpec ==
    /\ Init
    /\ [][Next /\ ~Shutdown' /\ ~sigusr1']_vars
    /\ MainFairness
    /\ \A b \in Backends : OwnerFairness(b) /\ TimerFairness(b) /\ UpstreamFairness(b)

----------------------------------------------------------------------------
(* Properties.                                                             *)

\* The tools of b are on the proxy server, so a client may call them at any
\* moment (register, mux.go:359).
Exposed(b) == registered[b] \/ pc[b] = "publish"

\* Every exposed tool forwards to a session that was once opened: the handler's
\* b.current() (mux.go:360) is never nil, whatever retries, reconnects and the
\* shutdown do to the backend.
NoNilSession == \A b \in Backends : Exposed(b) => cur[b] # NoSession

\* A session that is open is the backend's current one or the one reconnect is
\* about to store: no failure path leaves a connection or a subprocess that
\* nothing can close any more (bringUp, mux.go:245-247).
NoOrphanSession == \A b \in Backends : alive[b] \subseteq {cur[b], fresh[b]}

\* When Close has returned, no session is open and no goroutine that could open
\* one is left (Close, mux.go:506-514), however it raced with them.
CleanExit ==
    main = "closed" => \A b \in Backends :
        /\ alive[b] = {}
        /\ pc[b] \in {"exited", "skipped"}

\* Only a backend that needs no browser and has never been registered is
\* brought up by a retry loop (connectOne, mux.go:212-216; register's
\* early return, mux.go:315-320, never has to protect the catalog).
RetryOnlyPending ==
    \A b \in backends : BringingUp(b) \/ pc[b] = "backoff" => ~Interactive(b) /\ ~registered[b]

\* A session closed by the shutdown is never replaced by a new dial: once
\* Close's loop has been through the backends no attempt starts
\* (supervise, reconnect.go:115-117; awaitFirstConnect, reconnect.go:83-85).
NoDialAfterClose ==
    [][\A b \in Backends : closing /\ pc'[b] \in {"open", "redial"}
          => pc[b] = pc'[b] \/ pc[b] = "config"]_vars

\* At most so many more steps does the owner of a backend take once Close has
\* begun; to begin an attempt ranks above every step but the first.
StepsLeft(step) ==
    CASE step = "config" -> 7
      [] step \in {"open", "redial"} -> 6
      [] step = "eager" -> 5
      [] step = "list" -> 4
      [] step = "publish" -> 3
      [] step \in {"add", "store"} -> 2
      [] step \in {"lostrace", "supervise", "redialed", "rewait", "backoff"} -> 1
      [] OTHER -> 0

\* Once Close has begun no owner goes round a loop again: whatever fails, elapses
\* or is signalled, each step leaves it fewer than before, seven at most, so that no
\* retry and no reconnect begins an attempt and NoDialAfterClose follows (the looks
\* at closing and the context in awaitFirstConnect, reconnect.go:83-95, and in
\* supervise and reconnect, reconnect.go:115-147).
ShutdownDescends ==
    [][\A b \in Backends : closing /\ pc'[b] # pc[b] => StepsLeft(pc'[b]) < StepsLeft(pc[b])]_vars

\* A subprocess that is still running when Close comes to its last wait is one
\* whose context has been cancelled: Close's loop has closed every session a
\* connector opened, and reconnect dials under the context that Close cancels
\* (mux.go:515-527; reconnect.go:140). So no subprocess holds Close up.
SubprocessesDoomed ==
    main = "svgwait" => \A b \in Backends : Kind[b] = "command" /\ alive[b] # {} => Doomed(b)

\* A backend as its user sees it.
View(b) ==
    IF registered[b] THEN IF cur[b] \in alive[b] THEN "up" ELSE "down"
    ELSE IF pc[b] = "skipped" THEN "skipped"
    ELSE IF b \in backends THEN "pending" ELSE "new"

\* Mux implements BackendLife.
Life == INSTANCE BackendLife WITH
            browser <- {b \in Backends : Interactive(b)},
            retried <- mode.retry,
            state <- [b \in Backends |-> View(b)],
            over <- main = "closed"

\* Tools are published once and stay published, a browser backend whose first
\* attempt failed is not tried again, a skipped one never comes back, a lost session
\* can come back (a browser backend's too, unattended: reconnect asks nobody), and
\* the process does not end under an open session: BackendLife, through every
\* retry, reconnect, signal and shutdown (connectOne, mux.go:207-243; run,
\* reconnect.go:37-56; Close, mux.go:506-527).
ImplementsLife == Life!Spec

\* Once it begins, Close returns.
CloseReturns == (main = "close") ~> (main = "closed")

\* Close's last wait is for the supervisor of a session it never closed: one
\* that reconnect stored after Close's loop had gone by.
Stranded ==
    /\ main = "svgwait"
    /\ \E b \in backends : Kind[b] # "command" /\ pc[b] = "supervise" /\ cur[b] \in alive[b]

\* Close waits for a backend whose credential takes a helper command or a consent: for
\* an attempt, or for the request that closes its session.
HeldUp(b) ==
    /\ ~Obliging(b)
    /\ \/ pc[b] \in {"open", "eager", "list", "lostrace", "redial", "redialed"}
       \/ main = "sessions" /\ b \in toClose

\* Close returns, unless from some moment on it is held up for good by such a
\* session, or by a helper run or a queued consent that does not end with its
\* context (exec.go:157-168; oauth.go:341): no backoff, and no attempt of any other
\* backend, keeps it (mux.go:51-56).
CloseReturnsOrHeldUp ==
    <>[](Stranded \/ \E b \in Backends : HeldUp(b)) \/ CloseReturns

\* A registered backend whose session died gets a new one, again and again,
\* without a signal or a restart (reconnect, reconnect.go:126-132).
SelfHealing ==
    \A b \in Backends : (registered[b] /\ cur[b] \notin alive[b]) ~> (cur[b] \in alive[b])

\* Under a retry policy every backend comes up by itself; the only ones that may
\* not are the interactive backends that were skipped (connect_retry,
\* mcpmux.example.yaml:23-26).
EventuallyUp ==
    \A b \in Backends :
        (pc[b] = "config") ~> (registered[b] \/ (Interactive(b) /\ pc[b] = "skipped"))

\* A SIGUSR1 ends the wait of every pending backend at once, however long its
\* backoff is and whatever else is going on (RetryPendingNow, mux.go:285-291).
SignalEndsWait == \A b \in Backends : (sigusr1 /\ pc[b] = "backoff") ~> (pc[b] # "backoff")
=============================================================================
