------------------------------- MODULE Serve -------------------------------
(***************************************************************************)
(* "mcpmux serve" from its configuration to its exit (cmd/serve.go):       *)
(* Config decides what runs, Catalog fills while HTTPServe serves. How a   *)
(* backend comes up is reduced to its outcome here; Mux has the rest.      *)
(***************************************************************************)
EXTENDS Config, Catalog

CONSTANTS Requests,
          Documents   \* the configurations to start from

ASSUME NamesAreBackends == Names = Backends \cup {NoName} /\ NoName \notin Backends
ASSUME DocumentsAssumption == \A c \in Documents : c \in Document

VARIABLES
    boot,   \* where RunE stands: "load", "connect", "bind", "http", "stdio"
    conf,   \* what RunE keeps of the configuration
    bg,     \* the goroutine of ConnectInBackground runs
    ctxDone, serve, shut, watcher, expired, request, process   \* HTTPServe

httpVars == <<serve, shut, watcher, expired, request, process>>
vars == <<boot, conf, bg, ctxDone, httpVars, catalogVars>>

HTTP == INSTANCE HTTPServe

Conf == [http : BOOLEAN, retry : BOOLEAN, plain : SUBSET Backends, browser : SUBSET Backends,
         helped : SUBSET Backends, amiss : SUBSET Backends]

\* Connect is at b.
InHand(b) == at[b] \in {"trying", "adding"}

\* No backend is left half registered.
NothingInHand == \A b \in Backends : ~InHand(b) /\ at[b] # "late"

TypeOK ==
    /\ HTTP!TypeOK /\ CatalogTypeOK
    /\ boot \in {"load", "connect", "bind", "http", "stdio"}
    /\ conf \in Conf
    /\ bg \in BOOLEAN
    /\ process = "exited" => ~bg /\ NothingInHand

Init ==
    /\ HTTP!Init /\ CatalogInit
    /\ boot = "load"
    /\ conf = [http |-> FALSE, retry |-> FALSE, plain |-> {}, browser |-> {}, helped |-> {},
               amiss |-> {}]
    /\ bg = FALSE

----------------------------------------------------------------------------
(* RunE. *)

\* What is kept of an accepted configuration; helped: backends with a credential helper;
\* amiss: backends whose transport is not the one the configuration asks for, but for
\* the two ways Config names.
Use(c) ==
    LET Those(P(_)) == {c.backends[i].name : i \in {j \in DOMAIN c.backends : P(c.backends[j])}}
        Helped(b) == TransportFor(b) = "helper"
        Amiss(b) == ~(Faithful(b) \/ Withheld(b) \/ HelperDefaults(b))
    IN  [http |-> c.listen.transport = "http",
         retry |-> IsEnabled(c.retry),
         plain |-> Partition(c.backends, FALSE),
         browser |-> Partition(c.backends, TRUE),
         helped |-> Those(Helped),
         amiss |-> Those(Amiss)]

Load ==
    /\ boot = "load" /\ process = "serving"
    /\ \E c \in Documents : Valid(SetDefaults(c)) /\ conf' = Use(SetDefaults(c))
    /\ boot' = "connect"
    /\ UNCHANGED <<bg, ctxDone, httpVars, catalogVars>>

\* RunE returns without having served: the deferred m.Close begins, if there is
\* a Mux by now.
Return(s) ==
    /\ serve' = s
    /\ watcher' = "gone"
    /\ process' = IF boot = "load" THEN "exited" ELSE "closing"
    /\ UNCHANGED <<shut, expired, request>>

Refuse ==
    /\ boot = "load" /\ process = "serving"
    /\ \E c \in Documents : ~Valid(SetDefaults(c))
    /\ Return("failed")
    /\ UNCHANGED <<boot, conf, bg, ctxDone, catalogVars>>

\* Mutant: every backend is connected before the process is ready.
SyncAll(b) == b \in conf.plain \cup conf.browser

\* A backend that needs no human is connected before the process is ready.
Sync(b) == b \in conf.plain

Background(b) == b \in conf.browser /\ ~Sync(b)

Undecided(b) == at[b] = "new" \/ InHand(b)

\* Mutant: RunE goes on when every attempt has begun.
ConnectedEarly ==
    /\ boot = "connect"
    /\ \A b \in Backends : Sync(b) => at[b] # "new"
    /\ boot' = IF conf.http THEN "bind" ELSE "stdio"
    /\ bg' = \E b \in Backends : Background(b)
    /\ UNCHANGED <<conf, ctxDone, httpVars, catalogVars>>

\* READY=1 is sent (over HTTP), and the interactive backends are begun.
Connected ==
    /\ boot = "connect"
    /\ \A b \in Backends : Sync(b) => ~Undecided(b)
    /\ boot' = IF conf.http THEN "bind" ELSE "stdio"
    /\ bg' = \E b \in Backends : Background(b)
    /\ UNCHANGED <<conf, ctxDone, httpVars, catalogVars>>

\* A listener passed by systemd, or one of our own.
Bind ==
    /\ boot = "bind" /\ process = "serving"
    /\ boot' = "http"
    /\ UNCHANGED <<conf, bg, ctxDone, httpVars, catalogVars>>

BindFails ==
    /\ boot = "bind" /\ process = "serving"
    /\ Return("failed")
    /\ UNCHANGED <<boot, conf, bg, ctxDone, catalogVars>>

\* server.Run ends with the context or with stdin.
StdioEnds ==
    /\ boot = "stdio" /\ process = "serving"
    /\ Return("closed")
    /\ UNCHANGED <<boot, conf, bg, ctxDone, catalogVars>>

\* A signal, once NotifyContext has been called.
Signal == boot # "load" /\ HTTP!Cancel /\ UNCHANGED <<boot, conf, bg, catalogVars>>

ServeHTTP ==
    /\ boot = "http"
    /\ \/ \E r \in Requests : HTTP!Accept(r) \/ HTTP!Answer(r)
       \/ HTTP!WatcherShutdown \/ HTTP!WatcherServeDone \/ HTTP!Drained \/ HTTP!GraceExpires
       \/ HTTP!ServeCloses \/ HTTP!ServeFails \/ HTTP!CloseMux
    /\ UNCHANGED <<boot, conf, bg, catalogVars>>

\* Mutant: m.Close does not wait for the background Connect.
ExitUnwaited ==
    /\ \A b \in Backends : at[b] # "late"
    /\ HTTP!Exit
    /\ UNCHANGED <<boot, conf, bg, catalogVars>>

\* What m.Close waits for here: the background Connect (wg) and the retry loops (svg).
MayExit == ~bg /\ \A b \in Backends : at[b] # "late"

\* m.Close has returned, which it does if Mux lets it.
Exit ==
    /\ MayExit
    /\ HTTP!Exit
    /\ UNCHANGED <<boot, conf, bg, catalogVars>>

----------------------------------------------------------------------------
(* Connect, in the main goroutine and in the background, and retry loops.  *)

Connects(b) == (Sync(b) /\ boot = "connect") \/ (Background(b) /\ bg)

TakesUp(b) ==
    /\ Connects(b)
    /\ \A c \in Backends : Connects(c) => ~InHand(c)
    /\ Begin(b)

\* Mutant: a retry loop takes over an interactive backend as well.
GivesUpToRetry(b) ==
    /\ Fails(b)
    /\ at'[b] = IF conf.retry THEN "pending" ELSE "skipped"

\* Mutant: Connect tries an interactive backend again until it comes up.
GivesUpNever(b) ==
    /\ at[b] = "trying"
    /\ Become(b, IF b \in conf.browser THEN "new" ELSE IF conf.retry THEN "pending" ELSE "skipped")
    /\ UNCHANGED <<left, server, tools>>

\* connectOne keeps a backend only under a retry policy and if no browser is
\* needed for it.
GivesUp(b) ==
    /\ Fails(b)
    /\ at'[b] = IF conf.retry /\ b \notin conf.browser THEN "pending" ELSE "skipped"

\* A retry loop's attempt may be answered even when Close has cancelled it.
Adds(b) == Listed(b) \/ Publish(b) \/ \E tool \in Tools[b] : AddTool(b, tool)

Register(b) ==
    /\ process # "exited"
    /\ TakesUp(b) \/ GivesUp(b) \/ Adds(b)
    /\ UNCHANGED <<boot, conf, bg, ctxDone, httpVars>>

\* wg.Done, which is deferred.
BgDone ==
    /\ bg
    /\ \A b \in Backends : Background(b) => ~Undecided(b)
    /\ bg' = FALSE
    /\ UNCHANGED <<boot, conf, ctxDone, httpVars, catalogVars>>

Exited == process = "exited" /\ UNCHANGED vars

Next ==
    \/ Load \/ Refuse \/ Connected \/ Bind \/ BindFails \/ StdioEnds
    \/ Signal \/ ServeHTTP \/ Exit
    \/ \E b \in Backends : Register(b)
    \/ BgDone
    \/ Exited

\* An attempt ends soon when attempt_timeout or its cancelled context ends it. Nothing
\* here counts on a browser backend, which may queue for a consent that looks at no
\* context (authMu, oauth.go:341), on a credential helper, whose run may outlast its
\* own limit (ExecToken!Orphaned), nor on an attempt without a retry policy, whose
\* ListTools has no limit at all.
Bounded(b) == b \notin conf.browser \cup conf.helped /\ (ctxDone \/ conf.retry)

Fairness ==
    /\ WF_vars(Load \/ Refuse) /\ WF_vars(Connected) /\ WF_vars(Bind \/ BindFails)
    /\ WF_vars(ctxDone /\ StdioEnds)
    /\ WF_vars(boot = "http" /\ HTTP!WatcherShutdown /\ UNCHANGED <<boot, conf, bg, catalogVars>>)
    /\ WF_vars(boot = "http" /\ HTTP!WatcherServeDone /\ UNCHANGED <<boot, conf, bg, catalogVars>>)
    /\ WF_vars(boot = "http" /\ HTTP!Drained /\ UNCHANGED <<boot, conf, bg, catalogVars>>)
    /\ WF_vars(boot = "http" /\ HTTP!GraceExpires /\ UNCHANGED <<boot, conf, bg, catalogVars>>)
    /\ WF_vars(boot = "http" /\ HTTP!ServeCloses /\ UNCHANGED <<boot, conf, bg, catalogVars>>)
    /\ WF_vars(boot = "http" /\ HTTP!CloseMux /\ UNCHANGED <<boot, conf, bg, catalogVars>>)
    /\ WF_vars(BgDone)
    /\ \A b \in Backends :
         /\ WF_vars(at[b] = "new" /\ Register(b))
         /\ WF_vars(at[b] \in {"adding", "late"} /\ Register(b))
         /\ WF_vars(at[b] = "trying" /\ Bounded(b) /\ Register(b))

Spec == Init /\ [][Next]_vars /\ Fairness

----------------------------------------------------------------------------
(* Properties. *)

\* A backend as its user sees it; whether its session lives is left to Mux.
View(b) ==
    IF at[b] \in {"new", "trying", "adding"} THEN "new"
    ELSE IF at[b] = "late" THEN "pending" ELSE at[b]

\* Serve implements BackendLife, from the configuration on.
Life == INSTANCE BackendLife WITH
            browser <- conf.browser,
            retried <- conf.retry,
            state <- [b \in Backends |-> View(b)],
            over <- FALSE

\* From the configuration on, and with a bring-up reduced to its outcome, a backend
\* keeps the promise that Mux keeps in every detail (Load, serve.go:33-56; connectOne,
\* mux.go:207-243). Two refinements of one promise are not one system: Serve has
\* none of Mux's sessions, retries and shutdown.
ImplementsLife == Life!Spec

\* Every backend of an accepted configuration gets the transport, the credential and
\* the OAuth client its configuration asks for, unless its endpoint has a colon and no
\* port or a command for its client id or secret lets it down: no argv is empty when
\* it is run, no transport is unsupported, no other credential is withheld (Validate,
\* config.go:352-402; transportFor, backend.go:155-222).
Accepted == conf.amiss = {}

\* When READY is sent, every backend that needs no human is up, or pending, or
\* skipped for want of a retry policy: none is still being tried, and no browser
\* backend has been begun (serve.go:60-78).
ReadySettled ==
    /\ boot = "connect" => \A b \in conf.browser : at[b] = "new"
    /\ boot \in {"bind", "http", "stdio"} =>
         \A b \in conf.plain :
             ~Undecided(b) /\ (at[b] = "skipped" => ~conf.retry)

HelperHangs == \E b \in conf.helped : at[b] = "trying"

\* A slow or forgotten browser consent never blocks readiness
\* (dist/mcpmux.service:43-45), nor does an upstream that never answers, as long
\* as attempts are bounded; only a credential helper whose run never ends does.
ReadyDespiteConsent ==
    \/ <>[]HelperHangs
    \/ (boot = "connect" /\ conf.retry) ~> (boot # "connect")

\* However serving ends, what start-up has left running comes to an end and no longer
\* keeps the process, whatever the retry loops still do; the one thing that can keep it
\* is the attempt of an interactive backend, which m.Close does not cancel
\* (serve.go:40-44: stop is deferred first, so it runs last). Whether Close returns
\* then is Mux's CloseReturnsOrHeldUp.
OnlyConsentsHoldExit ==
    \/ <>[](\E b \in conf.browser : at[b] = "trying")
    \/ (process = "closing") ~> []MayExit

\* HTTPServe's promises hold from the first signal on, whatever the start-up and
\* the registrations are doing, but for a helper whose run never ends: Connect then
\* keeps RunE from serving and from returning.
NoneLeftAfterDrain == HTTP!NoneLeftAfterDrain
ServingEnds == <>[]HelperHangs \/ (HTTP!ReturnsOnCancel /\ HTTP!WatcherExits)
=============================================================================
