# A TLA+ model of mcpmux

mcpmux connects to a configured set of MCP servers ("backends"), publishes their
tools under one MCP endpoint (stdio or HTTP) and forwards tool calls. What is hard
about it is not the forwarding but the life of its connections: backends that come
up late or never, sessions that drop, consents that need a human at a browser,
credentials that rotate, and a shutdown that has to meet all of them at any moment.
These modules model that, from the configuration a process starts with to its exit,
check it with TLC on small instances, and prove much of it with TLAPS for every
instance.

Line references are to `src/`; `mux.go`, `reconnect.go`, `backend.go` and `dialer.go`
are in `internal/mux`, `oauth.go`, `store.go` and `exec.go` in `internal/auth`,
`serve.go` and `signal_unix.go` in `cmd`, `config.go` in `internal/config`.

## The system

| Component | State | Operations | Modelled in |
|---|---|---|---|
| Mux lifecycle (`mux.go`, `reconnect.go`, `backend.go`, `signal_unix.go`, `cmd/list.go`) | `m.backends`, `closing`, `wg`, `svg`, and for each backend its session, catalog, kick channel and the goroutine that owns it | Connect, ConnectInBackground, bringUp, run, awaitFirstConnect, supervise, reconnect, RetryPendingNow, Close | `Mux` (refines `BackendLife`) |
| Start-up and exit of serve (`serve.go`) | RunE and its deferred calls, the signal context | load, connect, READY, bind, serve, return | `Serve` (composes `Config`, `Catalog`, `HTTPServe`, refines `BackendLife`) |
| HTTP serving (`mux.go:447-504`) | the listener, the watcher goroutine, the requests in flight | ServeHTTPListener, Shutdown, Close, exit | `HTTPServe` |
| Tool catalog (`mux.go:310-437`) | the server's tools and their handlers, `b.tools` | register's AddTool, toolName, Catalog | `Catalog` |
| Backoff (`reconnect.go:14-35,58-199`, `backend.go:93-103`) | the delay, the attempt, the kick, the time of the last warning | awaitFirstConnect, reconnect, nextDelay, jitter, logAttempt | `Backoff` |
| Configuration (`config.go`, `dialer.go`, `backend.go:155-222`) | none after start | setDefaults, Validate, newDialer, PartitionBackends, transportFor | `Config` |
| Token store (`store.go`, `oauth.go:106-190`) | `tokens.json`, the token sources and the last token each saved | Save, Load, persistSource.Token, bindStore, EagerAuthorize | `TokenStore` |
| Browser authorization (`oauth.go:241-388`) | `authMu`, the loopback servers, `waiting` and its channel | fetch, await, handleCallback | `BrowserAuth` (refines `Consent`) |
| Exec credential helper (`exec.go`) | the cached token, its mutex | Token, Invalidate, Authorize | `ExecToken` (refines `Credential`) |
| Header round tripper (`transport.go`) | none | which requests get the credential | `Config` (`CredentialHost`, `RequestHost`, `Attached`) |
| Issuer round tripper (`issuer.go`) | none | RoundTrip | not modelled |
| Logging, command line, packaging | none | output | not modelled |

How they interact. `serve` loads the configuration, connects the backends that need
no browser, reports READY, starts a goroutine for the others and serves; one goroutine
per backend of `m.backends` retries or supervises it. Dialling an HTTP backend asks an
ExecTokenSource or the SDK's OAuth handler for a token; the handler calls back into
`fetch` for a consent and into `persistSource` whenever a token changes. Registering a
backend puts its tools on the server that clients are already using. SIGINT and SIGTERM
cancel the context everything runs under, SIGUSR1 kicks the backends that are pending,
and the deferred `Close` waits for all of it.

What makes it correct, component by component:

* Mux: a published tool never forwards to a nil session; no session or subprocess is
  leaked by a failure; when Close has returned nothing is open and nobody is left who
  could open something; the first attempt of a backend that may open a browser is
  never repeated unattended (a lost session of such a backend is dialled again, though);
  a lost session is replaced; Close returns unless a lost race, a helper or a consent
  holds it up.
* Start-up: READY means that every backend that needs no human is decided, and no
  consent can keep it from coming; however serving ends, what start-up has left running
  ends too, or waits for a consent.
* HTTP serving: it returns when cancelled, leaks no goroutine, lets no request outlive
  the grace period, and cuts none before.
* Catalog: a call reaches the backend that owns the tool, and a published tool keeps
  its meaning while others register.
* Backoff: a backend that needs no browser is up soon after its upstream is well, and
  one that is not is reported again and again.
* Configuration: what Validate accepts can be connected, with the credential and the
  OAuth client asked for, but for two exceptions named below.
* Token store: no backend's token is lost to another's save, and a restart finds the
  token in use.
* Browser authorization: consents on fixed ports exclude each other, the next one finds
  its port free, an answer reaches the flow that asked, a cancelled flow returns unless
  it queues behind one that does not.
* Exec helper: the helper runs only for a reason, a rejected token is not used again,
  a cached token lasts as long as its request.

`PROJECT.json` lists the hazards of this code line by line, with the property that
covers each one or the reason why none does.

## The modules

**BackendLife** is the abstract specification of a backend as its user sees it: new,
pending, skipped, up or down. Tools are published once, browser backends are never
pending, a skipped backend stays skipped, a lost session may come back, and the process
does not end under an open session. Which backends need a browser is fixed before it
begins in `Mux` and by `Configure`, before anything else happens, in `Serve`; both
implement it.

**Mux** is the detailed one. `pc[b]` is where the goroutine that owns backend `b`
stands: a connector (main, or ConnectInBackground's goroutine) until `b` is in
`m.backends`, its own `run` goroutine afterwards.

| Model | Code |
|---|---|
| `mode` | the command (`serve` or `list`), `opts.Retry`, `opts.Eager` |
| `main`, `bg`, `ctxDone`, `closing`, `toClose` | RunE and Close, `m.wg`, the signal context, `m.closing` and `closeCtx` (set together, mux.go:516-517), the rest of Close's loop |
| `backends`, `registered`, `kick` | `m.backends`, `b.registered`, `b.kick` |
| `cur`, `fresh`, `alive`, `parent` | `b.session`, reconnect's local `session`, the open sessions, the context the newest was dialled with |
| `Start` ... `Add` | Connect, bringUp and connectOne, one action for each blocking call or locked section |
| `BackoffElapses`, `Kicked`, `WaitCancelled`, `LostRace` | awaitFirstConnect's select, its second look at the context, and its late check of `closing` |
| `SessionLost`, `RedialOK`, `RedialFails`, `CheckClosing`, `Restore`, `RewaitElapses` | supervise and reconnect; the check of `closing` and the store of the session are two steps, as in the code |
| `CloseBegins` ... `SvgWaited` | Close, statement by statement |
| `HandleSignal`, `Signal`, `Terminate`, `SessionDies` | RetryPendingNow, the signals, the upstream |

Choices to know: errors of `newBackend` are left out because validation rules them out
(`ValidIsConnectable` is the proof); the subprocess of a command backend is killed by
its `exec.CommandContext` (`Doomed`), whereas an HTTP session outlives its context;
session names are reused, so that two suffice for any number of reconnects. register's
early return for a registered backend is dead code: `RetryOnlyPendingHolds` proves it.

**Config** holds a configuration document as records, a text reduced to what the code
asks of it (given or not, well formed or not). `SetDefaults` and `Valid` are
setDefaults and Validate; `TransportFor` is what transportFor makes of a backend, with
"panic" where it would index an empty argv, "credential withheld" where
headerRoundTripper would not find its host, and "error" where a value command fails.
A host may end in a colon without a port (`emptyPort`): url.Parse keeps it
(`CredentialHost`), http.NewRequest removes it (`RequestHost`), and a static credential
is `Attached` only where the two agree. A value command gives a value, nothing or an
error (`outcome`). `Asked` is what the operator asked for, read off the settings alone,
and `Faithful` that TransportFor comes to the same. `Connectable` allows two exceptions
and no more: `Withheld`, the empty port, and `HelperDefaults`, a client id whose command
fails or prints nothing (the handler then registers a client of its own) or a secret
whose command fails.

**Catalog** adds a backend's tools one at a time to a map from names to handlers. A
name is a sequence of characters and toolName the concatenation with `__`, so that the
collisions are those of the real strings; only whether names are equal and how they
begin is ever asked. `at[b]` is "adding" in a connector and
"late" in a retry loop, which clients may watch.

**HTTPServe** has the main goroutine (`serve`, `process`), the watcher (`watcher`,
`shut`) and the requests. `expired` is a history variable: the grace period is over.

**Serve** composes the three: `boot` is where RunE stands, `conf` what it keeps of the
configuration, `bg` the goroutine of ConnectInBackground. How a backend comes up is
Catalog's steps, the HTTP part is an instance of HTTPServe, whose `Exit` waits for
`bg` and for the retry loops that are adding tools, as Close does (`MayExit`). Mux has the
inside of Close and of the attempts; Serve has what surrounds them. Both implement
BackendLife, Serve from the choice of a configuration on and without sessions, of which
it has none; that does not make them one system, only two that keep one promise.

**Backoff** runs one backend against a clock. `step` is the wait, the connect or the
ListTools of a loop, `spent` the time in it, `sound` whether the upstream has been well
since it began: a sound attempt is answered within `Answer`. An unsound one has its limit
and, where its credential comes from a helper, `overrun` on top (`Longer`): a run of the
helper looks at the daemon's context and at execTimeout (exec.go:46-48, 86), not at the
attempt's context, and Authorize may add another. How long a helper can take has no bound
in the code (see Divergences), so the model is of helpers whose runs do
end, after any time. Backends with a consent are left out: they queue on `authMu`
(oauth.go:341) for as long as another backend's consent takes, and no promise about time
can be made for them. `well` and `quiet` measure what the two properties are about.

**TokenStore** names a token by its generation. The authorization server refreshes
only the newest one, as servers that rotate refresh tokens do. `last` and
`sourceMu` are kept for each persistSource, because a consent replaces the source
while calls on the old one are still under way. `home` spreads the backends over two
processes on one file, each with its own mutex; `Restart` is a crash of either at any
step. `blind` and `writer` are history variables: a Save that started over because the
store could not be read, or that another process has overtaken since it read the file,
and who wrote what the file has. Assumptions: only mcpmux writes the file, and by
rename; refresh tokens in every credential; one consent of a backend at a time, as the
SDK has it; and a backend belongs to one process.

**BrowserAuth** treats each call of `fetch` as a flow and names a redirect by the
flow it belongs to. `server[f]` is "late" when `srv.Close` ran before the goroutine of
`serveCallback` had handed the listener to Serve: net/http then closes the listener
only when that goroutine runs. The user may answer at any moment after the URL is
shown, or never; contexts may end at any moment, or never.

**Consent** is what these flows come to for their users, without lock, server, channel
or goroutine: on fixed ports one flow asks at a time, and what ends a flow is a redirect
that was asked for at its address, or its own failure. BrowserAuth implements it: a flow
asks from the moment its URL is out until await has returned, and its address is the
port of its backend or, on an ephemeral port, the backend itself. The redirect may be
that of an earlier flow on the same port; telling them apart is the SDK's state check.

**ExecToken** has a clock, the cached token, and requests that call Token, are
rejected, call Authorize and are sent again with a Token call of their own. `reasons`
counts what a helper run is due for. `orphan` says that a process which the running
helper has started holds the pipe that cmd.Run reads: execTimeout no longer ends the run.

**Credential** is what this promises the requests, without mutex, cache or clock: runs
of the helper do not overlap and are started for somebody who waits, everybody is handed
the newest token, none is discarded while its successor is being minted, and a request
that was rejected is sent once more, with a token of a run that began afterwards.
ExecToken implements it: a run under way is the mutex being held, and the lookups,
expiries and waits for the mutex are stutters.

The `MC` modules hold the instances, the `Proofs` modules the theorems. Definitions
marked "Mutant" in a comment are variants with a plausible bug; no specification uses
them, and each breaks the property `PROJECT.json` pairs it with.

## The runs

| Run | Instance | Shows |
|---|---|---|
| `MuxSafety` | one http and one interactive backend; daemon with and without retry, and `list` | the safety properties, `ShutdownDescends` and `ImplementsLife` |
| `MuxShutdown` | a subprocess and an interactive backend with eager consents; no backoff ever has to elapse | Close returns, is stranded as in the finding below, never by a subprocess (`SubprocessesDoomed`), or is held up by the backend with the consent (`CloseReturnsOrHeldUp`); SIGUSR1 ends a wait |
| `MuxUnattended` | one backend with a helper command and one interactive backend, nobody stops or signals the process | `SelfHealing`, `EventuallyUp` |
| `MuxCloseStranded` | one http backend | **violated**: `CloseReturns` |
| `Serve` | up to two backends from some 5,600 configurations, a quarter of them accepted, two requests, one signal, failures of the bind and of the listener | what is accepted, what READY means, where calls go, what of the start-up can hold up the exit (`OnlyConsentsHoldExit`), HTTPServe's promises (`NoneLeftAfterDrain`, `ServingEnds`), and `ImplementsLife` |
| `HTTPDrain` | one request | **violated**: `DrainedBeforeExit` |
| `ToolCollision` | backends `a`, `a_` and `a__b` | **violated**: `CallsReachOwner` |
| `Backoff` | three policies: a long ceiling, a short one with a helper that outlasts the limit of its round trip, no retry | `RecoversInTime`, `StaysVisible` |
| `TokenStore` | two backends in one or two processes, three goroutines, two generations of tokens, unreadable stores and failing writes | `NoLostUpdate`: no Save displaces another backend's token unless it is `blind`, and no other puts an older one back where one goroutine calls; `FileFollowsSource`: at rest the file has what the source in use compared last, which is the token in use where one goroutine calls; `EventuallyPersisted` |
| `TokenStale` | one backend, two goroutines | **violated**: `NoStaleOverwrite` |
| `BrowserAuth` | every assignment of two flows to four backends: two share a port, one has its own, one is ephemeral | consents exclude each other, the port is released, an answer is kept (unless a late redirect on the same port came first) and ends its flow, a cancelled flow returns or is held up by a consent; `ImplementsConsent` |
| `ExecToken` | two requests, three ticks of the clock, seven runs of the helper | `NoNeedlessRuns`, `LeewayHolds`, `CallReturnsOrOrphaned`, `ImplementsCredential` |

Bounds. Backends meet only in Close's loop, in the connectors' order, in
RetryPendingNow and in the catalog, so two of different kinds show every pairing; the
proofs remove the bound for the safety properties. `Serve`'s documents have one backend
with every combination of transport, endpoint and credential settings the code tells
apart, with and without an empty port, and with every outcome of the commands for a
client id and secret, alone and beside another, and every way to listen and to retry with
a few of them; one of its backends has a tool whose name contains the other's name and the
separator. `Backoff` has the proportions of the code's constants in a few ticks (a first
wait of 5, a session's delays from 1 to 6, a ceiling above and one below the first wait,
a helper that takes more than the limit of a round trip again) and `Cap = 41` lies above
every bound the properties state, 38 at most, so that a clock that stops there has
already failed. Three goroutines in `TokenStore` are two that race on one
persistSource and one whose backend shares the file; `MaxGen = 2` is the first token and
its successor, and every refresh is that pair again. Two flows are one that holds
`authMu` and one that queues, and two that overlap on an ephemeral port; a third only
makes the queue longer. In ExecToken, `Ttl = 3` with `Leeway = 1` is a token that is
used from the cache and then expires, a JWT lifetime of 1 is one that is never cached,
and `MaxRuns = 7` lets both requests use the most a request can (three runs, for the
call, for Authorize and for the retry) and one more arrive.

Fairness. Goroutines that can run do (weak fairness, action by action). In `Mux` an
attempt ends only where the code bounds it: by the retry policy or by a context that has
ended, and only of a backend that is `Obliging` (`OpenBounded`, `ListBounded`,
`RedialBounded`): a subprocess, or an HTTP server with a static credential or none. A
backend with a helper command or a consent may take for ever over a connect, a list, an
eager consent or the request that closes its session (`ClosesAtOnce`), whatever its
context and `oauthConnectTimeout` say, because neither defaultRunner nor `authMu.Lock`
leaves when they do, and dial runs the commands for a client before a limit is set
(backend.go:92-103). `ImpatientSpec` assumes no more; `UnattendedSpec` adds that backoffs
elapse, that upstreams do not turn every attempt down and that the helpers and consents
behind them come to an end, and excludes signals by restricting the next-state relation
(no action that is fair is disabled by it). In `Serve` an attempt ends under a retry
policy or when the context has ended, of a backend with neither a browser nor a helper
(`Bounded`); an attempt without a retry policy may hang, as mux.go:118-121 says. That
`Close` returns is not assumed: `Exit` is not fair, and what `OnlyConsentsHoldExit` says
is that from some moment on nothing of the start-up stands in its way. Signals, a user's answer, the end of a session and the end of
serving are never assumed, only that serving ends with its context. `Backoff` has no
liveness: its bounds are invariants over a clock that cannot pass a timer that is due.
In `TokenStore`, clients keep calling tools (`TokenCached`); no consent, refresh or
restart is assumed. In `BrowserAuth` neither an answer nor the end of a context is; a
flow takes `authMu` once, so weak fairness of the lock is enough. In `ExecToken` a run of
the helper ends, by itself or by `execTimeout`, unless a process it has left behind keeps
its pipe (`orphan`).

`ToolCollision` is the only run that does not look for deadlocks: its system ends when
the tools are registered.

## What the runs found

* **Close can hang** (`MuxCloseStranded`, reconnect.go:144). reconnect looks at `closing`
  and stores its new session afterwards. When Close sets `closing`, walks the backends
  and waits for the supervisors in between, the supervisor waits on a session that
  nobody closes. For an HTTP backend that lasts as long as the upstream stays up.
  awaitFirstConnect does it in the other order and has no such race.
* **The drain is not awaited** (`HTTPDrain`, mux.go:500). Serve returns when Shutdown
  begins, and the process goes on to exit while requests are still being drained.
* **An older token can replace a newer one in the file** (`TokenStale`, store.go:183),
  because a caller obtains its token before it takes the mutex under which it is
  compared. The next Token call repairs it; a restart before that finds a refresh token
  the server has replaced.
* **Two tools can get one name** (`ToolCollision`, mux.go:386). With backends `a` and
  `a__b`, the tool `b__x` of `a` and the tool `x` of `a__b` are both `a__b__x`; the later
  registration replaces the earlier, although README.md:26-28 says the prefix avoids
  collisions. So do the tools `_x` of `a` and `x` of `a_`, although no name there
  contains the separator. The cause is exactly that one backend's name, followed by the
  separator, begins another's with its separator: `CallsReachOwnerHolds` shows that
  nothing else collides, `CollisionsExist` that these always can.

## Divergences

What the documentation and the code say differently, met while modelling and not the
subject of a run:

* mcpmux.example.yaml:25-26 and signal_unix.go:19-20 say that skipped interactive
  backends are recovered with SIGUSR1; mux.go:215-216 says that only a restart
  recovers them, and so does `BackendLife`, which `Mux` implements.
* `authMu.Lock` (oauth.go:341) does not look at the context, so neither
  `oauthConnectTimeout` (backend.go:22-25) nor a shutdown (mux.go:510-512) gets a queued
  consent out while another one waits for its user. `CancelledReturnsOrHeldUp` states
  what does hold of the flow, `CloseReturnsOrHeldUp` what does of Close.
* mux.go:51-56 says that an attempt in flight cannot hold up shutdown, because its context
  is cancelled; an attempt that waits for a helper's run or for `authMu` can (`HeldUp`).
* An empty client id is documented as dynamic registration (backend.go:182-183); so is,
  unsaid, a `client_id_command` that prints nothing (exec.go:149-155): `HelperDefaults`.
* exec.go:30 says "execTimeout bounds a single credential-helper invocation." It kills the
  helper, but cmd.Run goes on reading its output until the last process that has the pipe
  is gone, and no WaitDelay is set (exec.go:160-165). `s.mu` is held meanwhile, and every
  request of the backend waits; `CallReturnsOrOrphaned` names the case.
* config.go:388-390 gives as a reason for the check of the endpoint that credentials are
  scoped to the parsed host, so that a malformed one would surface "as a silently
  unauthenticated request". `https://h:/mcp` passes the check and is one: url.Parse makes
  the host `h:` of it and http.NewRequest the host `h`, so that transport.go:21 takes the
  request for a redirect (`Withheld`).
* READY is sent before the address is bound (serve.go:77), although
  dist/mcpmux.service:41-42 says "and it is serving"; a bind that fails ends a process
  that was reported ready.
* `max_delay` is called the ceiling on the backoff (mcpmux.example.yaml:27), but the first
  wait of a pending backend is `jitter(pendingBaseDelay)` whatever it says; `MaxWait` has
  the longer of the two.

## What is proved

**MuxProofs**, for every finite or infinite set of backends of any kinds, every set
of session names that does not contain the nil session, and every set of modes in which
a retry policy belongs to a daemon (`KindAssumption`, `SessionAssumption`,
`ModesAssumption`):

* `TypeCorrect`: `Spec => []TypeOK`.
* `Invariance`: `Spec => []IInv`. None of the safety properties is inductive by itself;
  `IInv` adds, for each step of an owner, what it holds (`Held`: no session
  before the handshake, exactly one from there until it is lost, the old dead and the
  new one between RedialOK and Restore), that no interactive backend is on its way
  into a retry loop (`NoBrowserRetry`), and what Close has waited for at each of its
  steps (`Waited`).
* `NoNilSessionHolds`, `NoOrphanSessionHolds`, `CleanExitHolds` and
  `RetryOnlyPendingHolds`, from it.
* `ShutdownDescendsHolds`: `StepsLeft` ranks the steps of an owner, and once Close has
  begun each step lowers the rank, from seven at most. An attempt ranks above every step
  but the first, so none begins (`NoDialAfterCloseHolds`). This and the next are the part of
  `CloseReturnsOrHeldUp` that needs no fairness, for any number of backends: what is
  left to fairness is that an owner which can step does.
* `SubprocessesDoomedHolds`: when Close waits for the supervisors, every subprocess that
  runs is `Doomed`, so that only an HTTP session can strand Close. The invariant `Late`
  says under which context each open session was dialled, and that behind Close's loop
  only those dialled under the run context are left.
* `Refinement`: `Spec => ImplementsLife`. Each step of an owner is a step of its backend's
  view (`OwnerView`), a step of main or a signal leaves the views alone or ends the
  process (`MainView`), which `CleanExit`'s argument allows only without open sessions.

**BackoffProofs**, for all base delays, ceilings, limits, overruns, heartbeats and histories
(`DelayAssumption`, `LogAssumption`, `ClockAssumption`, `PolicyAssumption`; the cap of
the clocks is arbitrary too): `TypeCorrect`, the inductive invariant `ClocksHold`, which
says how old each clock can be at each step of either loop, and from it
`RecoversInTimeHolds` and `StaysVisibleHolds`. They are about any helper whose runs end:
the overrun is part of both bounds. The lemmas on `Jitter` and `NextDelay` say
that no delay leaves its ceiling by more than a fifth.

**ConfigProofs**, for every document: `ValidIsConnectable` (what Validate accepts comes out
as it was asked for, or is `Withheld` or `HelperDefaults`: transportFor's unchecked index
is safe, and an empty port is the only way to lose a static credential),
`PartitionIsDisjoint` (no backend is connected twice), `RetryAsWritten` (the retry policy's
durations are used as written).

**CatalogProofs**, for any backends and tools: `CatalogTypeCorrect`, and under `Separable`
(no backend's name with the separator begins another's; tool names are free)
`CallsReachOwnerHolds` and `ToolsOnlyAddedHolds`. `NamesDiffer` is where the condition is
used, by way of `StemsBegin`: two sequences that begin the same one begin each other.
`CollisionsExist` shows that no weaker condition would do. The inductive invariant says that register has put on the server exactly what it has left to add no
more (`Registered`) and that every name is its owner's (`OwnName`).

**ServeProofs**, for any set of documents, backends, tools and requests:
`ImplementsCatalog` (every step of Serve is a step of CatalogSpec or leaves it alone), so
that `ServeCallsReachOwner` and `ServeToolsOnlyAdded` are Catalog's theorems for the whole
program; `ServeInvariance` for start-up and drain (`BootOrder`, `Sides`, `Drain`, and `Hands`: a
backend being brought up is in the hand of a Connect that still runs), and from it
`ServeTypeCorrect`, `AcceptedHolds` (with ConfigProofs), `ReadySettledHolds`,
`NoneLeftAfterDrainHolds` and `OnlyConsentsAwaitedHolds`, the safety half of
`OnlyConsentsHoldExit`. `ServeRefinement` is `Spec => ImplementsLife`: Load is the view's
`Configure`, a step of register changes one backend's view as BackendLife allows
(`RegisterView`), everything else leaves the views alone.

**TokenProofs**, for any backends, any goroutines that call on them and any way to
spread the backends over two processes: `TokenTypeCorrect` and `NoLostUpdateHolds`. The
invariant says which mutexes a goroutine holds at each step (`Holders`, for the store's
mutex of its process and for the mutex of the source it saves for) and that what a Save
has read is what the file holds, unless it is `blind` (`UpToDate`). With the two backends
of the run a Save has one other label to displace; the theorem is about every label.
The second half of `NoLostUpdate`, that only another backend's blind Save takes the file
back where one goroutine calls (`Alone`), needs an order among all the tokens of a label
that are about (`Ordered`): the one in use is as new as any the file or a Save has, a
Save of the other process knows none newer than the file, and a Save of the backend's
own process none older than the file or that other Save. The last two hold each other
up, and rest on there being one writer in each of two processes (`OneOfEach`).
`FileFollowsSourceHolds` is the part of `EventuallyPersisted` that needs no fairness: at
rest, no token is missing from the file but for the reasons the property names. Its
invariant `FileInv` says that a source is named by an issued token and has compared none
before (`Known`), that a source a consent is about to install is nobody else's
(`AllNew`), that what is being saved is what its source compared last (`AllMarked`, which
is what comparing under `p.mu` is for), that a source nobody saves for is what the
file follows (`AllFollow`), and that a goroutine nobody races works on the token in use
(`AllUnraced`).

**BrowserProofs**, for any flows, authorizers and ports: `BrowserTypeCorrect`,
`OneConsentHolds`, `PortReleasedHolds` and `WaitingOnlyInFlowHolds`, from
`BrowserInvariance`: a flow on an ephemeral port never touches `authMu` (`Ephemeral`), the
server of a flow on a fixed port lives only between Listen and CloseServer
(`ServerOwned`), and the channel in `waiting` is that of a flow of the same authorizer
which has yet to reset it (`WaitingOwned`). `ConsentKept` is `Spec => ImplementsConsent`,
one lemma per kind of step; it needs that a redirect on its way, and one in a channel,
was asked for at the address of the flow it will end (`PickedHome`, `ChannelHome`),
whichever channel `waiting` held when it was picked. `AnswerKeptHolds` is the part of
`AnswerCounts` that needs no fairness: between Listen and its deferred calls a flow on a
fixed port has its own server (`OwnServer`) and its own channel (`OwnChannel`), so that
its user's answer goes there and stays (`Kept`). The one exception is in the statement:
the late redirect of a flow that has returned, on the same port, can fill the channel
first, and the answer is then dropped.

**ExecProofs**, for any finite set of requests, any lifetimes and any leeway:
`ExecTypeCorrect`, `NoNeedlessRunsHolds`, `RetryIsFreshHolds` and `LeewayHoldsAlways`, from
`ExecInvariance`. It counts: `Budget`, how many runs each request may still need, shows
that the bound on the runs never stands in a request's way; `Reasons`, that there is a
reason for each run, for each rejection not yet acted on and for the run that is due.
`Fresh` says which runs the cache and a run under way can be once a rejected token was
discarded, `Early` that a token leaves the cache before its leeway begins. `CredentialKept`
is `Spec => ImplementsCredential`: each step is a step of Credential or a stutter, given
that a run under way has begun (`Begun`) and that only a request which is sent again
remembers a rejection (`Unrejected`).

Only model-checked: everything that must eventually happen (liveness under fairness is
out of this prover's reach): `CloseReturnsOrHeldUp`, `SignalEndsWait`, `SelfHealing`,
`EventuallyUp`, `EventuallyPersisted`, `AnswerCounts`, `CancelledReturnsOrHeldUp`,
`CallReturnsOrOrphaned`, `ReadyDespiteConsent`, `OnlyConsentsHoldExit` and `ServingEnds`. Every invariant, every action property and every refinement of the
passing runs is proved.

Only proved: `OneConsent` and `RetryIsFresh`, which the refinements of `Consent` and
`Credential` imply, `NoDialAfterClose`, which `ShutdownDescends` implies,
`RetryOnlyPending`, most of which `BackendLife` says, and `OnlyConsentsAwaited`. The runs
check the stronger ones.

## What is not modelled

Tool calls themselves (they are atomic reads of `b.current()`, which `NoNilSession` is
about, followed by the SDK); the SDK and net/http beyond what the code relies on;
finding, reading, expanding and parsing the configuration file and the settings that
only change a text; the issuer round tripper, which rewrites one response and has no
state; logging beyond the throttling of warnings; launching a browser, scopes and client
metadata. Of ListTools only the first page is read (mux.go:330), and AddTool is taken to
accept every schema. A backend that is configured in two processes at once has two
grants in one slot of the file, which `TokenStore` leaves out.

## Plan

Written so far, in the order of importance: Mux and BackendLife with MuxProofs,
HTTPServe, TokenStore, BrowserAuth and Consent, ExecToken and Credential, Backoff,
Config, Catalog and Serve, each with its proofs (those of HTTPServe are in ServeProofs, which composes it). Left:

1. An abstract specification for TokenStore (a durable map that may fall behind, in the
   ways `FileFollowsSource` exempts) and its refinement.
2. TokenStore with one backend in both processes, with a grant of each.
