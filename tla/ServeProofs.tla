---------------------------- MODULE ServeProofs ----------------------------
(***************************************************************************)
(* Theorems about Serve. The catalog's are inherited from CatalogProofs by *)
(* showing that Serve implements CatalogSpec, the configuration's from     *)
(* ConfigProofs; start-up and the drain have an invariant of their own. On *)
(* it rests that Serve implements BackendLife, as Mux does.                *)
(***************************************************************************)
EXTENDS Serve, ConfigProofs, CatalogProofs

\* Nothing runs before the configuration is loaded, and RunE connects before
\* anything can end it.
BootOrder ==
    /\ boot = "load" => ~bg /\ \A b \in Backends : at[b] = "new"
    /\ boot = "connect" => process = "serving" /\ ~bg
    /\ shut => boot = "http"

\* A backend is connected by one side only; one that is retried was not skipped.
Sides ==
    /\ conf.plain \cap conf.browser = {}
    /\ \A b \in conf.plain : at[b] = "skipped" => ~conf.retry

\* A backend in hand is in the hand of a Connect that still runs.
Hands == \A b \in Backends : InHand(b) => Connects(b)

\* The listener is closed by the watcher, which leaves no request behind.
Drain ==
    /\ watcher = "select" => ~shut
    /\ NoneLeftAfterDrain

ServeInv == TypeOK /\ BootOrder /\ Sides /\ Hands /\ Accepted /\ ReadySettled /\ Drain

----------------------------------------------------------------------------

\* What RunE keeps of an accepted configuration: every backend on one side, none
\* amiss.
LEMMA UseAccepted ==
    ASSUME NEW c \in Documents, Valid(SetDefaults(c))
    PROVE  /\ Use(SetDefaults(c)) \in Conf
           /\ Use(SetDefaults(c)).amiss = {}
           /\ Use(SetDefaults(c)).plain \cap Use(SetDefaults(c)).browser = {}
<1> DEFINE d == SetDefaults(c)
<1>1. c \in Document
  BY DocumentsAssumption
<1>2. \A i \in DOMAIN d.backends : d.backends[i].name \in Backends
  BY <1>1, DefaultBackends, NamesAreBackends DEF Valid, Backend
<1>3. Partition(d.backends, FALSE) \in SUBSET Backends /\ Partition(d.backends, TRUE) \in SUBSET Backends
  BY <1>2 DEF Partition
<1>4. \A i \in DOMAIN d.backends :
        \/ Faithful(d.backends[i]) \/ Withheld(d.backends[i]) \/ HelperDefaults(d.backends[i])
  BY <1>1, ValidIsConnectable DEF Connectable
<1>5. Use(d).amiss = {}
  BY <1>4 DEF Use
<1>9. Use(d).helped \in SUBSET Backends
  BY <1>2 DEF Use
<1>6. Partition(d.backends, FALSE) \cap Partition(d.backends, TRUE) = {}
  BY PartitionIsDisjoint
<1>7. (d.listen.transport = "http") \in BOOLEAN /\ IsEnabled(d.retry) \in BOOLEAN
  BY DEF IsEnabled
<1>8. Use(d) \in Conf
  BY <1>3, <1>5, <1>7, <1>9 DEF Use, Conf
<1> QED BY <1>5, <1>6, <1>8 DEF Use

\* What the catalog sees of a step of Serve.
LEMMA CatalogStep == Next => CatalogNext \/ UNCHANGED catalogVars
<1> SUFFICES ASSUME Next PROVE CatalogNext \/ UNCHANGED catalogVars
  OBVIOUS
<1>1. ASSUME NEW b \in Backends, Register(b) PROVE CatalogNext
  BY <1>1 DEF Register, TakesUp, GivesUp, Adds, CatalogNext
<1>2. CASE Load \/ Refuse \/ Connected \/ Bind \/ BindFails \/ StdioEnds
  BY <1>2 DEF Load, Refuse, Connected, Bind, BindFails, StdioEnds
<1>3. CASE Signal \/ ServeHTTP \/ Exit \/ BgDone \/ Exited
  BY <1>3 DEF Signal, ServeHTTP, Exit, BgDone, Exited, vars
<1> QED BY <1>1, <1>2, <1>3 DEF Next

\* Start-up, the background Connect and the retry loops only ever take the steps
\* of register: Serve implements CatalogSpec.
THEOREM ImplementsCatalog == Spec => CatalogSpec
<1>1. Init => CatalogInit
  BY DEF Init
<1>2. [Next]_vars => [CatalogNext]_catalogVars
  BY CatalogStep DEF vars, catalogVars
<1> QED BY <1>1, <1>2, PTL DEF Spec, CatalogSpec

\* In the whole program, if no backend's name with the separator begins another's,
\* a call of a published tool reaches the backend that owns it.
THEOREM ServeCallsReachOwner == Separable /\ Spec => []CallsReachOwner
BY ImplementsCatalog, CallsReachOwnerHolds, PTL

\* And no backend that comes up while clients are served takes a tool away from
\* them or changes what it means.
THEOREM ServeToolsOnlyAdded == Separable /\ Spec => ToolsOnlyAdded
BY ImplementsCatalog, ToolsOnlyAddedHolds, PTL

----------------------------------------------------------------------------
(* The invariant of start-up and drain. *)

LEMMA ServeInit == Init => ServeInv
<1> SUFFICES ASSUME Init PROVE ServeInv
  OBVIOUS
<1>1. HTTP!TypeOK
  BY DEF Init, HTTP!Init, HTTP!TypeOK
<1>2. CatalogTypeOK
  BY InvInit DEF Init, CatalogInv
<1>3. TypeOK
  BY <1>1, <1>2 DEF Init, HTTP!Init, TypeOK, Conf
<1>h. Hands
  BY DEF Init, CatalogInit, Hands, InHand
<1>4. BootOrder
  BY DEF Init, HTTP!Init, CatalogInit, BootOrder
<1>5. Sides /\ Accepted
  BY DEF Init, Sides, Accepted
<1>6. ReadySettled
  BY DEF Init, ReadySettled
<1>7. Drain
  BY DEF Init, HTTP!Init, Drain, NoneLeftAfterDrain, HTTP!NoneLeftAfterDrain
<1> QED BY <1>3, <1>h, <1>4, <1>5, <1>6, <1>7 DEF ServeInv

\* The steps of RunE outside HTTP serving.
LEMMA BootSteps ==
    ASSUME ServeInv, Load \/ Refuse \/ Connected \/ Bind \/ BindFails \/ StdioEnds
    PROVE  ServeInv'
<1> USE DEF ServeInv, TypeOK, httpVars, catalogVars
<1>1. CASE Load
  <2>1. PICK c \in Documents : Valid(SetDefaults(c)) /\ conf' = Use(SetDefaults(c))
    BY <1>1 DEF Load
  <2>2. conf' \in Conf /\ conf'.amiss = {} /\ conf'.plain \cap conf'.browser = {}
    BY <2>1, UseAccepted
  <2>3. UNCHANGED <<bg, ctxDone, httpVars, catalogVars>> /\ boot' = "connect" /\ boot = "load"
        /\ process = "serving"
    BY <1>1 DEF Load
  <2>4. TypeOK'
    BY <2>2, <2>3 DEF HTTP!TypeOK, CatalogTypeOK
  <2>5. BootOrder'
    BY <2>3 DEF BootOrder, httpVars
  <2>7. \A b \in Backends : at'[b] = "new"
    BY <2>3 DEF BootOrder
  <2>h. Hands'
    BY <2>7 DEF Hands, InHand
  <2>6. Accepted' /\ ReadySettled'
    BY <2>2, <2>3, <2>7 DEF Accepted, ReadySettled, Conf
  <2>8. Sides'
    BY <2>2, <2>7 DEF Sides, Conf
  <2>9. Drain'
    BY <2>3 DEF Drain, NoneLeftAfterDrain, HTTP!NoneLeftAfterDrain, HTTP!Active
  <2> QED BY <2>4, <2>5, <2>6, <2>h, <2>8, <2>9
<1>2. CASE Refuse \/ BindFails \/ StdioEnds
  <2>1. PICK s \in {"failed", "closed"} : Return(s)
    BY <1>2 DEF Refuse, BindFails, StdioEnds
  <2>2. UNCHANGED <<boot, conf, bg, ctxDone, catalogVars>> /\ process = "serving"
        /\ boot \in {"load", "bind", "stdio"}
    BY <1>2 DEF Refuse, BindFails, StdioEnds
  <2>3. ~shut /\ ~shut'
    BY <2>1, <2>2 DEF BootOrder, Return
  <2>4. HTTP!TypeOK'
    BY <2>1, <2>2, <2>3 DEF Return, HTTP!TypeOK
  <2>5. TypeOK'
    <3>1. process' = "exited" => ~bg' /\ NothingInHand'
      BY <2>1, <2>2 DEF Return, BootOrder, NothingInHand, InHand
    <3> QED BY <2>2, <2>4, <3>1 DEF CatalogTypeOK
  <2>6. BootOrder'
    BY <2>1, <2>2, <2>3 DEF Return, BootOrder
  <2>7. Sides' /\ Hands' /\ Accepted' /\ ReadySettled'
    BY <2>2 DEF Sides, Hands, Connects, Sync, Background, Accepted, ReadySettled, Undecided, InHand
  <2>8. Drain'
    BY <2>1, <2>2, <2>3 DEF Drain, Return, NoneLeftAfterDrain, HTTP!NoneLeftAfterDrain
  <2> QED BY <2>5, <2>6, <2>7, <2>8
<1>3. CASE Connected
  <2>1. /\ UNCHANGED <<conf, ctxDone, httpVars, catalogVars>>
        /\ boot = "connect" /\ boot' \in {"bind", "stdio"} /\ bg' \in BOOLEAN
        /\ \A b \in Backends : Sync(b) => ~Undecided(b)
    BY <1>3 DEF Connected
  <2>2. process = "serving" /\ ~shut /\ ~bg
    BY <2>1 DEF BootOrder
  <2>h. \A b \in Backends : ~InHand(b)
    BY <2>1, <2>2 DEF Hands, Connects, Undecided
  <2>7. Hands'
    BY <2>1, <2>h DEF Hands, InHand
  <2>3. TypeOK' /\ BootOrder'
    BY <2>1, <2>2 DEF HTTP!TypeOK, CatalogTypeOK, BootOrder
  <2>4. Sides' /\ Accepted'
    BY <2>1 DEF Sides, Accepted
  <2>5. ReadySettled'
    BY <2>1 DEF ReadySettled, Sides, Sync, Undecided, InHand, Conf
  <2>6. Drain'
    BY <2>1, <2>2 DEF Drain, NoneLeftAfterDrain, HTTP!NoneLeftAfterDrain, HTTP!Active
  <2> QED BY <2>3, <2>4, <2>5, <2>6, <2>7
<1>4. CASE Bind
  <2>1. UNCHANGED <<conf, bg, ctxDone, httpVars, catalogVars>> /\ boot = "bind" /\ boot' = "http"
    BY <1>4 DEF Bind
  <2>2. TypeOK' /\ BootOrder'
    BY <2>1 DEF HTTP!TypeOK, CatalogTypeOK, BootOrder, NothingInHand, InHand
  <2>3. Sides' /\ Hands' /\ Accepted' /\ ReadySettled'
    BY <2>1 DEF Sides, Hands, Connects, Sync, Background, Accepted, ReadySettled, Undecided, InHand
  <2>4. Drain'
    BY <2>1 DEF Drain, NoneLeftAfterDrain, HTTP!NoneLeftAfterDrain, HTTP!Active
  <2> QED BY <2>2, <2>3, <2>4
<1> QED BY <1>1, <1>2, <1>3, <1>4

\* A step of HTTP serving keeps the types and the drain.
LEMMA DrainSteps ==
    ASSUME HTTP!TypeOK, Drain,
           \/ \E r \in Requests : HTTP!Accept(r) \/ HTTP!Answer(r)
           \/ HTTP!Cancel
           \/ HTTP!WatcherShutdown \/ HTTP!WatcherServeDone \/ HTTP!Drained \/ HTTP!GraceExpires
           \/ HTTP!ServeCloses \/ HTTP!ServeFails \/ HTTP!CloseMux \/ HTTP!Exit
    PROVE  HTTP!TypeOK' /\ Drain'
<1> USE DEF HTTP!TypeOK, Drain, NoneLeftAfterDrain, HTTP!NoneLeftAfterDrain, HTTP!Active
<1>1. ASSUME NEW r \in Requests, HTTP!Accept(r) PROVE HTTP!TypeOK' /\ Drain'
  BY <1>1 DEF HTTP!Accept
<1>2. ASSUME NEW r \in Requests, HTTP!Answer(r) PROVE HTTP!TypeOK' /\ Drain'
  BY <1>2 DEF HTTP!Answer
<1>3. CASE HTTP!Cancel
  BY <1>3 DEF HTTP!Cancel
<1>4. CASE HTTP!WatcherShutdown
  BY <1>4 DEF HTTP!WatcherShutdown
<1>5. CASE HTTP!WatcherServeDone
  BY <1>5 DEF HTTP!WatcherServeDone, HTTP!ServeDone
<1>6. CASE HTTP!Drained
  BY <1>6 DEF HTTP!Drained
<1>7. CASE HTTP!GraceExpires
  BY <1>7 DEF HTTP!GraceExpires, HTTP!CutActive
<1>8. CASE HTTP!ServeCloses \/ HTTP!ServeFails
  BY <1>8 DEF HTTP!ServeCloses, HTTP!ServeFails
<1>9. CASE HTTP!CloseMux
  BY <1>9 DEF HTTP!CloseMux, HTTP!ServeDone
<1>10. CASE HTTP!Exit
  BY <1>10 DEF HTTP!Exit, HTTP!CutActive
<1> QED BY <1>1, <1>2, <1>3, <1>4, <1>5, <1>6, <1>7, <1>8, <1>9, <1>10

\* HTTP serving as a step of Serve.
LEMMA ServingSteps ==
    ASSUME ServeInv, Signal \/ ServeHTTP \/ Exit
    PROVE  ServeInv'
<1>1. UNCHANGED <<boot, conf, bg, catalogVars>>
  BY DEF Signal, ServeHTTP, Exit
<1>2. HTTP!TypeOK' /\ Drain'
  BY DrainSteps DEF ServeInv, TypeOK, Signal, ServeHTTP, Exit
<1>3. CatalogTypeOK'
  BY <1>1 DEF ServeInv, TypeOK, CatalogTypeOK, catalogVars
<1>4. process' = process \/ boot = "http" \/ (Exit /\ process = "closing" /\ ~bg)
  BY DEF Signal, ServeHTTP, Exit, MayExit, HTTP!Cancel, HTTP!Exit
<1>5. process' = "exited" => ~bg' /\ NothingInHand'
  <2>1. CASE Exit
    <3>1. ~bg /\ boot # "connect" /\ \A b \in Backends : at[b] # "late"
      BY <2>1 DEF Exit, MayExit, HTTP!Exit, ServeInv, BootOrder
    <3>2. \A b \in Backends : ~InHand(b)
      BY <3>1 DEF ServeInv, Hands, Connects
    <3> QED BY <1>1, <3>1, <3>2 DEF NothingInHand, InHand, catalogVars
  <2>2. CASE Signal
    BY <1>1, <2>2 DEF Signal, HTTP!Cancel, ServeInv, TypeOK, NothingInHand, InHand, catalogVars
  <2>3. CASE ServeHTTP
    <3>1. process' = "exited" => process = "exited"
      BY <2>3 DEF ServeHTTP, HTTP!Accept, HTTP!Answer, HTTP!WatcherShutdown,
         HTTP!WatcherServeDone, HTTP!Drained, HTTP!GraceExpires, HTTP!ServeCloses,
         HTTP!ServeFails, HTTP!CloseMux
    <3> QED BY <1>1, <3>1 DEF ServeInv, TypeOK, NothingInHand, InHand, catalogVars
  <2> QED BY <2>1, <2>2, <2>3
<1>6. TypeOK'
  BY <1>1, <1>2, <1>3, <1>5 DEF ServeInv, TypeOK
<1>7. shut' = shut \/ boot = "http"
  BY DEF Signal, ServeHTTP, Exit, HTTP!Cancel, HTTP!Exit
<1>8. BootOrder'
  BY <1>1, <1>4, <1>7 DEF ServeInv, BootOrder, catalogVars
<1>9. Sides' /\ Hands' /\ Accepted' /\ ReadySettled'
  BY <1>1 DEF ServeInv, Sides, Hands, Connects, Sync, Background, Accepted, ReadySettled,
     Undecided, InHand, catalogVars
<1> QED BY <1>2, <1>6, <1>8, <1>9 DEF ServeInv

\* Registrations: a backend without a browser is taken up before RunE goes on.
LEMMA RegisterSteps ==
    ASSUME ServeInv, NEW b \in Backends, Register(b)
    PROVE  ServeInv'
<1> USE DEF ServeInv
<1>1. UNCHANGED <<boot, conf, bg, ctxDone, httpVars>>
  BY DEF Register
<1>2. CatalogTypeOK'
  <2>1. CatalogNext
    BY DEF Register, TakesUp, GivesUp, Adds, CatalogNext
  <2> QED BY <2>1, TypeNext DEF TypeOK
<1>3. TypeOK'
  <2>1. process' # "exited"
    BY <1>1 DEF Register, httpVars
  <2> QED BY <1>1, <1>2, <2>1 DEF TypeOK, httpVars, HTTP!TypeOK
<1>4. Drain'
  BY <1>1 DEF Drain, httpVars, NoneLeftAfterDrain, HTTP!NoneLeftAfterDrain, HTTP!Active
<1>5. at \in [Backends -> {"new", "trying", "adding", "up", "pending", "late", "skipped"}]
  BY DEF TypeOK, CatalogTypeOK
<1>6. boot # "load"
  BY <1>5 DEF Register, TakesUp, Connects, GivesUp, Adds, BootOrder, Fails, Listed, Publish, AddTool
<1>7. BootOrder'
  BY <1>1, <1>6 DEF BootOrder, httpVars
<1>8. \A c \in Backends : c # b => at'[c] = at[c]
  BY <1>5 DEF Register, TakesUp, GivesUp, Adds, Begin, Fails, Listed, Publish, AddTool, Become
<1>9. /\ at'[b] = "skipped" /\ at[b] # "skipped" => ~(conf.retry /\ b \notin conf.browser)
      /\ at'[b] \in {"new", "trying", "adding"} =>
            at[b] \in {"trying", "adding"} \/ (at[b] = "new" /\ Connects(b))
  BY <1>5 DEF Register, TakesUp, GivesUp, Adds, Begin, Fails, Listed, Publish, AddTool, Become
<1>10. Sides'
  BY <1>1, <1>8, <1>9 DEF Sides, TypeOK, Conf
<1>h. Hands'
  BY <1>1, <1>8, <1>9 DEF Hands, Connects, Sync, Background, InHand
<1>11. ReadySettled'
  <2>1. boot = "connect" /\ b \in conf.browser => at'[b] = "new"
    <3> SUFFICES ASSUME boot = "connect", b \in conf.browser PROVE at'[b] = "new"
      OBVIOUS
    <3>1. at[b] = "new" /\ ~Connects(b)
      BY DEF ReadySettled, BootOrder, Connects, Sync, Sides
    <3>2. ~TakesUp(b) /\ ~GivesUp(b) /\ ~Adds(b)
      BY <3>1 DEF TakesUp, GivesUp, Fails, Adds, Listed, Publish, AddTool
    <3> QED BY <3>2 DEF Register
  <2>2. boot \in {"bind", "http", "stdio"} /\ b \in conf.plain
          => ~Undecided(b)' /\ (at'[b] = "skipped" => ~conf.retry)
    BY <1>5, <1>9 DEF ReadySettled, Undecided, InHand, Sides, Connects, Sync, Background
  <2> QED BY <1>1, <1>8, <2>1, <2>2 DEF ReadySettled, Undecided, InHand, TypeOK, Conf
<1>12. Accepted'
  BY <1>1 DEF Accepted
<1> QED BY <1>3, <1>4, <1>7, <1>10, <1>h, <1>11, <1>12

LEMMA ServeNext == ServeInv /\ [Next]_vars => ServeInv'
<1> SUFFICES ASSUME ServeInv, [Next]_vars PROVE ServeInv'
  OBVIOUS
<1>1. CASE BgDone
  <2>1. /\ bg /\ ~bg' /\ UNCHANGED <<boot, conf, ctxDone, httpVars, catalogVars>>
        /\ \A b \in Backends : Background(b) => ~Undecided(b)
    BY <1>1 DEF BgDone
  <2>2. \A b \in Backends : ~InHand(b)
    BY <2>1 DEF ServeInv, BootOrder, Hands, Connects, Undecided
  <2>3. Hands'
    BY <2>1, <2>2 DEF Hands, InHand, catalogVars
  <2>4. TypeOK'
    <3>1. process' # "exited"
      BY <2>1 DEF ServeInv, TypeOK, httpVars
    <3>2. HTTP!TypeOK' /\ CatalogTypeOK'
      BY <2>1 DEF ServeInv, TypeOK, HTTP!TypeOK, CatalogTypeOK, httpVars, catalogVars
    <3>3. boot' = boot /\ conf' = conf /\ bg' = FALSE /\ TypeOK
      BY <2>1 DEF ServeInv, TypeOK
    <3> QED BY <3>1, <3>2, <3>3 DEF TypeOK
  <2>6. BootOrder' /\ Sides'
    BY <2>1 DEF ServeInv, BootOrder, Sides, httpVars, catalogVars
  <2>5. Accepted' /\ ReadySettled' /\ Drain'
    BY <2>1 DEF ServeInv, Accepted, ReadySettled, Drain, NoneLeftAfterDrain,
       HTTP!NoneLeftAfterDrain, HTTP!Active, Undecided, InHand, httpVars, catalogVars
  <2> QED BY <2>3, <2>4, <2>5, <2>6 DEF ServeInv
<1>2. CASE UNCHANGED vars
  BY <1>2 DEF vars, ServeInv, TypeOK, BootOrder, Sides, Accepted, ReadySettled, Drain,
     NoneLeftAfterDrain, HTTP!NoneLeftAfterDrain, HTTP!Active, HTTP!TypeOK, CatalogTypeOK,
     Hands, Connects, Sync, Background, NothingInHand, Undecided, InHand, httpVars, catalogVars
<1>3. CASE Exited
  BY <1>2, <1>3 DEF Exited
<1> QED BY <1>1, <1>2, <1>3, BootSteps, ServingSteps, RegisterSteps DEF Next

THEOREM ServeInvariance == Spec => []ServeInv
BY ServeInit, ServeNext, PTL DEF Spec

\* Every variable of the program keeps its type, and the process does not end
\* while its background Connect still runs or a backend is being registered.
THEOREM ServeTypeCorrect == Spec => []TypeOK
<1>1. ServeInv => TypeOK
  BY DEF ServeInv
<1> QED BY <1>1, ServeInvariance, PTL

\* Whatever the configurations: no backend of one that is accepted is started
\* without the transport, the credential and the OAuth client it asks for, but for
\* the exceptions of Accepted.
THEOREM AcceptedHolds == Spec => []Accepted
<1>1. ServeInv => Accepted
  BY DEF ServeInv
<1> QED BY <1>1, ServeInvariance, PTL

\* When READY is sent no backend that needs no human is undecided, under a retry
\* policy none has been lost, and no browser backend has been begun.
THEOREM ReadySettledHolds == Spec => []ReadySettled
<1>1. ServeInv => ReadySettled
  BY DEF ServeInv
<1> QED BY <1>1, ServeInvariance, PTL

\* A process on its way out has no backend in hand but an interactive one: nothing but
\* a consent can keep OnlyConsentsHoldExit's background Connect.
OnlyConsentsAwaited ==
    process # "serving" => \A b \in Backends : InHand(b) => bg /\ b \in conf.browser

\* So it is on every path out of RunE: nothing that Connect does under the start-up
\* is left unfinished when m.Close begins (serve.go:40-78; mux.go:158-204).
THEOREM OnlyConsentsAwaitedHolds == Spec => []OnlyConsentsAwaited
<1>1. ServeInv => OnlyConsentsAwaited
  BY DEF ServeInv, BootOrder, Hands, Connects, Background, OnlyConsentsAwaited
<1> QED BY <1>1, ServeInvariance, PTL

\* For any number of requests, none is left when the watcher has gone after a
\* drain, and none has been cut before the grace period or the process ended.
THEOREM NoneLeftAfterDrainHolds == Spec => []NoneLeftAfterDrain
<1>1. ServeInv => NoneLeftAfterDrain
  BY DEF ServeInv, Drain
<1> QED BY <1>1, ServeInvariance, PTL

----------------------------------------------------------------------------
(* Serve implements BackendLife.                                           *)

\* Only a registration and the configuration change what the user sees.
LEMMA ViewStays ==
    ASSUME UNCHANGED <<conf, at>>
    PROVE  UNCHANGED Life!vars
<1>1. [b \in Backends |-> View(b)]' = [b \in Backends |-> View(b)]
  BY DEF View
<1> QED BY <1>1 DEF Life!vars

\* Before the configuration is loaded nothing has been decided.
LEMMA LoadConfigures ==
    ASSUME ServeInv, ServeInv', Load
    PROVE  Life!Next
<1>1. boot = "load" /\ UNCHANGED catalogVars
  BY DEF Load
<1>2. \A b \in Backends : at[b] = "new" /\ at'[b] = "new"
  BY <1>1 DEF ServeInv, BootOrder, catalogVars
<1>3. \A b \in Backends : View(b) = "new" /\ View(b)' = "new"
  BY <1>2 DEF View
<1>4. conf'.browser \in SUBSET Backends /\ conf'.retry \in BOOLEAN
  BY DEF ServeInv, TypeOK, Conf
<1>5. Life!Configure
  BY <1>3, <1>4 DEF Life!Configure
<1> QED BY <1>5 DEF Life!Next

\* What a registration may do to the view of b.
ViewStep(b) ==
    \/ View(b)' = View(b)
    \/ View(b) \in {"new", "pending"} /\ View(b)' = "up"
    \/ View(b) = "new" /\ conf.retry /\ b \notin conf.browser /\ View(b)' = "pending"
    \/ View(b) = "new" /\ (~conf.retry \/ b \in conf.browser) /\ View(b)' = "skipped"

LEMMA RegisterView ==
    ASSUME ServeInv, NEW b \in Backends, Register(b)
    PROVE  /\ ViewStep(b)
           /\ \A c \in Backends : c # b => View(c)' = View(c)
           /\ conf' = conf
<1>1. at \in [Backends -> {"new", "trying", "adding", "up", "pending", "late", "skipped"}]
  BY DEF ServeInv, TypeOK, CatalogTypeOK
<1> USE <1>1
<1>2. conf' = conf
  BY DEF Register
<1>3. CASE TakesUp(b)
  <2>1. at[b] = "new" /\ at' = [at EXCEPT ![b] = "trying"]
    BY <1>3 DEF TakesUp, Begin, Become
  <2> QED BY <1>2, <2>1 DEF View, ViewStep
<1>4. CASE GivesUp(b)
  <2>1. /\ at[b] = "trying"
        /\ \E s \in {"skipped", "pending"} : at' = [at EXCEPT ![b] = s]
        /\ at'[b] = IF conf.retry /\ b \notin conf.browser THEN "pending" ELSE "skipped"
    BY <1>4 DEF GivesUp, Fails, Become
  <2>2. View(b) = "new" /\ View(b)' = at'[b]
    BY <2>1 DEF View
  <2>3. \A c \in Backends : c # b => at'[c] = at[c]
    BY <2>1
  <2>4. ViewStep(b)
    BY <2>1, <2>2 DEF ViewStep
  <2> QED BY <1>2, <2>3, <2>4 DEF View
<1>5. CASE Adds(b)
  <2>1. \/ at[b] = "trying" /\ at' = [at EXCEPT ![b] = "adding"]
        \/ at[b] = "pending" /\ at' = [at EXCEPT ![b] = "late"]
        \/ at[b] \in {"adding", "late"} /\ at' = [at EXCEPT ![b] = "up"]
        \/ at' = at
    BY <1>5 DEF Adds, Listed, Publish, AddTool, Become
  <2>2. \A c \in Backends : c # b => at'[c] = at[c]
    BY <2>1
  <2>3. ViewStep(b)
    BY <2>1 DEF View, ViewStep
  <2> QED BY <1>2, <2>2, <2>3 DEF View
<1> QED BY <1>3, <1>4, <1>5 DEF Register

\* When one backend moves by such a step and the others do not, the whole takes a
\* step of BackendLife.
LEMMA OneViewSteps ==
    ASSUME NEW b \in Backends, ViewStep(b), conf' = conf,
           \A c \in Backends : c # b => View(c)' = View(c)
    PROVE  [Life!Next]_(Life!vars)
<1> DEFINE state == [c \in Backends |-> View(c)]
<1>1. state' = [state EXCEPT ![b] = View(b)']
  OBVIOUS
<1>2. state[b] = View(b)
  OBVIOUS
<1>3. CASE View(b)' = View(b)
  <2>1. state' = state
    BY <1>3
  <2> QED BY <2>1 DEF Life!vars
<1>4. CASE View(b)' # View(b)
  <2> HIDE DEF state
  <2> QED BY <1>1, <1>2, <1>4 DEF ViewStep, Life!Next, Life!PublishTools, Life!KeepTrying,
             Life!GiveUp, Life!Become, state
<1> QED BY <1>3, <1>4

LEMMA NextView ==
    ASSUME ServeInv, ServeInv', [Next]_vars
    PROVE  [Life!Next]_(Life!vars)
<1>1. CASE Load
  BY <1>1, LoadConfigures
<1>2. ASSUME NEW b \in Backends, Register(b) PROVE [Life!Next]_(Life!vars)
  BY <1>2, RegisterView, OneViewSteps
<1>3. CASE Refuse \/ Connected \/ Bind \/ BindFails \/ StdioEnds
  BY <1>3, ViewStays DEF Refuse, Connected, Bind, BindFails, StdioEnds, catalogVars
<1>4. CASE Signal \/ ServeHTTP \/ Exit \/ BgDone
  BY <1>4, ViewStays DEF Signal, ServeHTTP, Exit, BgDone, catalogVars
<1>5. CASE UNCHANGED vars
  BY <1>5, ViewStays DEF vars, catalogVars
<1> QED BY <1>1, <1>2, <1>3, <1>4, <1>5 DEF Next, Exited

\* For any backends and configurations, Serve implements BackendLife: no
\* registration, signal or exit takes back a published backend, retries one that
\* needs a browser or revives one that was skipped.
THEOREM ServeRefinement == Spec => ImplementsLife
<1>1. Init => Life!Init
  <2> SUFFICES ASSUME Init PROVE Life!Init
    OBVIOUS
  <2>1. \A b \in Backends : View(b) = "new"
    BY DEF Init, CatalogInit, View
  <2>2. conf.browser = {} /\ conf.retry = FALSE
    BY DEF Init
  <2> QED BY <2>1, <2>2 DEF Life!Init
<1>2. ServeInv /\ ServeInv' /\ [Next]_vars => [Life!Next]_(Life!vars)
  BY NextView
<1> QED BY <1>1, <1>2, ServeInvariance, PTL DEF Spec, ImplementsLife, Life!Spec
=============================================================================
