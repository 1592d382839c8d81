--------------------------- MODULE ConfigProofs ---------------------------
(***************************************************************************)
(* Theorems about Config, for every document: what Validate accepts is     *)
(* connected as configured, but for two exceptions, and the durations of   *)
(* an accepted configuration are used as they are written.                 *)
(***************************************************************************)
EXTENDS Config, TLAPS

\* transportFor, given a backend that Validate accepts and whose auth type has been
\* defaulted, attaches the credential that is asked for, but for the two exceptions.
LEMMA ValidIsFaithful ==
    ASSUME NEW b \in Backend, WellFormed(b), b.auth.type # "", BackendValid(b)
    PROVE  Faithful(b) \/ Withheld(b) \/ HelperDefaults(b)
<1>1. /\ b.transport \in {"", "command", "http", "unknown"}
      /\ b.auth.type \in {"", "none", "bearer", "header", "command", "oauth", "unknown"}
  BY DEF Backend, Auth
<1> USE DEF Faithful, Asked, TransportFor
<1>2. CASE b.transport = "command"
  <2>1. b.command
    BY <1>2 DEF BackendValid
  <2>2. NewDialer(b) = "commandDialer"
    BY <1>2 DEF NewDialer
  <2> QED BY <1>2, <2>1, <2>2
<1>3. CASE b.transport = "http"
  <2>1. b.endpoint = "url" /\ AuthValid(b.auth)
    BY <1>3 DEF BackendValid
  <2>2. ~b.emptyPort => Attached(b)
    <3> SUFFICES ASSUME ~b.emptyPort PROVE Attached(b)
      OBVIOUS
    <3>1. b.emptyPort = FALSE
      BY DEF Backend
    <3>2. CredentialHost(b) = [host |-> b.host, emptyPort |-> FALSE]
      BY <2>1, <3>1 DEF CredentialHost
    <3>3. CredentialHost(b).host = b.host
      <4>1. [host |-> b.host, emptyPort |-> FALSE].host = b.host
        OBVIOUS
      <4> QED BY <3>2, <4>1, Zenon
    <3>4. RequestHost(b) = CredentialHost(b)
      BY <3>2, <3>3 DEF RequestHost
    <3> QED BY <2>1, <3>4 DEF Attached
  <2>3. NewDialer(b) = IF b.auth.type = "oauth" THEN "oauthDialer" ELSE "httpDialer"
    BY <1>3 DEF NewDialer
  <2>4. CASE b.auth.type = "none"
    BY <1>3, <2>3, <2>4 DEF HasHeader
  <2>5. CASE b.auth.type = "bearer"
    BY <1>3, <2>2, <2>3, <2>5 DEF Withheld, HasHeader
  <2>6. CASE b.auth.type = "header"
    <3>1. "header" \in b.auth.given
      BY <2>1, <2>6 DEF AuthValid
    <3> QED BY <1>3, <2>2, <2>3, <2>6, <3>1 DEF Withheld, HasHeader
  <2>7. CASE b.auth.type = "command"
    <3>1. "command" \in b.auth.given
      BY <2>1, <2>7 DEF AuthValid
    <3> QED BY <1>3, <2>3, <2>7, <3>1
  <2>8. CASE b.auth.type = "oauth"
    <3>1. CASE AsksForClient(b.auth)
      <4>1. ClientID(b.auth) = "value" /\ ClientSecret(b.auth) # "error" => Faithful(b)
        BY <1>3, <2>3, <2>8, <3>1
      <4> QED BY <1>3, <2>8, <3>1, <4>1 DEF HelperDefaults
    <3>2. CASE ~AsksForClient(b.auth)
      <4>1. ClientID(b.auth) = "nothing"
        BY <3>2 DEF AsksForClient, ClientID, ResolveValue
      <4>2. ClientSecret(b.auth) # "error" => Faithful(b)
        BY <1>3, <2>3, <2>8, <3>2, <4>1
      <4> QED BY <1>3, <2>8, <4>2 DEF HelperDefaults
    <3> QED BY <3>1, <3>2
  <2>9. b.auth.type \in {"none", "bearer", "header", "command", "oauth"}
    BY <2>1 DEF AuthValid
  <2> QED BY <2>4, <2>5, <2>6, <2>7, <2>8, <2>9
<1>4. b.transport \in {"command", "http"}
  BY <1>1 DEF BackendValid
<1> QED BY <1>2, <1>3, <1>4

\* What setDefaults leaves of a document's backends.
LEMMA DefaultBackends ==
    ASSUME NEW c \in Document
    PROVE  /\ DOMAIN SetDefaults(c).backends = DOMAIN c.backends
           /\ \A i \in DOMAIN c.backends :
                LET b == SetDefaults(c).backends[i] IN
                /\ b \in Backend /\ WellFormed(b) /\ b.auth.type # ""
                /\ b.name = c.backends[i].name
<1>1. c.backends \in Seq(Backend) /\ \A i \in DOMAIN c.backends : WellFormed(c.backends[i])
  BY DEF Document
<1>2. SetDefaults(c).backends =
        [i \in DOMAIN c.backends |-> DefaultBackend(c.backends[i])]
  BY DEF SetDefaults, Document
<1>3. ASSUME NEW i \in DOMAIN c.backends
      PROVE  LET b == SetDefaults(c).backends[i] IN
             /\ b \in Backend /\ WellFormed(b) /\ b.auth.type # ""
             /\ b.name = c.backends[i].name
  <2> DEFINE a == c.backends[i]
             b == DefaultBackend(a)
  <2>1. a \in Backend /\ WellFormed(a)
    BY <1>1
  <2>2. /\ b.name = a.name /\ b.transport = a.transport /\ b.command = a.command
        /\ b.endpoint = a.endpoint /\ b.host = a.host /\ b.emptyPort = a.emptyPort
        /\ b.auth = [a.auth EXCEPT !.type = Or(@, "", "none")]
    BY <2>1 DEF Backend, DefaultBackend
  <2>3. b.auth \in Auth /\ b.auth.type # ""
    BY <2>1, <2>2 DEF Backend, Auth, Or
  <2>4. b \in Backend
    BY <2>1, <2>3 DEF Backend, DefaultBackend
  <2>5. WellFormed(b)
    BY <2>1, <2>2 DEF WellFormed
  <2> QED BY <1>2, <2>2, <2>3, <2>4, <2>5
<1> QED BY <1>2, <1>3

\* Every backend of an accepted configuration gets the transport, the credential and
\* the OAuth client it asks for (config.go:332-446, backend.go:155-222): no argv is
\* empty when it is run, no transport is unsupported, no credential withheld, unless
\* the endpoint has a colon without a port or a value command lets it down.
THEOREM ValidIsConnectable ==
    ASSUME NEW c \in Document, Valid(SetDefaults(c))
    PROVE  Connectable(SetDefaults(c))
<1> SUFFICES ASSUME NEW i \in DOMAIN SetDefaults(c).backends
             PROVE  LET b == SetDefaults(c).backends[i] IN
                    Faithful(b) \/ Withheld(b) \/ HelperDefaults(b)
  BY DEF Connectable
<1>1. BackendValid(SetDefaults(c).backends[i])
  BY DEF Valid
<1> QED BY <1>1, DefaultBackends, ValidIsFaithful

\* No backend of an accepted configuration is both connected before the process
\* is ready and kept for the background (PartitionBackends).
THEOREM PartitionIsDisjoint ==
    ASSUME NEW c, Valid(c)
    PROVE  Partition(c.backends, FALSE) \cap Partition(c.backends, TRUE) = {}
<1> SUFFICES ASSUME NEW n \in Partition(c.backends, FALSE), n \in Partition(c.backends, TRUE)
             PROVE  FALSE
  OBVIOUS
<1>1. PICK i \in DOMAIN c.backends :
        IsInteractive(c.backends[i]) = FALSE /\ n = c.backends[i].name
  BY DEF Partition
<1>2. PICK j \in DOMAIN c.backends :
        IsInteractive(c.backends[j]) = TRUE /\ n = c.backends[j].name
  BY DEF Partition
<1>3. i = j
  BY <1>1, <1>2 DEF Valid
<1> QED BY <1>1, <1>2, <1>3

\* The retry loop's delays are positive and are the ones written in an accepted
\* configuration (ConnectRetry.validate, config.go:406-420).
THEOREM RetryAsWritten ==
    ASSUME NEW r \in ConnectRetry, DurationValid(r.maxDelay), DurationValid(r.attemptTimeout)
    PROVE  /\ MaxDelayOrDefault(r) > 0 /\ AttemptTimeoutOrDefault(r) > 0
           /\ r.maxDelay.text = "written" => MaxDelayOrDefault(r) = r.maxDelay.seconds
           /\ r.attemptTimeout.text = "written"
                => AttemptTimeoutOrDefault(r) = r.attemptTimeout.seconds
BY DEF ConnectRetry, Duration, DurationValid, MaxDelayOrDefault, AttemptTimeoutOrDefault, ParseDurationOr
=============================================================================
