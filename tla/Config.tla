------------------------------- MODULE Config -------------------------------
(***************************************************************************)
(* What a configuration must say to be accepted, and what is made of an    *)
(* accepted one: defaults and Validate (internal/config/config.go), the    *)
(* dialer and the transport of a backend (internal/mux/dialer.go,          *)
(* backend.go, transport.go). A text is reduced to what the code asks of   *)
(* it: whether it is given and whether it parses.                          *)
(***************************************************************************)
EXTENDS Integers, Sequences

CONSTANTS Names,     \* backend names, NoName the empty one
          NoName,
          Hosts,     \* the hosts of endpoints, NoHost none
          NoHost

ASSUME NamesAssumption == NoName \in Names /\ NoHost \notin Hosts

\* A duration in the file: absent, not a duration, or a number of seconds.
Duration == [text : {"absent", "malformed", "written"}, seconds : Int]

\* given: the texts and argvs that are not empty; outcome: what the two commands do
\* when they are run, which no file says.
ValueCommands == {"client_id_command", "client_secret_command"}
Auth ==
    [type : {"", "none", "bearer", "header", "command", "oauth", "unknown"},
     given : SUBSET {"token", "header", "command", "client_id", "client_id_command",
                     "client_secret", "client_secret_command"},
     outcome : [ValueCommands -> {"value", "nothing", "error"}],
     ttl : Duration, callbackPort : Int]

\* endpoint: absent, not an absolute http(s) URL, or one; its host, and whether a
\* colon without a port follows it, which url.Parse keeps in Host.
Backend ==
    [name : Names, transport : {"", "command", "http", "unknown"}, command : BOOLEAN,
     endpoint : {"absent", "malformed", "url"}, host : Hosts \cup {NoHost},
     emptyPort : BOOLEAN, auth : Auth]

WellFormed(b) == b.endpoint = "url" => b.host # NoHost \/ b.emptyPort

Listen ==
    [transport : {"", "stdio", "http", "unknown"}, address : {"absent", "loopback", "exposed"},
     path : {"absent", "relative", "rooted"}]

ConnectRetry ==
    [enabled : {"absent", "true", "false"}, maxDelay : Duration, attemptTimeout : Duration]

Document ==
    {c \in [listen : Listen, retry : ConnectRetry, backends : Seq(Backend)] :
        \A i \in DOMAIN c.backends : WellFormed(c.backends[i])}

----------------------------------------------------------------------------
(* setDefaults and Validate. *)

Or(text, absent, default) == IF text = absent THEN default ELSE text

DefaultBackend(b) == [b EXCEPT !.auth.type = Or(@, "", "none")]

SetDefaults(c) ==
    [c EXCEPT !.listen = [transport |-> Or(@.transport, "", "stdio"),
                          address |-> Or(@.address, "absent", "loopback"),
                          path |-> Or(@.path, "absent", "rooted")],
              !.backends = [i \in DOMAIN @ |-> DefaultBackend(@[i])]]

\* ConnectRetry.validate, for each of its two durations.
DurationValid(d) == d.text = "absent" \/ (d.text = "written" /\ d.seconds > 0)

\* At most one of the literal and the command form.
OneForm(a, literal, command) == ~({literal, command} \subseteq a.given)

Ports == 0 .. 65535

AuthValid(a) ==
    /\ a.type \in {"none", "bearer", "header", "command", "oauth"}
    /\ a.type = "header" => "header" \in a.given
    /\ a.type = "command" => "command" \in a.given /\ a.ttl.text # "malformed"
    /\ a.type = "oauth" =>
         /\ a.callbackPort \in Ports
         /\ OneForm(a, "client_id", "client_id_command")
         /\ OneForm(a, "client_secret", "client_secret_command")

\* Mutant: an empty argv passes.
AnyCommand(b) ==
    /\ b.transport \in {"command", "http"}
    /\ b.transport = "http" => b.endpoint = "url" /\ AuthValid(b.auth)

BackendValid(b) ==
    /\ b.transport \in {"command", "http"}
    /\ b.transport = "command" => b.command
    /\ b.transport = "http" => b.endpoint = "url" /\ AuthValid(b.auth)

Valid(c) ==
    /\ c.listen.transport \in {"stdio", "http"}
    /\ c.listen.transport = "http" => c.listen.path = "rooted"
    /\ DurationValid(c.retry.maxDelay)
    /\ DurationValid(c.retry.attemptTimeout)
    /\ c.backends # << >>
    /\ \A i \in DOMAIN c.backends :
         /\ c.backends[i].name # NoName
         /\ \A j \in DOMAIN c.backends : c.backends[i].name = c.backends[j].name => i = j
         /\ BackendValid(c.backends[i])

IsEnabled(r) == r.enabled # "false"

\* parseDurationOr and TokenTTL.
ParseDurationOr(d, default) ==
    IF d.text = "written" /\ d.seconds > 0 THEN d.seconds ELSE default

MaxDelayOrDefault(r) == ParseDurationOr(r.maxDelay, 900)
AttemptTimeoutOrDefault(r) == ParseDurationOr(r.attemptTimeout, 120)
TokenTTL(a) == ParseDurationOr(a.ttl, 300)

----------------------------------------------------------------------------
(* Dialers and transports. *)

NewDialer(b) ==
    CASE b.transport = "command" -> "commandDialer"
      [] b.transport = "http" -> IF b.auth.type = "oauth" THEN "oauthDialer" ELSE "httpDialer"
      [] OTHER -> "unsupported"

IsInteractive(b) == NewDialer(b) = "oauthDialer"

\* PartitionBackends: the groups, as the names in them.
Partition(backends, interactive) ==
    {backends[i].name : i \in {j \in DOMAIN backends : IsInteractive(backends[j]) = interactive}}

\* HTTPHeader: whether a header is attached, which is told by its name.
HasHeader(a) == a.type = "bearer" \/ (a.type = "header" /\ "header" \in a.given)

\* The host a static credential is attached for: url.Parse's Host.
CredentialHost(b) ==
    IF b.endpoint = "url" THEN [host |-> b.host, emptyPort |-> b.emptyPort]
    ELSE [host |-> NoHost, emptyPort |-> FALSE]

\* The host of a request for the endpoint: http.NewRequest removes an empty port.
RequestHost(b) == [host |-> CredentialHost(b).host, emptyPort |-> FALSE]

\* headerRoundTripper sends the credential along; without a URL no request is sent.
Attached(b) == b.endpoint = "url" /\ RequestHost(b) = CredentialHost(b)

\* resolveValue: the literal, or what its command makes of it, or nothing.
ResolveValue(a, literal, command) ==
    IF literal \in a.given THEN "value" ELSE IF command \in a.given THEN a.outcome[command]
    ELSE "nothing"

ClientID(a) == ResolveValue(a, "client_id", "client_id_command")
ClientSecret(a) == ResolveValue(a, "client_secret", "client_secret_command")

\* transportFor: how the backend is reached and with which credential; "panic"
\* is an index out of an empty argv. A helper's argv is looked at when it runs.
\* Without a client id the OAuth handler registers a client of its own.
TransportFor(b) ==
    IF NewDialer(b) = "commandDialer" THEN IF b.command THEN "subprocess" ELSE "panic"
    ELSE IF NewDialer(b) = "unsupported" THEN "unsupported"
    ELSE IF b.auth.type = "command" THEN IF "command" \in b.auth.given THEN "helper" ELSE "panic"
    ELSE IF b.auth.type = "oauth" THEN
        IF "error" \in {ClientID(b.auth), ClientSecret(b.auth)} THEN "error"
        ELSE IF ClientID(b.auth) = "nothing" THEN "registered" ELSE "preregistered"
    ELSE IF HasHeader(b.auth) THEN IF Attached(b) THEN "credential" ELSE "credential withheld"
    ELSE "no credential"

----------------------------------------------------------------------------
(* What the operator asked for. *)

AsksForClient(a) == {"client_id", "client_id_command"} \cap a.given # {}

Asked(b) ==
    IF b.transport = "command" THEN "subprocess"
    ELSE CASE b.auth.type = "none" -> "no credential"
           [] b.auth.type \in {"bearer", "header"} -> "credential"
           [] b.auth.type = "command" -> "helper"
           [] b.auth.type = "oauth" -> IF AsksForClient(b.auth) THEN "preregistered" ELSE "registered"
           [] OTHER -> "nothing known"

Faithful(b) == TransportFor(b) = Asked(b)

\* A colon without a port keeps a static credential back.
Withheld(b) == b.transport = "http" /\ b.emptyPort /\ b.auth.type \in {"bearer", "header"}

\* The client id's command fails or prints nothing, or the secret's fails.
HelperDefaults(b) ==
    /\ b.transport = "http" /\ b.auth.type = "oauth"
    /\ \/ AsksForClient(b.auth) /\ ClientID(b.auth) # "value"
       \/ ClientSecret(b.auth) = "error"

\* All that can come between an accepted backend and what was asked for it.
Connectable(c) ==
    \A i \in DOMAIN c.backends :
        LET b == c.backends[i] IN Faithful(b) \/ Withheld(b) \/ HelperDefaults(b)
=============================================================================
