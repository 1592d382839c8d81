------------------------------ MODULE MCServe ------------------------------
(* Two backends: one in every configuration the code tells apart, the other *)
(* in a few, and every way to listen and to retry.                          *)
EXTENDS Serve

\* The name of b contains the separator, as does that of a tool of a; the tool x is
\* in both.
MCPrefix == [n \in Backends |-> IF n = "a" THEN <<"a">> ELSE <<"b", "_", "_", "a">>]
MCTools ==
    [n \in Backends |-> IF n = "a" THEN {<<"x">>, <<"b", "_", "_", "a", "x">>} ELSE {<<"x">>}]

ASSUME NamesSeparable == Separable

Absent == [text |-> "absent", seconds |-> 0]
Malformed == [text |-> "malformed", seconds |-> 0]
Written(s) == [text |-> "written", seconds |-> s]

Auths ==
    [type : {"", "none", "bearer", "header", "command", "oauth", "unknown"},
     given : {{}, {"token"}, {"header"}, {"command"}, {"client_id"},
              {"client_id", "client_id_command"}, {"client_secret", "client_secret_command"}},
     outcome : {[c \in ValueCommands |-> "value"]},
     ttl : {Absent, Malformed, Written(60)}, callbackPort : {-1, 0, 65535, 65536}]

OpenAuth ==
    [type |-> "", given |-> {}, outcome |-> [c \in ValueCommands |-> "value"], ttl |-> Absent,
     callbackPort |-> 0]
OAuth == [OpenAuth EXCEPT !.type = "oauth"]

\* Every outcome of the commands that an OAuth backend takes its client from.
ClientAuths ==
    {[OAuth EXCEPT !.given = given, !.outcome = outcome] :
        given \in SUBSET ValueCommands, outcome \in [ValueCommands -> {"value", "nothing", "error"}]}

HTTPBackend(n, auth) ==
    [name |-> n, transport |-> "http", command |-> FALSE, endpoint |-> "url", host |-> "h",
     emptyPort |-> FALSE, auth |-> auth]

FirstBackends ==
    {HTTPBackend("a", auth) : auth \in Auths \cup ClientAuths} \cup
    {bb \in [name : {"a", ""}, transport : {"", "command", "http", "unknown"}, command : BOOLEAN,
             endpoint : {"absent", "malformed", "url"}, host : {"h", NoHost}, emptyPort : BOOLEAN,
             auth : {OpenAuth, [OpenAuth EXCEPT !.type = "bearer"]}] : WellFormed(bb)}

OtherBackends == {HTTPBackend("b", OpenAuth), HTTPBackend("b", OAuth), HTTPBackend("a", OpenAuth)}

Listens == [transport : {"", "stdio", "http", "unknown"}, address : {"absent", "exposed"},
            path : {"absent", "relative", "rooted"}]

Retries ==
    {[enabled |-> e, maxDelay |-> Absent, attemptTimeout |-> Absent] : e \in {"absent", "false"}} \cup
    [enabled : {"true"}, maxDelay : {Malformed, Written(0), Written(60)}, attemptTimeout : {Absent, Written(-1)}]

\* Every first backend alone and beside another, and every way to listen and to
\* retry with some of them.
MCDocuments ==
    [listen : {[transport |-> "http", address |-> "absent", path |-> "absent"]},
     retry : {[enabled |-> "absent", maxDelay |-> Absent, attemptTimeout |-> Absent]},
     backends : {<<f>> : f \in FirstBackends} \cup {<<f, o>> : f \in FirstBackends, o \in OtherBackends}]
    \cup
    [listen : Listens, retry : Retries,
     backends : {<< >>, <<HTTPBackend("a", OpenAuth)>>, <<HTTPBackend("a", OAuth)>>}
                \cup {<<HTTPBackend("a", OpenAuth), o>> : o \in OtherBackends}
                \cup {<<HTTPBackend("a", OAuth), o>> : o \in OtherBackends}]
=============================================================================
