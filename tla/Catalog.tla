------------------------------ MODULE Catalog ------------------------------
(***************************************************************************)
(* The tools on the proxy server (internal/mux/mux.go:310-437): register   *)
(* adds a backend's tools one by one while clients are being served and    *)
(* other backends register, and publishes them to Catalog at the end.      *)
(* Names are sequences of characters here, for toolName can mix them up.   *)
(***************************************************************************)
EXTENDS Sequences, Naturals

CONSTANTS Backends,
          Chars,    \* the characters of a name
          Prefix,   \* Prefix[b]: the backend's name
          Tools     \* Tools[b]: the names in the backend's answer to ListTools

AllTools == UNION {Tools[b] : b \in Backends}
Owner == [backend : Backends, tool : AllTools]

ASSUME CatalogAssumption ==
    /\ "_" \in Chars
    /\ \A b \in Backends : Prefix[b] \in Seq(Chars)
    /\ \A b \in Backends : Tools[b] \subseteq Seq(Chars)
    /\ \A b, c \in Backends : Prefix[b] = Prefix[c] => b = c

VARIABLES
    at,        \* "new", "trying" and "adding" by a connector, "up", "skipped",
               \* "pending" and "late": adding by its retry loop
    left,      \* the tools register has still to add
    server,    \* the server's tools: the handler behind each name
    tools      \* b.tools, as Catalog reads them

catalogVars == <<at, left, server, tools>>

CatalogTypeOK ==
    /\ at \in [Backends -> {"new", "trying", "adding", "up", "pending", "late", "skipped"}]
    /\ left \in [Backends -> SUBSET AllTools]
    /\ server \in [DOMAIN server -> Owner]
    /\ tools = [b \in Backends |-> IF at[b] = "up" THEN Tools[b] ELSE {}]

CatalogInit ==
    /\ at = [b \in Backends |-> "new"]
    /\ left = [b \in Backends |-> {}]
    /\ server = [n \in {} |-> {}]
    /\ tools = [b \in Backends |-> {}]

\* Mutant: the tools keep their own names.
BareName(b, tool) == tool

Separator == <<"_", "_">>

ToolName(b, tool) == Prefix[b] \o Separator \o tool

Become(b, state) == at' = [at EXCEPT ![b] = state]

\* connectOne takes up b.
Begin(b) ==
    /\ at[b] = "new"
    /\ Become(b, "trying")
    /\ UNCHANGED <<left, server, tools>>

\* connectOne gives b up or keeps it for its retry loop.
Fails(b) ==
    /\ at[b] = "trying"
    /\ Become(b, "skipped") \/ Become(b, "pending")
    /\ UNCHANGED <<left, server, tools>>

\* ListTools answers, to connectOne or to the retry loop.
Listed(b) ==
    /\ at[b] \in {"trying", "pending"}
    /\ Become(b, IF at[b] = "trying" THEN "adding" ELSE "late")
    /\ left' = [left EXCEPT ![b] = Tools[b]]
    /\ UNCHANGED <<server, tools>>

\* AddTool: a tool of the same name is replaced; the handler keeps the backend
\* and the tool's own name.
AddTool(b, tool) ==
    LET n == ToolName(b, tool) IN
    /\ at[b] \in {"adding", "late"}
    /\ tool \in left[b]
    /\ left' = [left EXCEPT ![b] = @ \ {tool}]
    /\ server' = [m \in DOMAIN server \cup {n} |->
                    IF m = n THEN [backend |-> b, tool |-> tool] ELSE server[m]]
    /\ UNCHANGED <<at, tools>>

\* Mutant: the catalog is published before all tools are on the server.
PublishEarly(b) ==
    /\ at[b] \in {"adding", "late"}
    /\ Become(b, "up")
    /\ tools' = [tools EXCEPT ![b] = Tools[b]]
    /\ UNCHANGED <<left, server>>

\* Under m.mu: b.tools and b.registered.
Publish(b) ==
    /\ at[b] \in {"adding", "late"} /\ left[b] = {}
    /\ Become(b, "up")
    /\ tools' = [tools EXCEPT ![b] = Tools[b]]
    /\ UNCHANGED <<left, server>>

CatalogNext ==
    \E b \in Backends :
        \/ Begin(b) \/ Fails(b) \/ Listed(b) \/ Publish(b)
        \/ \E tool \in Tools[b] : AddTool(b, tool)

CatalogSpec == CatalogInit /\ [][CatalogNext]_catalogVars

----------------------------------------------------------------------------
(* Properties. *)

Begins(p, n) == Len(p) <= Len(n) /\ \A i \in 1 .. Len(p) : n[i] = p[i]

\* No backend's name with the separator begins another's (tool names may contain
\* it, and so may the name of a backend): neither "a__b" nor "a_" is beside "a".
Separable ==
    \A b, c \in Backends :
        Begins(Prefix[b] \o Separator, Prefix[c] \o Separator) => b = c

\* A call reaches the backend that owns the tool, and every tool a backend has
\* published can be called (README.md:26-28), whatever registers meanwhile.
CallsReachOwner ==
    \A b \in Backends : \A tool \in tools[b] :
        /\ ToolName(b, tool) \in DOMAIN server
        /\ server[ToolName(b, tool)] = [backend |-> b, tool |-> tool]

\* What a client has seen stays callable and keeps its meaning while late
\* backends register (tools/list_changed only ever adds, mux.go:151-152).
ToolsOnlyAdded ==
    [][\A n \in DOMAIN server : n \in DOMAIN server' /\ server'[n] = server[n]]_catalogVars
=============================================================================
