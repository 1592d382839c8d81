--------------------------- MODULE CatalogProofs ---------------------------
(***************************************************************************)
(* Theorems about Catalog: as long as no backend's name with the separator *)
(* begins another's, and whatever the tools are called, every published    *)
(* tool reaches its backend and no registration changes what another has   *)
(* put on the server; and that condition is the weakest.                   *)
(***************************************************************************)
EXTENDS Catalog, SequenceTheorems, TLAPS

\* The handler behind the name of b's tool is that tool's.
Reachable(b, tool) ==
    /\ ToolName(b, tool) \in DOMAIN server
    /\ server[ToolName(b, tool)] = [backend |-> b, tool |-> tool]

\* register has put on the server what is no longer left, and nothing else is
\* there under that name.
Registered ==
    \A b \in Backends : \A tool \in Tools[b] :
        at[b] = "up" \/ (at[b] \in {"adding", "late"} /\ tool \notin left[b]) => Reachable(b, tool)

OwnName ==
    \A n \in DOMAIN server :
        /\ server[n].tool \in Tools[server[n].backend]
        /\ n = ToolName(server[n].backend, server[n].tool)

CatalogInv == CatalogTypeOK /\ Registered /\ OwnName

----------------------------------------------------------------------------

\* The part of a name that toolName puts before the tool's.
Stem(b) == Prefix[b] \o Separator

LEMMA Stems ==
    ASSUME NEW b \in Backends
    PROVE  /\ Stem(b) \in Seq(Chars)
           /\ \A s : ToolName(b, s) = Stem(b) \o s
<1>1. Separator \in Seq(Chars)
  <2>1. \A x \in Chars : <<x, x>> \in Seq(Chars)
    OBVIOUS
  <2> QED BY <2>1, CatalogAssumption DEF Separator
<1>2. Prefix[b] \in Seq(Chars)
  BY CatalogAssumption
<1>3. Stem(b) \in Seq(Chars)
  BY <1>1, <1>2, ConcatProperties DEF Stem
<1> QED BY <1>3 DEF Stem, ToolName

\* Of two ways to take the stem off a name, the longer stem begins with the
\* shorter.
LEMMA StemsBegin ==
    ASSUME NEW p \in Seq(Chars), NEW q \in Seq(Chars),
           NEW s \in Seq(Chars), NEW t \in Seq(Chars),
           p \o s = q \o t, Len(p) <= Len(q)
    PROVE  Begins(p, q)
<1> SUFFICES ASSUME NEW i \in 1 .. Len(p) PROVE q[i] = p[i]
  BY DEF Begins
<1>1. Len(p) \in Nat /\ Len(q) \in Nat /\ Len(s) \in Nat /\ Len(t) \in Nat
  OBVIOUS
<1>2. i \in 1 .. Len(p) + Len(s) /\ i \in 1 .. Len(q) + Len(t) /\ i <= Len(q)
  BY <1>1
<1>3. (p \o s)[i] = p[i]
  BY <1>2, ConcatProperties
<1>4. (q \o t)[i] = q[i]
  BY <1>2, ConcatProperties
<1> QED BY <1>3, <1>4

\* Different tools have different names as long as no backend's name with the
\* separator begins another's (toolName, mux.go:386-388).
LEMMA NamesDiffer ==
    ASSUME Separable, NEW b \in Backends, NEW c \in Backends,
           NEW s \in Tools[b], NEW t \in Tools[c],
           ToolName(b, s) = ToolName(c, t)
    PROVE  b = c /\ s = t
<1>1. s \in Seq(Chars) /\ t \in Seq(Chars)
  BY CatalogAssumption
<1>2. Stem(b) \in Seq(Chars) /\ Stem(c) \in Seq(Chars) /\ Stem(b) \o s = Stem(c) \o t
  BY Stems
<1>3. Len(Stem(b)) <= Len(Stem(c)) \/ Len(Stem(c)) <= Len(Stem(b))
  BY <1>2
<1>4. Begins(Stem(b), Stem(c)) \/ Begins(Stem(c), Stem(b))
  BY <1>1, <1>2, <1>3, StemsBegin
<1>5. b = c
  BY <1>4 DEF Separable, Stem
<1>6. s = t
  BY <1>1, <1>2, <1>5, ConcatSimplifications
<1> QED BY <1>5, <1>6

\* The condition is the weakest: where one name with the separator begins another,
\* there are tools that would get one name, so that the registration of one
\* replaces the other (what the run ToolCollision shows for three names).
THEOREM CollisionsExist ==
    ASSUME ~Separable
    PROVE  \E b, c \in Backends : b # c /\ \E s, t \in Seq(Chars) : ToolName(b, s) = ToolName(c, t)
<1>1. PICK b \in Backends, c \in Backends : b # c /\ Begins(Stem(b), Stem(c))
  BY DEF Separable, Stem
<1> DEFINE p == Stem(b)
           q == Stem(c)
           rest == [i \in 1 .. Len(q) - Len(p) |-> q[Len(p) + i]]
<1>2. p \in Seq(Chars) /\ q \in Seq(Chars)
  BY Stems
<1> HIDE DEF p, q
<1>3. Len(p) \in Nat /\ Len(q) \in Nat /\ Len(p) <= Len(q) /\ \A i \in 1 .. Len(p) : q[i] = p[i]
  BY <1>1, <1>2 DEF Begins, p, q
<1>4. Len(q) - Len(p) \in Nat /\ \A i \in 1 .. Len(q) - Len(p) : Len(p) + i \in 1 .. Len(q)
  BY <1>3
<1>5. \A i \in 1 .. Len(q) - Len(p) : q[Len(p) + i] \in Chars
  BY <1>2, <1>4, ElementOfSeq
<1>6. rest \in Seq(Chars) /\ Len(rest) = Len(q) - Len(p)
  BY <1>4, <1>5
<1> HIDE DEF rest
<1>7. p \o rest \in Seq(Chars) /\ Len(p \o rest) = Len(q)
  BY <1>2, <1>3, <1>6, ConcatProperties
<1>8. ASSUME NEW i \in 1 .. Len(q) PROVE (p \o rest)[i] = q[i]
  <2>1. i \in 1 .. Len(p) + Len(rest)
    BY <1>3, <1>6
  <2>2. CASE i <= Len(p)
    BY <1>2, <1>3, <1>6, <2>1, <2>2, ConcatProperties
  <2>3. CASE i > Len(p)
    <3>1. (p \o rest)[i] = rest[i - Len(p)]
      BY <1>2, <1>3, <1>6, <2>1, <2>3, ConcatProperties
    <3>2. i - Len(p) \in 1 .. Len(q) - Len(p) /\ Len(p) + (i - Len(p)) = i
      BY <1>3, <2>3
    <3> QED BY <3>1, <3>2 DEF rest
  <2>4. i <= Len(p) \/ i > Len(p)
    BY <1>3
  <2> QED BY <2>2, <2>3, <2>4
<1>9. p \o rest = q
  BY <1>2, <1>7, <1>8, SeqEqual
<1>10. q \o << >> = q
  BY <1>2, ConcatEmptySeq
<1>11. ToolName(b, rest) = ToolName(c, << >>)
  BY <1>9, <1>10, Stems DEF p, q
<1>12. << >> \in Seq(Chars)
  OBVIOUS
<1> QED BY <1>1, <1>6, <1>11, <1>12

\* The names and handlers of the server's tools after AddTool.
LEMMA AddToolAdds ==
    ASSUME CatalogInv, NEW b \in Backends, NEW tool \in Tools[b], AddTool(b, tool)
    PROVE  /\ DOMAIN server' = DOMAIN server \cup {ToolName(b, tool)}
           /\ server'[ToolName(b, tool)] = [backend |-> b, tool |-> tool]
           /\ \A n \in DOMAIN server : n # ToolName(b, tool) => server'[n] = server[n]
BY DEF AddTool

\* AddTool never takes a name that another tool has.
LEMMA AddToolKeeps ==
    ASSUME Separable, CatalogInv, NEW b \in Backends, NEW tool \in Tools[b], AddTool(b, tool)
    PROVE  \A n \in DOMAIN server : n \in DOMAIN server' /\ server'[n] = server[n]
<1> SUFFICES ASSUME NEW n \in DOMAIN server
             PROVE  n \in DOMAIN server' /\ server'[n] = server[n]
  OBVIOUS
<1>1. CASE n # ToolName(b, tool)
  BY <1>1, AddToolAdds
<1>2. CASE n = ToolName(b, tool)
  <2>1. server[n] \in Owner
    BY DEF CatalogInv, CatalogTypeOK
  <2>2. PICK c \in Backends, t \in AllTools : server[n] = [backend |-> c, tool |-> t]
    BY <2>1 DEF Owner
  <2>3. t \in Tools[c] /\ n = ToolName(c, t)
    BY <2>2 DEF CatalogInv, OwnName
  <2>4. t \in Tools[c] /\ ToolName(b, tool) = ToolName(c, t)
    BY <1>2, <2>3
  <2>5. b = c /\ tool = t
    BY <2>4, NamesDiffer
  <2> QED BY <1>2, <2>2, <2>5, AddToolAdds
<1> QED BY <1>1, <1>2

\* What is on the server stays there, so a tool that is reachable remains so.
LEMMA StaysReachable ==
    ASSUME \A n \in DOMAIN server : n \in DOMAIN server' /\ server'[n] = server[n],
           NEW b \in Backends, NEW tool \in Tools[b], Reachable(b, tool)
    PROVE  Reachable(b, tool)'
BY DEF Reachable, ToolName

LEMMA InvInit == CatalogInit => CatalogInv
<1> SUFFICES ASSUME CatalogInit PROVE CatalogInv
  OBVIOUS
<1>1. CatalogTypeOK
  BY DEF CatalogInit, CatalogTypeOK
<1>2. Registered
  BY DEF CatalogInit, Registered
<1>3. OwnName
  BY DEF CatalogInit, OwnName
<1> QED BY <1>1, <1>2, <1>3 DEF CatalogInv

LEMMA TypeNext == CatalogTypeOK /\ [CatalogNext]_catalogVars => CatalogTypeOK'
<1> SUFFICES ASSUME CatalogTypeOK, [CatalogNext]_catalogVars PROVE CatalogTypeOK'
  OBVIOUS
<1> USE DEF CatalogTypeOK, Become
<1>1. CASE UNCHANGED catalogVars
  BY <1>1 DEF catalogVars
<1>2. ASSUME NEW b \in Backends, Begin(b) PROVE CatalogTypeOK'
  BY <1>2 DEF Begin
<1>3. ASSUME NEW b \in Backends, Fails(b) PROVE CatalogTypeOK'
  BY <1>3 DEF Fails
<1>4. ASSUME NEW b \in Backends, Listed(b) PROVE CatalogTypeOK'
  BY <1>4 DEF Listed, AllTools
<1>5. ASSUME NEW b \in Backends, Publish(b) PROVE CatalogTypeOK'
  BY <1>5 DEF Publish
<1>6. ASSUME NEW b \in Backends, NEW tool \in Tools[b], AddTool(b, tool) PROVE CatalogTypeOK'
  <2>1. [backend |-> b, tool |-> tool] \in Owner
    BY DEF Owner, AllTools
  <2>2. server' \in [DOMAIN server' -> Owner]
    BY <1>6, <2>1 DEF AddTool
  <2> QED BY <1>6, <2>2 DEF AddTool
<1> QED BY <1>1, <1>2, <1>3, <1>4, <1>5, <1>6 DEF CatalogNext

LEMMA InvNext ==
    ASSUME Separable, CatalogInv, [CatalogNext]_catalogVars
    PROVE  CatalogInv'
<1>1. CatalogTypeOK'
  BY TypeNext DEF CatalogInv
<1>2. Registered' /\ OwnName'
  <2>1. CASE UNCHANGED catalogVars
    BY <2>1 DEF catalogVars, CatalogInv, Registered, OwnName, Reachable, ToolName
  <2>2. ASSUME NEW b \in Backends, Begin(b) \/ Fails(b) \/ Listed(b)
        PROVE  Registered' /\ OwnName'
    <3>1. UNCHANGED server /\ OwnName'
      BY <2>2 DEF Begin, Fails, Listed, CatalogInv, OwnName, ToolName
    <3>2. ASSUME NEW c \in Backends, NEW tool \in Tools[c],
                 at'[c] = "up" \/ (at'[c] \in {"adding", "late"} /\ tool \notin left'[c])
          PROVE  c # b /\ at'[c] = at[c] /\ left'[c] = left[c]
      BY <2>2, <3>2 DEF Begin, Fails, Listed, Become, CatalogInv, CatalogTypeOK
    <3>3. Registered'
      BY <3>1, <3>2 DEF CatalogInv, Registered, Reachable, ToolName
    <3> QED BY <3>1, <3>3
  <2>3. ASSUME NEW b \in Backends, Publish(b) PROVE Registered' /\ OwnName'
    <3>1. UNCHANGED server /\ OwnName'
      BY <2>3 DEF Publish, CatalogInv, OwnName, ToolName
    <3>2. \A tool \in Tools[b] : Reachable(b, tool)
      BY <2>3 DEF Publish, CatalogInv, Registered
    <3>3. \A c \in Backends : c # b => at'[c] = at[c] /\ left'[c] = left[c]
      BY <2>3 DEF Publish, Become, CatalogInv, CatalogTypeOK
    <3>4. Registered'
      BY <3>1, <3>2, <3>3 DEF CatalogInv, Registered, Reachable, ToolName
    <3> QED BY <3>1, <3>4
  <2>4. ASSUME NEW b \in Backends, NEW tool \in Tools[b], AddTool(b, tool)
        PROVE  Registered' /\ OwnName'
    <3>0. /\ DOMAIN server' = DOMAIN server \cup {ToolName(b, tool)}
          /\ server'[ToolName(b, tool)] = [backend |-> b, tool |-> tool]
      BY <2>4, AddToolAdds
    <3>1. \A n \in DOMAIN server : n \in DOMAIN server' /\ server'[n] = server[n]
      BY <2>4, AddToolKeeps
    <3>2. Reachable(b, tool)'
      BY <3>0 DEF Reachable, ToolName
    <3>3. at' = at /\ \A c \in Backends : \A t \in Tools[c] :
            t \notin left'[c] => t \notin left[c] \/ (c = b /\ t = tool)
      BY <2>4 DEF AddTool, CatalogInv, CatalogTypeOK
    <3>4. Registered'
      <4> SUFFICES ASSUME NEW c \in Backends, NEW t \in Tools[c],
                          at'[c] = "up" \/ (at'[c] \in {"adding", "late"} /\ t \notin left'[c])
                   PROVE  Reachable(c, t)'
        BY DEF Registered
      <4>1. CASE c = b /\ t = tool
        BY <4>1, <3>2
      <4>2. CASE ~(c = b /\ t = tool)
        <5>1. Reachable(c, t)
          BY <4>2, <3>3 DEF CatalogInv, Registered
        <5> QED BY <5>1, <3>1, StaysReachable
      <4> QED BY <4>1, <4>2
    <3>5. OwnName'
      <4> SUFFICES ASSUME NEW n \in DOMAIN server'
                   PROVE  /\ server'[n].tool \in Tools[server'[n].backend]
                          /\ n = ToolName(server'[n].backend, server'[n].tool)
        BY DEF OwnName, ToolName
      <4>1. CASE n \in DOMAIN server
        BY <4>1, <3>1 DEF CatalogInv, OwnName
      <4>2. CASE n = ToolName(b, tool)
        BY <4>2, <3>0
      <4> QED BY <4>1, <4>2, <3>0
    <3> QED BY <3>4, <3>5
  <2> QED BY <2>1, <2>2, <2>3, <2>4 DEF CatalogNext
<1> QED BY <1>1, <1>2 DEF CatalogInv

----------------------------------------------------------------------------

\* The server's tools and their owners keep their types, whatever registers.
THEOREM CatalogTypeCorrect == CatalogSpec => []CatalogTypeOK
<1>1. CatalogInit => CatalogTypeOK
  BY InvInit DEF CatalogInv
<1> QED BY <1>1, TypeNext, PTL DEF CatalogSpec

\* If no backend's name with the separator begins another's, a call of a published
\* tool reaches the backend that owns it, for any tool names and any order of
\* registrations.
THEOREM CallsReachOwnerHolds == Separable /\ CatalogSpec => []CallsReachOwner
<1> SUFFICES ASSUME Separable PROVE CatalogSpec => []CallsReachOwner
  OBVIOUS
<1>1. CatalogInv /\ [CatalogNext]_catalogVars => CatalogInv'
  BY InvNext
<1>2. CatalogInv => CallsReachOwner
  <2> SUFFICES ASSUME CatalogInv, NEW b \in Backends, NEW tool \in tools[b]
               PROVE  Reachable(b, tool)
    BY DEF CallsReachOwner, Reachable
  <2>1. at[b] = "up" /\ tool \in Tools[b]
    BY DEF CatalogInv, CatalogTypeOK
  <2> QED BY <2>1 DEF CatalogInv, Registered
<1> QED BY InvInit, <1>1, <1>2, PTL DEF CatalogSpec

\* Under the same condition no registration removes a tool from the server or
\* gives its name to another.
THEOREM ToolsOnlyAddedHolds == Separable /\ CatalogSpec => ToolsOnlyAdded
<1> SUFFICES ASSUME Separable PROVE CatalogSpec => ToolsOnlyAdded
  OBVIOUS
<1> DEFINE Kept == \A n \in DOMAIN server : n \in DOMAIN server' /\ server'[n] = server[n]
<1>1. CatalogInv /\ [CatalogNext]_catalogVars => CatalogInv'
  BY InvNext
<1>2. CatalogInv /\ [CatalogNext]_catalogVars => [Kept]_catalogVars
  <2> SUFFICES ASSUME CatalogInv, CatalogNext PROVE Kept
    OBVIOUS
  <2>1. ASSUME NEW b \in Backends, Begin(b) \/ Fails(b) \/ Listed(b) \/ Publish(b) PROVE Kept
    BY <2>1 DEF Begin, Fails, Listed, Publish
  <2>2. ASSUME NEW b \in Backends, NEW tool \in Tools[b], AddTool(b, tool) PROVE Kept
    BY <2>2, AddToolKeeps
  <2> QED BY <2>1, <2>2 DEF CatalogNext
<1> QED BY InvInit, <1>1, <1>2, PTL DEF CatalogSpec, ToolsOnlyAdded
=============================================================================
