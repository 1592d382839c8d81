----------------------------- MODULE TokenStore -----------------------------
(***************************************************************************)
(* OAuth tokens in memory and in the file that outlives the process:       *)
(* RuntimeStore and persistSource (internal/auth/store.go), bindStore and  *)
(* EagerAuthorize (internal/auth/oauth.go:106-190). A token is its         *)
(* generation: each refresh or consent yields the next one, and the        *)
(* authorization server refreshes only the newest (it rotates them). The   *)
(* file may be shared by two processes, a daemon and a "mcpmux list" say,  *)
(* each with its own mutex and its own backends.                           *)
(***************************************************************************)
EXTENDS Integers

CONSTANTS
    Labels,    \* backend names, the keys of the store
    Callers,   \* goroutines that call Token or run a consent
    LabelOf,   \* the backend a caller works for
    NoCaller,  \* nobody holds the mutex
    Sharings,  \* the ways to spread the backends over processes
    MaxGen     \* bound on the tokens a server issues

Processes == {"daemon", "list"}

ASSUME LabelAssumption == LabelOf \in [Callers -> Labels]
ASSUME SharingAssumption == Sharings \subseteq [Labels -> Processes]
ASSUME NoCallerAssumption == NoCaller \notin Callers
ASSUME MaxGenAssumption == MaxGen \in Nat \ {0}

Gens == 0 .. MaxGen  \* 0: no token

\* The persistSources of a backend: the one bindStore restores, and the one each
\* consent makes, named by its first token.
Sources == Gens

VARIABLES
    home,      \* the process of each backend
    disk,      \* tokens.json: the generation stored for each label
    issued,    \* the newest generation the server has issued
    held,      \* the token of the source in use (oauth2's reuse source)
    source,    \* the persistSource in use
    last,      \* persistSource.last of each source
    sourceMu,  \* who holds persistSource.mu of each source
    storeMu,   \* who holds RuntimeStore.mu of each process
    pc,        \* "idle", "got", "save", "write" of each caller
    consent,   \* the caller saves for NewTokenSource, not for persistSource
    via,       \* the source a caller saves for
    tok,       \* the token a caller was handed
    all,       \* what readAll returned to a caller
    blind,     \* history: readAll failed and Save starts over, or another process
               \* has replaced the file since
    writer     \* history: the source of a label's newest Save, Lost if the file
               \* has not kept it

callVars == <<pc, consent, via, tok, all, blind>>
vars == <<home, disk, issued, held, source, last, sourceMu, storeMu, callVars, writer>>

Lost == -1

ProcessOf(c) == home[LabelOf[c]]

Types ==
    /\ home \in Sharings
    /\ disk \in [Labels -> Gens] /\ issued \in [Labels -> Gens]
    /\ held \in [Labels -> Gens] /\ source \in [Labels -> Sources]
    /\ last \in [Labels -> [Sources -> Gens]]
    /\ sourceMu \in [Labels -> [Sources -> Callers \cup {NoCaller}]]
    /\ storeMu \in [Processes -> Callers \cup {NoCaller}]
    /\ pc \in [Callers -> {"idle", "got", "save", "write"}]
    /\ consent \in [Callers -> BOOLEAN]
    /\ via \in [Callers -> Sources]
    /\ tok \in [Callers -> Gens]
    /\ all \in [Callers -> [Labels -> Gens]]
    /\ blind \in [Callers -> BOOLEAN]
    /\ writer \in [Labels -> Sources \cup {Lost}]

\* The mutexes are held by the callers that save.
Mutexes ==
    /\ \A c \in Callers : storeMu[ProcessOf(c)] = c <=> pc[c] = "write"
    /\ \A c \in Callers :
         sourceMu[LabelOf[c]][via[c]] = c <=> pc[c] \in {"save", "write"} /\ ~consent[c]

TypeOK == Types /\ Mutexes

NoTokens == [l \in Labels |-> 0]
AllFree == [s \in Sources |-> NoCaller]
NothingSaved == [s \in Sources |-> 0]

Init ==
    /\ home \in Sharings
    /\ disk = NoTokens /\ issued = NoTokens /\ held = NoTokens
    /\ source = NoTokens
    /\ last = [l \in Labels |-> NothingSaved]
    /\ sourceMu = [l \in Labels |-> AllFree]
    /\ storeMu = [p \in Processes |-> NoCaller]
    /\ pc = [c \in Callers |-> "idle"]
    /\ consent = [c \in Callers |-> FALSE]
    /\ via = [c \in Callers |-> 0]
    /\ tok = [c \in Callers |-> 0]
    /\ all = [c \in Callers |-> NoTokens]
    /\ blind = [c \in Callers |-> FALSE]
    /\ writer = [l \in Labels |-> 0]

Goto(c, step) == pc' = [pc EXCEPT ![c] = step]

\* The call's locals are gone.
Forget(c) == tok' = [tok EXCEPT ![c] = 0] /\ via' = [via EXCEPT ![c] = 0]

----------------------------------------------------------------------------
(* persistSource.Token: inner.Token first, without p.mu. *)

\* The token in use is still valid.
TokenCached(c) ==
    LET l == LabelOf[c] IN
    /\ pc[c] = "idle"
    /\ held[l] > 0
    /\ tok' = [tok EXCEPT ![c] = held[l]]
    /\ via' = [via EXCEPT ![c] = source[l]]
    /\ Goto(c, "got")
    /\ UNCHANGED <<home, disk, issued, held, source, last, sourceMu, storeMu, consent, all, blind, writer>>

\* It has expired and the server rotates it; a stale one is refused.
TokenRefreshed(c) ==
    LET l == LabelOf[c] IN
    /\ pc[c] = "idle"
    /\ held[l] > 0 /\ held[l] = issued[l] /\ issued[l] < MaxGen
    /\ issued' = [issued EXCEPT ![l] = @ + 1]
    /\ held' = [held EXCEPT ![l] = @ + 1]
    /\ tok' = [tok EXCEPT ![c] = held[l] + 1]
    /\ via' = [via EXCEPT ![c] = source[l]]
    /\ Goto(c, "got")
    /\ UNCHANGED <<home, disk, source, last, sourceMu, storeMu, consent, all, blind, writer>>

\* Mutant: a token is saved only when there was none before.
FirstTokenOnly(c) ==
    LET l == LabelOf[c] IN
    /\ pc[c] = "got"
    /\ sourceMu[l][via[c]] = NoCaller
    /\ IF last[l][via[c]] # 0
       THEN Goto(c, "idle") /\ Forget(c) /\ UNCHANGED <<last, sourceMu>>
       ELSE /\ last' = [last EXCEPT ![l][via[c]] = tok[c]]
            /\ sourceMu' = [sourceMu EXCEPT ![l][via[c]] = c]
            /\ Goto(c, "save")
            /\ UNCHANGED <<via, tok>>
    /\ UNCHANGED <<home, disk, issued, held, source, storeMu, consent, all, blind, writer>>

\* Mutant: p.mu is released before the token is saved.
CompareUnlocked(c) ==
    LET l == LabelOf[c] IN
    /\ pc[c] = "got"
    /\ sourceMu[l][via[c]] = NoCaller
    /\ IF tok[c] = last[l][via[c]]
       THEN Goto(c, "idle") /\ Forget(c) /\ UNCHANGED last
       ELSE /\ last' = [last EXCEPT ![l][via[c]] = tok[c]]
            /\ Goto(c, "save")
            /\ UNCHANGED <<via, tok>>
    /\ UNCHANGED <<home, disk, issued, held, source, sourceMu, storeMu, consent, all, blind, writer>>

\* Under p.mu: a token other than the last one is saved.
Compare(c) ==
    LET l == LabelOf[c] IN
    /\ pc[c] = "got"
    /\ sourceMu[l][via[c]] = NoCaller
    /\ IF tok[c] = last[l][via[c]]
       THEN Goto(c, "idle") /\ Forget(c) /\ UNCHANGED <<last, sourceMu>>
       ELSE /\ last' = [last EXCEPT ![l][via[c]] = tok[c]]
            /\ sourceMu' = [sourceMu EXCEPT ![l][via[c]] = c]
            /\ Goto(c, "save")
            /\ UNCHANGED <<via, tok>>
    /\ UNCHANGED <<home, disk, issued, held, source, storeMu, consent, all, blind, writer>>

\* EagerAuthorize does nothing for a handler whose source yields a token, and
\* the transport asks for a consent only on a 401.
NeedsConsent(l) == held[l] = 0 \/ held[l] < issued[l]

\* A browser consent yields a new token, and NewTokenSource saves it before its
\* source is used.
Consent(c) ==
    LET l == LabelOf[c] IN
    /\ pc[c] = "idle"
    /\ NeedsConsent(l)
    /\ issued[l] < MaxGen
    /\ \A d \in Callers : LabelOf[d] = l => ~consent[d]
    /\ issued' = [issued EXCEPT ![l] = @ + 1]
    /\ tok' = [tok EXCEPT ![c] = issued[l] + 1]
    /\ via' = [via EXCEPT ![c] = issued[l] + 1]
    /\ consent' = [consent EXCEPT ![c] = TRUE]
    /\ Goto(c, "save")
    /\ UNCHANGED <<home, disk, held, source, last, sourceMu, storeMu, all, blind, writer>>

----------------------------------------------------------------------------
(* RuntimeStore.Save. *)

Read(c) ==
    /\ pc[c] = "save"
    /\ storeMu' = [storeMu EXCEPT ![ProcessOf(c)] = c]
    /\ \/ all' = [all EXCEPT ![c] = disk] /\ blind' = [blind EXCEPT ![c] = FALSE]
       \/ all' = [all EXCEPT ![c] = NoTokens] /\ blind' = [blind EXCEPT ![c] = TRUE]
    /\ Goto(c, "write")
    /\ UNCHANGED <<home, disk, issued, held, source, last, sourceMu, consent, via, tok, writer>>

\* Mutant: Save does not wait for the mutex.
ReadUnlocked(c) == Read(c)

\* s.mu.Lock and readAll; a store that cannot be read is started over.
ReadAll(c) == storeMu[ProcessOf(c)] = NoCaller /\ Read(c)

\* Save returns: the mutexes are released, and a consent's source is installed.
Saved(c) ==
    LET l == LabelOf[c] IN
    /\ storeMu' = [storeMu EXCEPT ![ProcessOf(c)] = NoCaller]
    /\ IF consent[c]
       THEN /\ held' = [held EXCEPT ![l] = tok[c]]
            /\ source' = [source EXCEPT ![l] = via[c]]
            /\ UNCHANGED sourceMu
       ELSE /\ sourceMu' = [sourceMu EXCEPT ![l][via[c]] = NoCaller]
            /\ UNCHANGED <<held, source>>
    /\ consent' = [consent EXCEPT ![c] = FALSE]
    /\ Forget(c)
    /\ all' = [all EXCEPT ![c] = NoTokens]
    /\ Goto(c, "idle")
    /\ UNCHANGED <<home, issued, last>>

\* c's Save may displace the token of l: a store that could not be read comes
\* back with c's token alone, and the mutex is in-process.
MayDisplace(c, l) == l = LabelOf[c] \/ blind[c]

\* The Saves of other processes that have read the file do not know c's.
Overtaken(c) == {d \in Callers : pc[d] = "write" /\ ProcessOf(d) # ProcessOf(c)}

\* The temporary file replaces the store.
Rename(c) ==
    /\ pc[c] = "write"
    /\ disk' = [all[c] EXCEPT ![LabelOf[c]] = tok[c]]
    /\ writer' = [l \in Labels |->
                     IF l = LabelOf[c] THEN via[c]
                     ELSE IF MayDisplace(c, l) /\ all[c][l] # disk[l] THEN Lost
                     ELSE writer[l]]
    /\ blind' = [d \in Callers |-> d # c /\ (blind[d] \/ d \in Overtaken(c))]
    /\ Saved(c)

\* A write error leaves the old file; the caller only logs it.
WriteFails(c) ==
    /\ pc[c] = "write"
    /\ writer' = [writer EXCEPT ![LabelOf[c]] = Lost]
    /\ blind' = [blind EXCEPT ![c] = FALSE]
    /\ Saved(c)
    /\ UNCHANGED disk

----------------------------------------------------------------------------

\* f with the value v for the callers of process p.
Reset(f, p, v) == [c \in Callers |-> IF ProcessOf(c) = p THEN v ELSE f[c]]

\* A process dies at any step and starts again: bindStore restores what the file
\* holds, except where the store cannot be read or an access token has expired
\* that nothing can refresh.
Restart(p) ==
    \E restored \in SUBSET {l \in Labels : home[l] = p /\ disk[l] > 0} :
    LET Of(f, v) == [l \in Labels |-> IF home[l] = p THEN v ELSE f[l]] IN
    /\ held' = [l \in Labels |-> IF l \in restored THEN disk[l] ELSE Of(held, 0)[l]]
    /\ writer' = [l \in Labels |-> IF l \in restored THEN 0 ELSE Of(writer, Lost)[l]]
    /\ source' = Of(source, 0)
    /\ last' = Of(last, NothingSaved)
    /\ sourceMu' = Of(sourceMu, AllFree)
    /\ storeMu' = [storeMu EXCEPT ![p] = NoCaller]
    /\ pc' = Reset(pc, p, "idle")
    /\ consent' = Reset(consent, p, FALSE)
    /\ via' = Reset(via, p, 0)
    /\ tok' = Reset(tok, p, 0)
    /\ all' = Reset(all, p, NoTokens)
    /\ blind' = Reset(blind, p, FALSE)
    /\ UNCHANGED <<home, disk, issued>>

Next ==
    \/ \E c \in Callers :
         \/ TokenCached(c)
         \/ TokenRefreshed(c)
         \/ Compare(c)
         \/ Consent(c)
         \/ ReadAll(c)
         \/ Rename(c)
         \/ WriteFails(c)
    \/ \E p \in Processes : Restart(p)

\* Clients keep calling tools, so Token is called again and again.
Spec ==
    /\ Init /\ [][Next]_vars
    /\ \A c \in Callers :
         /\ WF_vars(TokenCached(c))
         /\ WF_vars(Compare(c))
         /\ WF_vars(ReadAll(c))
         /\ WF_vars(Rename(c) \/ WriteFails(c))

----------------------------------------------------------------------------
(* Properties. *)

\* One goroutine at most calls for l, so nothing races it on p.mu.
Alone(l) == \A c, d \in Callers : LabelOf[c] = l /\ LabelOf[d] = l => c = d

\* c's Save ends.
Ends(c) == pc[c] = "write" /\ pc'[c] = "idle"

\* Saving one backend's token never changes what is stored for another, however
\* the Saves of one process interleave and fail; only a Save that could not read
\* the store can, or one that read it before another process replaced it
\* (RuntimeStore.Save, store.go:80-88). And where no goroutines race, no other
\* Save puts an older token back.
NoLostUpdate ==
    [][\A l \in Labels :
         /\ disk'[l] # disk[l] => \E c \in Callers : Ends(c) /\ MayDisplace(c, l)
         /\ Alone(l) /\ disk'[l] < disk[l]
              => \E c \in Callers : Ends(c) /\ LabelOf[c] # l /\ blind[c]]_vars

\* Nobody is about to compare or save a token of the source in use.
Quiet(l) == \A c \in Callers : LabelOf[c] = l /\ via[c] = source[l] => pc[c] = "idle"

\* At rest, the file holds the token that the source in use compared last, or the
\* one it came with, whatever Saves of earlier sources, other backends and another
\* process go on meanwhile (persistSource.Token, store.go:182-194): no Save is
\* skipped because an older one was taken for it. That is the token in use unless
\* two goroutines race between inner.Token and p.mu. Only where the newest write
\* failed, was displaced by a Save that may, or came from another source is it
\* otherwise.
FileFollowsSource ==
    \A l \in Labels : writer[l] = source[l] /\ Quiet(l) =>
        /\ disk[l] = IF last[l][source[l]] = 0 THEN held[l] ELSE last[l][source[l]]
        /\ Alone(l) => disk[l] = held[l]

\* Once no new token is issued, the file comes to hold the token in use and
\* keeps it, so that a restart needs no consent (store.go:171-173); unless its
\* newest write failed, was displaced by a Save that may, or came from a source
\* that a consent has replaced.
EventuallyPersisted ==
    <>[](\A l \in Labels : disk[l] = held[l] \/ writer[l] # source[l])

\* store.go:171-173: a rotated refresh token replaces the stored one instead of
\* going stale; so the file never goes back to an older token.
NoStaleOverwrite == [][\A l \in Labels : disk'[l] >= disk[l]]_vars
=============================================================================
