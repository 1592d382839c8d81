---------------------------- MODULE TokenProofs ----------------------------
(***************************************************************************)
(* Theorems about TokenStore, for any backends, any number of goroutines   *)
(* and any way to spread them over two processes: the types, that the file *)
(* at rest holds what the source in use saw last, and that no Save loses   *)
(* the token of another backend, or puts back an older one of its own, but *)
(* in the cases it cannot help.                                            *)
(***************************************************************************)
EXTENDS TokenStore, TLAPS

\* A goroutine holds the mutex of its process while it reads and writes, the one
\* of the source it saves for while it saves, and no other.
Held(c) ==
    /\ \A p \in Processes : storeMu[p] = c <=> p = ProcessOf(c) /\ pc[c] = "write"
    /\ \A l \in Labels, s \in Sources : sourceMu[l][s] = c <=>
         l = LabelOf[c] /\ s = via[c] /\ pc[c] \in {"save", "write"} /\ ~consent[c]
    /\ consent[c] => pc[c] \in {"save", "write"}

Holders == \A c \in Callers : Held(c)

\* What a Save has read is what the file holds, unless it knows better.
UpToDate == \A c \in Callers : pc[c] = "write" /\ ~blind[c] => all[c] = disk

TokenInv == Types /\ Holders /\ UpToDate

----------------------------------------------------------------------------

LEMMA TokenInit == Init => TokenInv
<1> SUFFICES ASSUME Init PROVE TokenInv
  OBVIOUS
<1> USE DEF Init, Processes, Gens, Sources, NoTokens, AllFree, NothingSaved
<1>1. 0 \in Gens
  BY MaxGenAssumption
<1>2. Types
  BY <1>1, LabelAssumption, SharingAssumption, NoCallerAssumption DEF Types, ProcessOf
<1>3. Holders
  BY LabelAssumption, NoCallerAssumption DEF Holders, Held
<1>4. UpToDate
  BY DEF UpToDate
<1> QED BY <1>2, <1>3, <1>4 DEF TokenInv

\* The process of a goroutine does not change.
LEMMA Homes ==
    ASSUME Types, NEW c \in Callers
    PROVE  LabelOf[c] \in Labels /\ ProcessOf(c) \in Processes
BY LabelAssumption, SharingAssumption DEF Types, ProcessOf

LEMMA HoldersHoldMutexes == Types /\ Holders => TypeOK
BY Homes DEF TypeOK, Types, Mutexes, Holders, Held

LEMMA NextGen == ASSUME NEW g \in Gens, g < MaxGen PROVE g + 1 \in Gens
BY MaxGenAssumption DEF Gens

\* An update of one entry of a table keeps its type.
LEMMA Updated ==
    ASSUME NEW S, NEW T, NEW R, NEW f \in [S -> [T -> R]], NEW s \in S, NEW t \in T, NEW r \in R
    PROVE  [f EXCEPT ![s][t] = r] \in [S -> [T -> R]]
<1>1. [f[s] EXCEPT ![t] = r] \in [T -> R]
  OBVIOUS
<1> QED BY <1>1

\* A restart leaves a caller's locals in their type.
LEMMA ResetType ==
    ASSUME NEW T, NEW f \in [Callers -> T], NEW p, NEW v \in T
    PROVE  Reset(f, p, v) \in [Callers -> T]
BY DEF Reset

\* Every variable keeps its type.
LEMMA TypesNext == Types /\ [Next]_vars => Types'
<1> SUFFICES ASSUME Types, [Next]_vars PROVE Types'
  OBVIOUS
<1> USE DEF Types, Goto, Forget, Sources, ProcessOf
<1>1. CASE UNCHANGED vars
  BY <1>1 DEF vars, callVars
<1>2. ASSUME NEW c \in Callers, TokenCached(c) PROVE Types'
  BY <1>2, Homes DEF TokenCached
<1>3. ASSUME NEW c \in Callers, TokenRefreshed(c) PROVE Types'
  <2>1. held[LabelOf[c]] = issued[LabelOf[c]]
    BY <1>3 DEF TokenRefreshed
  <2>2. issued[LabelOf[c]] \in Gens /\ issued[LabelOf[c]] < MaxGen
    BY <1>3, Homes DEF TokenRefreshed
  <2>3. issued[LabelOf[c]] + 1 \in Gens
    BY <2>2, NextGen
  <2> QED BY <1>3, <2>1, <2>3, Homes DEF TokenRefreshed
<1>4. ASSUME NEW c \in Callers, Compare(c) PROVE Types'
  <2>1. 0 \in Gens
    BY MaxGenAssumption DEF Gens
  <2>2. \/ UNCHANGED <<last, sourceMu>>
        \/ /\ last' = [last EXCEPT ![LabelOf[c]][via[c]] = tok[c]]
           /\ sourceMu' = [sourceMu EXCEPT ![LabelOf[c]][via[c]] = c]
    BY <1>4 DEF Compare
  <2>8. LabelOf[c] \in Labels /\ via[c] \in Sources /\ tok[c] \in Gens
    BY Homes
  <2>3. [last EXCEPT ![LabelOf[c]][via[c]] = tok[c]] \in [Labels -> [Sources -> Gens]]
    BY <2>8, Updated
  <2>7. [sourceMu EXCEPT ![LabelOf[c]][via[c]] = c]
          \in [Labels -> [Sources -> Callers \cup {NoCaller}]]
    BY <2>8, Updated
  <2>6. /\ last' \in [Labels -> [Sources -> Gens]]
        /\ sourceMu' \in [Labels -> [Sources -> Callers \cup {NoCaller}]]
    BY <2>2, <2>3, <2>7
  <2>4. pc' \in [Callers -> {"idle", "got", "save", "write"}] /\ via' \in [Callers -> Sources]
    BY <1>4, <2>1 DEF Compare
  <2>5. tok' \in [Callers -> Gens]
    BY <1>4, <2>1 DEF Compare
  <2> QED BY <1>4, <2>4, <2>5, <2>6 DEF Compare
<1>5. ASSUME NEW c \in Callers, Consent(c) PROVE Types'
  <2>2. issued[LabelOf[c]] \in Gens /\ issued[LabelOf[c]] < MaxGen
    BY <1>5, Homes DEF Consent
  <2>1. issued[LabelOf[c]] + 1 \in Gens
    BY <2>2, NextGen
  <2> QED BY <1>5, <2>1, Homes DEF Consent
<1>6. ASSUME NEW c \in Callers, ReadAll(c) PROVE Types'
  <2>1. NoTokens \in [Labels -> Gens]
    BY MaxGenAssumption DEF NoTokens, Gens
  <2>2. \E tokens \in {disk, NoTokens}, b \in BOOLEAN :
          all' = [all EXCEPT ![c] = tokens] /\ blind' = [blind EXCEPT ![c] = b]
    BY <1>6 DEF ReadAll, Read
  <2>3. all' \in [Callers -> [Labels -> Gens]] /\ blind' \in [Callers -> BOOLEAN]
    BY <2>1, <2>2
  <2> QED BY <1>6, <2>3, Homes DEF ReadAll, Read
<1>7. ASSUME NEW c \in Callers, Saved(c) PROVE
             /\ storeMu' \in [Processes -> Callers \cup {NoCaller}]
             /\ sourceMu' \in [Labels -> [Sources -> Callers \cup {NoCaller}]]
             /\ held' \in [Labels -> Gens] /\ source' \in [Labels -> Sources]
             /\ tok' \in [Callers -> Gens] /\ via' \in [Callers -> Sources]
             /\ all' \in [Callers -> [Labels -> Gens]]
             /\ consent' \in [Callers -> BOOLEAN]
             /\ pc' \in [Callers -> {"idle", "got", "save", "write"}]
             /\ UNCHANGED <<home, issued, last>>
  <2>1. NoTokens \in [Labels -> Gens] /\ 0 \in Gens
    BY MaxGenAssumption DEF NoTokens, Gens
  <2>2. \/ /\ held' = [held EXCEPT ![LabelOf[c]] = tok[c]]
           /\ source' = [source EXCEPT ![LabelOf[c]] = via[c]]
           /\ UNCHANGED sourceMu
        \/ /\ sourceMu' = [sourceMu EXCEPT ![LabelOf[c]][via[c]] = NoCaller]
           /\ UNCHANGED <<held, source>>
    BY <1>7 DEF Saved
  <2>6. LabelOf[c] \in Labels /\ via[c] \in Sources
    BY Homes
  <2>3. [sourceMu EXCEPT ![LabelOf[c]][via[c]] = NoCaller]
          \in [Labels -> [Sources -> Callers \cup {NoCaller}]]
    BY <2>6, Updated
  <2>4. held' \in [Labels -> Gens] /\ source' \in [Labels -> Sources]
    <3>1. held' = held \/ held' = [held EXCEPT ![LabelOf[c]] = tok[c]]
      BY <2>2
    <3>2. source' = source \/ source' = [source EXCEPT ![LabelOf[c]] = via[c]]
      BY <2>2
    <3>3. held' \in [Labels -> Gens]
      BY <3>1
    <3>4. source' \in [Labels -> Sources]
      BY <3>2
    <3> QED BY <3>3, <3>4
  <2>5. sourceMu' \in [Labels -> [Sources -> Callers \cup {NoCaller}]]
    BY <2>2, <2>3
  <2> QED BY <1>7, <2>1, <2>4, <2>5, Homes DEF Saved
<1>8. ASSUME NEW c \in Callers, Rename(c) PROVE Types'
  <2>1. disk' \in [Labels -> Gens]
    BY <1>8, Homes DEF Rename
  <2>2. writer' \in [Labels -> Sources \cup {Lost}] /\ blind' \in [Callers -> BOOLEAN]
    BY <1>8 DEF Rename
  <2> QED BY <1>8, <1>7, <2>1, <2>2 DEF Rename
<1>9. ASSUME NEW c \in Callers, WriteFails(c) PROVE Types'
  <2>1. writer' \in [Labels -> Sources \cup {Lost}] /\ blind' \in [Callers -> BOOLEAN]
    BY <1>9 DEF WriteFails
  <2> QED BY <1>9, <1>7, <2>1 DEF WriteFails
<1>10. ASSUME NEW p \in Processes, Restart(p) PROVE Types'
  <2>1. /\ NoTokens \in [Labels -> Gens] /\ 0 \in Gens
        /\ NothingSaved \in [Sources -> Gens]
        /\ AllFree \in [Sources -> Callers \cup {NoCaller}]
    BY MaxGenAssumption DEF NoTokens, Gens, NothingSaved, AllFree
  <2>2. /\ held' \in [Labels -> Gens] /\ source' \in [Labels -> Sources]
        /\ writer' \in [Labels -> Sources \cup {Lost}]
    BY <1>10, <2>1 DEF Restart
  <2>3. /\ last' \in [Labels -> [Sources -> Gens]]
        /\ sourceMu' \in [Labels -> [Sources -> Callers \cup {NoCaller}]]
        /\ storeMu' \in [Processes -> Callers \cup {NoCaller}]
    BY <1>10, <2>1 DEF Restart
  <2>4. /\ pc' = Reset(pc, p, "idle") /\ consent' = Reset(consent, p, FALSE)
        /\ blind' = Reset(blind, p, FALSE) /\ via' = Reset(via, p, 0)
        /\ tok' = Reset(tok, p, 0) /\ all' = Reset(all, p, NoTokens)
    BY <1>10 DEF Restart
  <2>5. pc' \in [Callers -> {"idle", "got", "save", "write"}]
    BY <2>4, ResetType
  <2>6. consent' \in [Callers -> BOOLEAN] /\ blind' \in [Callers -> BOOLEAN]
    BY <2>4, ResetType
  <2>7. via' \in [Callers -> Sources] /\ tok' \in [Callers -> Gens]
    BY <2>1, <2>4, ResetType
  <2>9. all' \in [Callers -> [Labels -> Gens]]
    BY <2>1, <2>4, ResetType
  <2>8. UNCHANGED <<home, disk, issued>>
    BY <1>10 DEF Restart
  <2> QED BY <2>2, <2>3, <2>5, <2>6, <2>7, <2>8, <2>9
<1> QED BY <1>1, <1>2, <1>3, <1>4, <1>5, <1>6, <1>8, <1>9, <1>10 DEF Next

\* What keeps a goroutine's mutexes as they are.
Undisturbed(c) ==
    /\ UNCHANGED <<home, pc[c], via[c], consent[c]>>
    /\ \A p \in Processes : storeMu'[p] = c <=> storeMu[p] = c
    /\ \A l \in Labels, s \in Sources : sourceMu'[l][s] = c <=> sourceMu[l][s] = c

LEMMA UndisturbedHolds == ASSUME NEW c \in Callers, Held(c), Undisturbed(c) PROVE Held(c)'
BY DEF Held, Undisturbed, ProcessOf

\* A mutex is held exactly while its holder saves.
LEMMA HoldersNext == Types /\ Holders /\ [Next]_vars => Holders'
<1> SUFFICES ASSUME Types, Holders, [Next]_vars PROVE Holders'
  OBVIOUS
<1> USE DEF Types, ProcessOf
<1>1. CASE UNCHANGED vars
  BY <1>1 DEF vars, callVars, Holders, Held
<1>2. ASSUME NEW c \in Callers, Held(c)', \A d \in Callers \ {c} : Undisturbed(d) PROVE Holders'
  BY <1>2, UndisturbedHolds DEF Holders
<1>3. ASSUME NEW c \in Callers, TokenCached(c) \/ TokenRefreshed(c) PROVE Holders'
  <2>1. /\ pc[c] = "idle" /\ Goto(c, "got") /\ Held(c)
        /\ \E s \in Sources : via' = [via EXCEPT ![c] = s]
        /\ UNCHANGED <<home, sourceMu, storeMu, consent>>
    BY <1>3, Homes DEF TokenCached, TokenRefreshed, Holders
  <2>2. Held(c)'
    BY <2>1 DEF Goto, Held
  <2>3. \A d \in Callers \ {c} : Undisturbed(d)
    BY <2>1 DEF Goto, Undisturbed
  <2> QED BY <1>2, <2>2, <2>3
<1>4. ASSUME NEW c \in Callers, Compare(c) PROVE Holders'
  <2>1. /\ pc[c] = "got" /\ sourceMu[LabelOf[c]][via[c]] = NoCaller /\ Held(c)
        /\ UNCHANGED <<home, storeMu, consent>>
    BY <1>4 DEF Compare, Holders
  <2>2. CASE Goto(c, "idle") /\ Forget(c) /\ UNCHANGED sourceMu
    <3>1. Held(c)'
      BY <2>1, <2>2 DEF Goto, Forget, Held
    <3>2. \A d \in Callers \ {c} : Undisturbed(d)
      BY <2>1, <2>2 DEF Goto, Forget, Undisturbed
    <3> QED BY <1>2, <3>1, <3>2
  <2>3. CASE /\ sourceMu' = [sourceMu EXCEPT ![LabelOf[c]][via[c]] = c]
             /\ Goto(c, "save") /\ UNCHANGED via
    <3>1. \A l \in Labels, s \in Sources :
            sourceMu'[l][s] = IF l = LabelOf[c] /\ s = via[c] THEN c ELSE sourceMu[l][s]
      BY <2>3, Homes
    <3>2. Held(c)'
      BY <2>1, <2>3, <3>1 DEF Goto, Held
    <3>3. \A d \in Callers \ {c} : Undisturbed(d)
      BY <2>1, <2>3, <3>1, NoCallerAssumption DEF Goto, Undisturbed
    <3> QED BY <1>2, <3>2, <3>3
  <2> QED BY <1>4, <2>2, <2>3 DEF Compare
<1>5. ASSUME NEW c \in Callers, Consent(c) PROVE Holders'
  <2>1. /\ pc[c] = "idle" /\ Goto(c, "save") /\ Held(c)
        /\ via' = [via EXCEPT ![c] = issued[LabelOf[c]] + 1]
        /\ consent' = [consent EXCEPT ![c] = TRUE]
        /\ UNCHANGED <<home, sourceMu, storeMu>>
    BY <1>5 DEF Consent, Holders
  <2>2. Held(c)'
    BY <2>1 DEF Goto, Held
  <2>3. \A d \in Callers \ {c} : Undisturbed(d)
    BY <2>1 DEF Goto, Undisturbed
  <2> QED BY <1>2, <2>2, <2>3
<1>6. ASSUME NEW c \in Callers, ReadAll(c) PROVE Holders'
  <2>1. /\ pc[c] = "save" /\ Goto(c, "write") /\ Held(c)
        /\ storeMu[ProcessOf(c)] = NoCaller /\ storeMu' = [storeMu EXCEPT ![ProcessOf(c)] = c]
        /\ UNCHANGED <<home, sourceMu, consent, via>>
    BY <1>6 DEF ReadAll, Read, Holders
  <2>2. Held(c)'
    BY <2>1, Homes DEF Goto, Held
  <2>3. \A d \in Callers \ {c} : Undisturbed(d)
    BY <2>1, NoCallerAssumption DEF Goto, Undisturbed
  <2> QED BY <1>2, <2>2, <2>3
<1>7. ASSUME NEW c \in Callers, pc[c] = "write", Saved(c) PROVE Holders'
  <2>1. /\ Goto(c, "idle") /\ Forget(c) /\ Held(c)
        /\ storeMu' = [storeMu EXCEPT ![ProcessOf(c)] = NoCaller]
        /\ consent' = [consent EXCEPT ![c] = FALSE]
        /\ UNCHANGED home
    BY <1>7 DEF Saved, Holders
  <2>2. \A l \in Labels, s \in Sources :
          sourceMu'[l][s] = IF l = LabelOf[c] /\ s = via[c] /\ ~consent[c] THEN NoCaller
                            ELSE sourceMu[l][s]
    BY <1>7, Homes DEF Saved
  <2>3. sourceMu[LabelOf[c]][via[c]] = c \/ consent[c]
    BY <1>7, <2>1, Homes DEF Held
  <2>4. storeMu[ProcessOf(c)] = c
    BY <1>7, <2>1, Homes DEF Held
  <2>5. Held(c)'
    <3>1. pc'[c] = "idle" /\ consent'[c] = FALSE
      BY <2>1 DEF Goto
    <3>2. \A p \in Processes : storeMu'[p] # c
      BY <2>1, NoCallerAssumption DEF Held
    <3>3. \A l \in Labels, s \in Sources : sourceMu'[l][s] # c
      <4> SUFFICES ASSUME NEW l \in Labels, NEW s \in Sources, sourceMu'[l][s] = c PROVE FALSE
        OBVIOUS
      <4>1. sourceMu[l][s] = c /\ ~(l = LabelOf[c] /\ s = via[c] /\ ~consent[c])
        BY <2>2, NoCallerAssumption
      <4> QED BY <2>1, <4>1 DEF Held
    <3> QED BY <3>1, <3>2, <3>3 DEF Held
  <2>6. \A d \in Callers \ {c} : Undisturbed(d)
    BY <2>1, <2>2, <2>3, <2>4, NoCallerAssumption DEF Goto, Forget, Undisturbed
  <2> QED BY <1>2, <2>5, <2>6
<1>8. ASSUME NEW c \in Callers, Rename(c) \/ WriteFails(c) PROVE Holders'
  BY <1>7, <1>8 DEF Rename, WriteFails
<1>9. ASSUME NEW p \in Processes, Restart(p) PROVE Holders'
  <2>1. /\ pc' = Reset(pc, p, "idle") /\ consent' = Reset(consent, p, FALSE)
        /\ via' = Reset(via, p, 0)
        /\ storeMu' = [storeMu EXCEPT ![p] = NoCaller]
        /\ sourceMu' = [l \in Labels |-> IF home[l] = p THEN AllFree ELSE sourceMu[l]]
        /\ UNCHANGED home
    BY <1>9 DEF Restart
  <2>2. ASSUME NEW c \in Callers, ProcessOf(c) = p PROVE Held(c)'
    <3>1. pc'[c] = "idle" /\ consent'[c] = FALSE
      BY <2>1, <2>2 DEF Reset
    <3>2. \A q \in Processes : storeMu'[q] # c
      BY <2>1, <2>2, NoCallerAssumption DEF Holders, Held
    <3>3. \A l \in Labels, s \in Sources : sourceMu'[l][s] # c
      BY <2>1, <2>2, NoCallerAssumption DEF AllFree, Holders, Held
    <3> QED BY <3>1, <3>2, <3>3 DEF Held
  <2>3. ASSUME NEW c \in Callers, ProcessOf(c) # p PROVE Held(c)'
    <3>1. UNCHANGED <<home, pc[c], via[c], consent[c]>>
      BY <2>1, <2>3 DEF Reset
    <3>2. \A q \in Processes : storeMu'[q] = c <=> storeMu[q] = c
      BY <2>1, <2>3, NoCallerAssumption DEF Holders, Held
    <3>3. \A l \in Labels, s \in Sources : sourceMu'[l][s] = c <=> sourceMu[l][s] = c
      BY <2>1, <2>3, NoCallerAssumption DEF AllFree, Holders, Held
    <3> QED BY <3>1, <3>2, <3>3, UndisturbedHolds DEF Undisturbed, Holders
  <2> QED BY <2>2, <2>3 DEF Holders
<1> QED BY <1>1, <1>3, <1>4, <1>5, <1>6, <1>8, <1>9 DEF Next

\* A Save that knows the file replaces it by one that differs in its own label.
LEMMA UpToDateNext == Types /\ Holders /\ UpToDate /\ [Next]_vars => UpToDate'
<1> SUFFICES ASSUME Types, Holders, UpToDate, [Next]_vars PROVE UpToDate'
  OBVIOUS
<1> USE DEF Types, UpToDate
<1>1. CASE UNCHANGED vars
  BY <1>1 DEF vars, callVars
<1>2. ASSUME NEW c \in Callers, TokenCached(c) \/ TokenRefreshed(c) \/ Compare(c) \/ Consent(c)
      PROVE  UpToDate'
  <2>1. /\ \E step \in {"idle", "got", "save"} : Goto(c, step)
        /\ UNCHANGED <<disk, all, blind>>
    BY <1>2 DEF TokenCached, TokenRefreshed, Compare, Consent
  <2> QED BY <2>1 DEF Goto
<1>3. ASSUME NEW c \in Callers, ReadAll(c) PROVE UpToDate'
  <2>1. /\ Goto(c, "write") /\ UNCHANGED disk
        /\ \E tokens \in {disk, NoTokens}, b \in BOOLEAN :
             /\ all' = [all EXCEPT ![c] = tokens] /\ blind' = [blind EXCEPT ![c] = b]
             /\ b \/ tokens = disk
    BY <1>3 DEF ReadAll, Read
  <2> QED BY <2>1 DEF Goto
<1>4. ASSUME NEW c \in Callers, Rename(c) PROVE UpToDate'
  <2>1. /\ pc[c] = "write" /\ Goto(c, "idle")
        /\ blind' = [d \in Callers |-> d # c /\ (blind[d] \/ d \in Overtaken(c))]
    BY <1>4 DEF Rename, Saved
  <2> SUFFICES ASSUME NEW d \in Callers, pc'[d] = "write" PROVE blind'[d]
    OBVIOUS
  <2>2. d # c /\ pc[d] = "write"
    BY <2>1 DEF Goto
  <2>3. ProcessOf(d) # ProcessOf(c)
    BY <2>1, <2>2, Homes DEF Holders, Held
  <2> QED BY <2>1, <2>2, <2>3 DEF Overtaken
<1>5. ASSUME NEW c \in Callers, WriteFails(c) PROVE UpToDate'
  <2>1. /\ Goto(c, "idle") /\ UNCHANGED disk
        /\ blind' = [blind EXCEPT ![c] = FALSE]
        /\ all' = [all EXCEPT ![c] = NoTokens]
    BY <1>5 DEF WriteFails, Saved
  <2> QED BY <2>1 DEF Goto
<1>6. ASSUME NEW p \in Processes, Restart(p) PROVE UpToDate'
  <2>1. /\ pc' = Reset(pc, p, "idle") /\ all' = Reset(all, p, NoTokens)
        /\ blind' = Reset(blind, p, FALSE) /\ UNCHANGED disk
    BY <1>6 DEF Restart
  <2> QED BY <2>1 DEF Reset
<1> QED BY <1>1, <1>2, <1>3, <1>4, <1>5, <1>6 DEF Next

LEMMA TokenNext == TokenInv /\ [Next]_vars => TokenInv'
BY TypesNext, HoldersNext, UpToDateNext DEF TokenInv

----------------------------------------------------------------------------

\* Every variable keeps its type, and a mutex is held exactly by a goroutine that
\* saves, through refreshes, consents and crashes (store.go:80-88,182-194).
THEOREM TokenTypeCorrect == Spec => []TypeOK
<1>1. TokenInv => TypeOK
  BY HoldersHoldMutexes DEF TokenInv
<1> QED BY TokenInit, TokenNext, <1>1, PTL DEF Spec

----------------------------------------------------------------------------
(* The file at rest.                                                       *)

\* A source is named by a token that has been issued, and only such a source has
\* compared any.
Known ==
    /\ \A c \in Callers : via[c] <= issued[LabelOf[c]]
    /\ \A l \in Labels : /\ source[l] <= issued[l]
                         /\ \A s \in Sources : last[l][s] # 0 => s <= issued[l]

\* A goroutine that works has a token.
HasToken == \A c \in Callers : pc[c] # "idle" => tok[c] > 0

\* The source a consent will install is new: it has compared nothing, and nobody
\* else uses it.
New(c) ==
    LET l == LabelOf[c] IN
    consent[c] => /\ via[c] = tok[c] /\ via[c] # source[l] /\ last[l][via[c]] = 0
                  /\ \A d \in Callers : d # c /\ LabelOf[d] = l => via[d] # via[c]
AllNew == \A c \in Callers : New(c)

Saving(c) == pc[c] \in {"save", "write"}

\* What a goroutine saves for a source is what the source compared last.
Marked(c) == Saving(c) /\ ~consent[c] => tok[c] = last[LabelOf[c]][via[c]]
AllMarked == \A c \in Callers : Marked(c)

\* FileFollowsSource, without waiting for the goroutines that are not saving.
Unsaved(l) == \E c \in Callers : LabelOf[c] = l /\ via[c] = source[l] /\ Saving(c)
Follows(l) ==
    writer[l] = source[l] =>
        /\ last[l][source[l]] # 0 /\ ~Unsaved(l) => disk[l] = last[l][source[l]]
        /\ last[l][source[l]] = 0 /\ Quiet(l) => disk[l] = held[l]
AllFollow == \A l \in Labels : Follows(l)

\* A goroutine that nobody races works on the source and the token in use, and
\* between its calls the source has compared no other.
Current(c) ==
    pc[c] # "idle" /\ ~consent[c] =>
        via[c] = source[LabelOf[c]] /\ tok[c] = held[LabelOf[c]]
Settled(l) ==
    (\A c \in Callers : LabelOf[c] = l => pc[c] = "idle" \/ consent[c])
        => last[l][source[l]] \in {0, held[l]}
Unraced(l) == Alone(l) => Settled(l) /\ \A c \in Callers : LabelOf[c] = l => Current(c)
AllUnraced == \A l \in Labels : Unraced(l)

FileInv ==
    TokenInv /\ Known /\ HasToken /\ AllNew /\ AllMarked /\ AllFollow /\ AllUnraced

LEMMA FileInit == Init => FileInv
<1> SUFFICES ASSUME Init PROVE FileInv
  OBVIOUS
<1> USE LabelAssumption DEF Init, NoTokens, NothingSaved, Sources
<1>1. Known
  BY MaxGenAssumption DEF Known, Gens
<1>2. HasToken /\ AllNew /\ AllMarked
  BY DEF HasToken, AllNew, New, AllMarked, Marked, Saving
<1>3. AllFollow
  BY MaxGenAssumption DEF AllFollow, Follows, Gens
<1>4. AllUnraced
  BY MaxGenAssumption DEF AllUnraced, Unraced, Settled, Current, Gens
<1> QED BY <1>1, <1>2, <1>3, <1>4, TokenInit DEF FileInv

\* Generations are numbers, and no source is Lost.
LEMMA Numbers == Gens \subseteq Nat /\ 0 \in Gens /\ Lost \notin Sources
BY MaxGenAssumption DEF Gens, Sources, Lost

\* What the end of a Save does to the sources.
LEMMA SavedMoves ==
    ASSUME Types, NEW c \in Callers, Saved(c)
    PROVE  /\ pc' = [pc EXCEPT ![c] = "idle"] /\ tok' = [tok EXCEPT ![c] = 0]
           /\ via' = [via EXCEPT ![c] = 0] /\ consent' = [consent EXCEPT ![c] = FALSE]
           /\ consent[c] => /\ source' = [source EXCEPT ![LabelOf[c]] = via[c]]
                            /\ held' = [held EXCEPT ![LabelOf[c]] = tok[c]]
           /\ ~consent[c] => UNCHANGED <<source, held>>
           /\ UNCHANGED <<home, issued, last>>
BY DEF Saved, Goto, Forget

\* The domains and ranges the numbers come from.
LEMMA Ranges ==
    ASSUME Types
    PROVE  /\ issued \in [Labels -> Nat] /\ source \in [Labels -> Nat]
           /\ via \in [Callers -> Nat] /\ tok \in [Callers -> Nat]
           /\ last \in [Labels -> [Sources -> Nat]] /\ Sources \subseteq Nat
           /\ \A c \in Callers : LabelOf[c] \in Labels
<1>1. issued \in [Labels -> Nat] /\ source \in [Labels -> Nat]
  BY Numbers DEF Types, Sources
<1>2. via \in [Callers -> Nat] /\ tok \in [Callers -> Nat]
  BY Numbers DEF Types, Sources
<1>3. last \in [Labels -> [Sources -> Nat]]
  <2>1. [Sources -> Gens] \subseteq [Sources -> Nat]
    BY Numbers
  <2> QED BY <2>1 DEF Types
<1> QED BY <1>1, <1>2, <1>3, Homes, Numbers DEF Sources

LEMMA KnownNext == FileInv /\ [Next]_vars => Known'
<1> SUFFICES ASSUME FileInv, [Next]_vars PROVE Known'
  OBVIOUS
<1>1. Types /\ Known
  BY DEF FileInv, TokenInv
<1>r. /\ issued \in [Labels -> Nat] /\ source \in [Labels -> Nat]
      /\ via \in [Callers -> Nat] /\ tok \in [Callers -> Nat]
      /\ last \in [Labels -> [Sources -> Nat]] /\ Sources \subseteq Nat
      /\ \A c \in Callers : LabelOf[c] \in Labels
  BY <1>1, Ranges
<1>k. /\ \A c \in Callers : via[c] <= issued[LabelOf[c]]
      /\ \A l \in Labels : source[l] <= issued[l]
      /\ \A l \in Labels, s \in Sources : last[l][s] # 0 => s <= issued[l]
  BY <1>1 DEF Known
<1>2. CASE UNCHANGED vars
  BY <1>1, <1>2 DEF vars, callVars, Known
\* More tokens issued, at most one goroutine with another source.
<1>3. ASSUME NEW c \in Callers, NEW s \in Nat, via' = [via EXCEPT ![c] = s],
             \A l \in Labels : issued'[l] \in Nat /\ issued[l] <= issued'[l],
             s <= issued'[LabelOf[c]], UNCHANGED <<source, last>>
      PROVE  Known'
  <2>1. ASSUME NEW d \in Callers PROVE via'[d] <= issued'[LabelOf[d]]
    <3>1. LabelOf[d] \in Labels /\ issued[LabelOf[d]] \in Nat /\ issued'[LabelOf[d]] \in Nat
      BY <1>r, <1>3
    <3>2. CASE d = c
      BY <1>r, <1>3, <3>2
    <3>3. CASE d # c
      <4>1. via'[d] = via[d] /\ via[d] \in Nat /\ via[d] <= issued[LabelOf[d]]
        BY <1>r, <1>k, <1>3, <3>3
      <4> QED BY <1>3, <3>1, <4>1
    <3> QED BY <3>2, <3>3
  <2>2. ASSUME NEW l \in Labels PROVE source'[l] <= issued'[l]
    <3>1. source'[l] = source[l] /\ source[l] \in Nat /\ issued[l] \in Nat /\ issued'[l] \in Nat
          /\ source[l] <= issued[l] /\ issued[l] <= issued'[l]
      BY <1>r, <1>k, <1>3
    <3> QED BY <3>1
  <2>3. ASSUME NEW l \in Labels, NEW t \in Sources, last'[l][t] # 0 PROVE t <= issued'[l]
    <3>1. t \in Nat /\ issued[l] \in Nat /\ issued'[l] \in Nat
          /\ t <= issued[l] /\ issued[l] <= issued'[l]
      BY <1>r, <1>k, <1>3, <2>3
    <3> QED BY <3>1
  <2> QED BY <2>1, <2>2, <2>3 DEF Known
<1>4. ASSUME NEW c \in Callers, TokenCached(c) PROVE Known'
  <2>1. via' = [via EXCEPT ![c] = source[LabelOf[c]]] /\ UNCHANGED <<issued, source, last>>
    BY <1>4 DEF TokenCached
  <2>2. source[LabelOf[c]] \in Nat /\ source[LabelOf[c]] <= issued'[LabelOf[c]]
    BY <1>r, <1>k, <2>1
  <2>3. \A l \in Labels : issued'[l] \in Nat /\ issued[l] <= issued'[l]
    BY <1>r, <2>1
  <2> QED BY <1>3, <2>1, <2>2, <2>3
<1>5. ASSUME NEW c \in Callers, TokenRefreshed(c) PROVE Known'
  <2>1. /\ issued' = [issued EXCEPT ![LabelOf[c]] = @ + 1]
        /\ via' = [via EXCEPT ![c] = source[LabelOf[c]]] /\ UNCHANGED <<source, last>>
    BY <1>5 DEF TokenRefreshed
  <2>2. \A l \in Labels : issued'[l] \in Nat /\ issued[l] <= issued'[l]
    BY <1>r, <2>1
  <2>3. source[LabelOf[c]] \in Nat /\ source[LabelOf[c]] <= issued'[LabelOf[c]]
    BY <1>r, <1>k, <2>1
  <2> QED BY <1>3, <2>1, <2>2, <2>3
<1>6. ASSUME NEW c \in Callers, Compare(c) PROVE Known'
  <2>1. /\ via' = via \/ via' = [via EXCEPT ![c] = 0]
        /\ last' = last \/ last' = [last EXCEPT ![LabelOf[c]][via[c]] = tok[c]]
        /\ UNCHANGED <<issued, source>>
    BY <1>6 DEF Compare, Forget
  <2>2. \A d \in Callers : via'[d] <= issued[LabelOf[d]]
    BY <1>r, <1>k, <2>1
  <2>3. ASSUME NEW l \in Labels, NEW s \in Sources, last'[l][s] # 0 PROVE s <= issued[l]
    <3>1. CASE l = LabelOf[c] /\ s = via[c]
      BY <1>k, <3>1
    <3>2. CASE ~(l = LabelOf[c] /\ s = via[c])
      <4>1. last'[l][s] = last[l][s]
        BY <1>r, <2>1, <3>2
      <4> QED BY <1>k, <2>3, <4>1
    <3> QED BY <3>1, <3>2
  <2> QED BY <1>k, <2>1, <2>2, <2>3 DEF Known
<1>7. ASSUME NEW c \in Callers, Consent(c) PROVE Known'
  <2>1. /\ issued' = [issued EXCEPT ![LabelOf[c]] = @ + 1]
        /\ via' = [via EXCEPT ![c] = issued[LabelOf[c]] + 1] /\ UNCHANGED <<source, last>>
    BY <1>7 DEF Consent
  <2>2. \A l \in Labels : issued'[l] \in Nat /\ issued[l] <= issued'[l]
    BY <1>r, <2>1
  <2>3. issued[LabelOf[c]] + 1 \in Nat /\ issued[LabelOf[c]] + 1 <= issued'[LabelOf[c]]
    BY <1>r, <2>1
  <2> QED BY <1>3, <2>1, <2>2, <2>3
<1>8. ASSUME NEW c \in Callers, ReadAll(c) PROVE Known'
  BY <1>1, <1>8 DEF ReadAll, Read, Known
<1>9. ASSUME NEW c \in Callers, Rename(c) \/ WriteFails(c) PROVE Known'
  <2>1. Saved(c)
    BY <1>9 DEF Rename, WriteFails
  <2>2. /\ via' = [via EXCEPT ![c] = 0] /\ UNCHANGED <<issued, last>>
        /\ source' = source \/ source' = [source EXCEPT ![LabelOf[c]] = via[c]]
    BY <1>1, <2>1, SavedMoves
  <2>3. \A d \in Callers : via'[d] <= issued[LabelOf[d]]
    BY <1>r, <1>k, <2>2
  <2>4. \A l \in Labels : source'[l] <= issued[l]
    BY <1>r, <1>k, <2>2
  <2> QED BY <1>k, <2>2, <2>3, <2>4 DEF Known
<1>10. ASSUME NEW p \in Processes, Restart(p) PROVE Known'
  <2>1. /\ \A c \in Callers : via'[c] \in {via[c], 0}
        /\ \A l \in Labels : source'[l] \in {source[l], 0}
        /\ \A l \in Labels : last'[l] \in {last[l], NothingSaved}
        /\ UNCHANGED issued
    BY <1>10 DEF Restart, Reset
  <2>2. \A d \in Callers : via'[d] <= issued[LabelOf[d]]
    BY <1>r, <1>k, <2>1
  <2>3. \A l \in Labels : source'[l] <= issued[l]
    BY <1>r, <1>k, <2>1
  <2>4. \A l \in Labels, s \in Sources : last'[l][s] # 0 => s <= issued[l]
    BY <1>k, <2>1 DEF NothingSaved
  <2> QED BY <2>1, <2>2, <2>3, <2>4 DEF Known
<1> QED BY <1>2, <1>4, <1>5, <1>6, <1>7, <1>8, <1>9, <1>10 DEF Next

LEMMA HasTokenNext == FileInv /\ [Next]_vars => HasToken'
<1> SUFFICES ASSUME FileInv, [Next]_vars PROVE HasToken'
  OBVIOUS
<1>1. Types /\ HasToken
  BY DEF FileInv, TokenInv
<1> USE <1>1, Homes, Numbers DEF Types, HasToken, Goto, Forget
<1>2. CASE UNCHANGED vars
  BY <1>2 DEF vars, callVars
<1>3. ASSUME NEW c \in Callers, TokenCached(c) \/ TokenRefreshed(c) \/ Consent(c) PROVE HasToken'
  <2>0. held[LabelOf[c]] \in Nat /\ issued[LabelOf[c]] \in Nat
    OBVIOUS
  <2>1. \E g \in {held[LabelOf[c]], held[LabelOf[c]] + 1, issued[LabelOf[c]] + 1} :
          g > 0 /\ tok' = [tok EXCEPT ![c] = g]
    <3>1. CASE TokenCached(c)
      BY <3>1 DEF TokenCached
    <3>2. CASE TokenRefreshed(c)
      BY <2>0, <3>2 DEF TokenRefreshed
    <3>3. CASE Consent(c)
      BY <2>0, <3>3 DEF Consent
    <3> QED BY <1>3, <3>1, <3>2, <3>3
  <2>2. \E step \in {"got", "save"} : pc' = [pc EXCEPT ![c] = step]
    BY <1>3 DEF TokenCached, TokenRefreshed, Consent
  <2> QED BY <2>1, <2>2
<1>4. ASSUME NEW c \in Callers, Compare(c) PROVE HasToken'
  <2>1. pc[c] = "got" /\ \/ pc' = [pc EXCEPT ![c] = "save"] /\ tok' = tok
                         \/ pc' = [pc EXCEPT ![c] = "idle"] /\ tok' = [tok EXCEPT ![c] = 0]
    BY <1>4 DEF Compare
  <2> QED BY <2>1
<1>5. ASSUME NEW c \in Callers, ReadAll(c) PROVE HasToken'
  BY <1>5 DEF ReadAll, Read
<1>6. ASSUME NEW c \in Callers, Rename(c) \/ WriteFails(c) PROVE HasToken'
  <2>1. Saved(c)
    BY <1>6 DEF Rename, WriteFails
  <2>2. pc' = [pc EXCEPT ![c] = "idle"] /\ tok' = [tok EXCEPT ![c] = 0]
    BY <2>1, SavedMoves
  <2> QED BY <2>2
<1>7. ASSUME NEW p \in Processes, Restart(p) PROVE HasToken'
  <2>1. \A c \in Callers : pc'[c] = "idle" \/ (pc'[c] = pc[c] /\ tok'[c] = tok[c])
    BY <1>7 DEF Restart, Reset
  <2> QED BY <2>1
<1> QED BY <1>2, <1>3, <1>4, <1>5, <1>6, <1>7 DEF Next

\* What a goroutine that is not part of a step relies on.
LEMMA NewStays ==
    ASSUME NEW c \in Callers, New(c), UNCHANGED <<consent[c], via[c], tok[c]>>,
           consent[c] => /\ source'[LabelOf[c]] # via[c]
                         /\ last'[LabelOf[c]][via[c]] = last[LabelOf[c]][via[c]]
                         /\ \A d \in Callers : d # c /\ LabelOf[d] = LabelOf[c] => via'[d] # via[c]
    PROVE  New(c)'
BY DEF New

LEMMA AllNewNext == FileInv /\ [Next]_vars => AllNew'
<1> SUFFICES ASSUME FileInv, [Next]_vars PROVE AllNew'
  OBVIOUS
<1>1. Types /\ Holders /\ Known /\ HasToken /\ AllNew
  BY DEF FileInv, TokenInv
<1> USE <1>1, Homes, Numbers DEF Types, AllNew, Goto, Forget
<1> DEFINE Same(d) == UNCHANGED <<consent[d], via[d], tok[d]>>
<1>n. \A d \in Callers : consent[d] => via[d] > 0 /\ Saving(d)
  BY DEF HasToken, Holders, Held, New, Saving
<1>2. CASE UNCHANGED vars
  BY <1>2 DEF vars, callVars, New
<1>3. ASSUME NEW c \in Callers, TokenCached(c) \/ TokenRefreshed(c) PROVE AllNew'
  <2>1. /\ pc[c] = "idle" /\ via' = [via EXCEPT ![c] = source[LabelOf[c]]]
        /\ UNCHANGED <<consent, source, last>> /\ \A d \in Callers \ {c} : tok'[d] = tok[d]
    BY <1>3 DEF TokenCached, TokenRefreshed
  <2>2. ~consent[c] /\ New(c)'
    BY <2>1, <1>n DEF New, Saving
  <2>3. ASSUME NEW d \in Callers \ {c} PROVE New(d)'
    <3>1. consent[d] => via[d] # source[LabelOf[d]]
             /\ \A e \in Callers : e # d /\ LabelOf[e] = LabelOf[d] => via[e] # via[d]
      BY DEF New
    <3>2. \A e \in Callers : e # c => via'[e] = via[e]
      BY <2>1
    <3>3. via'[c] = source[LabelOf[c]]
      BY <2>1
    <3> QED BY <2>1, <3>1, <3>2, <3>3, NewStays
  <2> QED BY <2>2, <2>3
<1>4. ASSUME NEW c \in Callers, Compare(c) PROVE AllNew'
  <2>1. /\ pc[c] = "got" /\ UNCHANGED <<consent, source>>
        /\ via' = via \/ via' = [via EXCEPT ![c] = 0]
        /\ last' = last \/ last' = [last EXCEPT ![LabelOf[c]][via[c]] = tok[c]]
        /\ \A d \in Callers \ {c} : tok'[d] = tok[d]
    BY <1>4 DEF Compare
  <2>2. ~consent[c] /\ New(c)'
    BY <2>1, <1>n DEF New, Saving
  <2>3. ASSUME NEW d \in Callers \ {c} PROVE New(d)'
    <3>1. consent[d] => /\ via[d] # source[LabelOf[d]] /\ via[d] > 0
                        /\ \A e \in Callers : e # d /\ LabelOf[e] = LabelOf[d] => via[e] # via[d]
      BY <1>n DEF New
    <3>2. \A e \in Callers : via'[e] = via[e] \/ via'[e] = 0
      BY <2>1
    <3>3. via'[d] = via[d]
      BY <2>1
    <3>4. consent[d] => last'[LabelOf[d]][via[d]] = last[LabelOf[d]][via[d]]
      <4>1. consent[d] => ~(LabelOf[d] = LabelOf[c] /\ via[d] = via[c])
        BY <3>1
      <4>2. CASE last' = last
        BY <4>2
      <4>3. CASE last' = [last EXCEPT ![LabelOf[c]][via[c]] = tok[c]]
        BY <4>1, <4>3
      <4> QED BY <2>1, <4>2, <4>3
    <3> QED BY <2>1, <3>1, <3>2, <3>3, <3>4, NewStays
  <2> QED BY <2>2, <2>3
<1>5. ASSUME NEW c \in Callers, Consent(c) PROVE AllNew'
  <2> DEFINE l == LabelOf[c]
             g == issued[l] + 1
  <2>1. /\ via' = [via EXCEPT ![c] = g] /\ tok' = [tok EXCEPT ![c] = g]
        /\ consent' = [consent EXCEPT ![c] = TRUE] /\ UNCHANGED <<source, last>>
        /\ \A d \in Callers : LabelOf[d] = l => ~consent[d]
        /\ issued[l] < MaxGen
    BY <1>5 DEF Consent
  <2>2. g \in Sources
    BY <2>1, NextGen DEF Sources
  <2>5. issued[l] \in Nat /\ source[l] \in Nat /\ \A d \in Callers : via[d] \in Nat
    BY Ranges
  <2>3. /\ source[l] # g /\ last[l][g] = 0
        /\ \A d \in Callers : LabelOf[d] = l => via[d] # g
    <3>1. source[l] <= issued[l] /\ (last[l][g] # 0 => g <= issued[l])
          /\ \A d \in Callers : LabelOf[d] = l => via[d] <= issued[l]
      BY <2>2 DEF Known
    <3> QED BY <2>5, <3>1
  <2>4. New(c)'
    BY <2>1, <2>3 DEF New
  <2>6. ASSUME NEW d \in Callers \ {c} PROVE New(d)'
    <3>1. Same(d)
      BY <2>1
    <3>2. CASE LabelOf[d] = l
      BY <2>1, <3>1, <3>2 DEF New
    <3>3. CASE LabelOf[d] # l
      <4>1. \A e \in Callers : LabelOf[e] = LabelOf[d] => via'[e] = via[e]
        BY <2>1, <3>3
      <4> QED BY <2>1, <3>1, <4>1, NewStays DEF New
    <3> QED BY <3>2, <3>3
  <2> QED BY <2>4, <2>6
<1>6. ASSUME NEW c \in Callers, ReadAll(c) PROVE AllNew'
  BY <1>6 DEF ReadAll, Read, New
<1>7. ASSUME NEW c \in Callers, Rename(c) \/ WriteFails(c) PROVE AllNew'
  <2>1. Saved(c)
    BY <1>7 DEF Rename, WriteFails
  <2>2. /\ via' = [via EXCEPT ![c] = 0] /\ consent' = [consent EXCEPT ![c] = FALSE]
        /\ tok' = [tok EXCEPT ![c] = 0] /\ UNCHANGED last
        /\ source' = source \/ source' = [source EXCEPT ![LabelOf[c]] = via[c]]
    BY <2>1, SavedMoves
  <2>3. New(c)'
    BY <2>2 DEF New
  <2>4. ASSUME NEW d \in Callers \ {c} PROVE New(d)'
    <3>1. consent[d] => /\ via[d] # source[LabelOf[d]] /\ via[d] > 0
                        /\ \A e \in Callers : e # d /\ LabelOf[e] = LabelOf[d] => via[e] # via[d]
      BY <1>n DEF New
    <3>2. consent[d] => source'[LabelOf[d]] # via[d]
      BY <2>2, <3>1
    <3>3. \A e \in Callers : via'[e] = via[e] \/ via'[e] = 0
      BY <2>2
    <3>4. Same(d) /\ New(d)
      BY <2>2
    <3>5. ASSUME consent[d], NEW e \in Callers, e # d, LabelOf[e] = LabelOf[d] PROVE via'[e] # via[d]
      BY <3>1, <3>3, <3>5
    <3>6. last'[LabelOf[d]][via[d]] = last[LabelOf[d]][via[d]]
      BY <2>2
    <3> QED BY <3>2, <3>4, <3>5, <3>6, NewStays
  <2> QED BY <2>3, <2>4
<1>8. ASSUME NEW p \in Processes, Restart(p) PROVE AllNew'
  <2> SUFFICES ASSUME NEW d \in Callers PROVE New(d)'
    OBVIOUS
  <2>1. CASE ProcessOf(d) = p
    <3>1. ~consent'[d]
      BY <1>8, <2>1 DEF Restart, Reset
    <3> QED BY <3>1 DEF New
  <2>2. CASE ProcessOf(d) # p
    <3>1. /\ Same(d) /\ source'[LabelOf[d]] = source[LabelOf[d]]
          /\ last'[LabelOf[d]] = last[LabelOf[d]]
          /\ \A e \in Callers : LabelOf[e] = LabelOf[d] => via'[e] = via[e]
      BY <1>8, <2>2 DEF Restart, Reset, ProcessOf
    <3>2. consent[d] => /\ via[d] # source[LabelOf[d]]
                        /\ \A e \in Callers : e # d /\ LabelOf[e] = LabelOf[d] => via[e] # via[d]
      BY DEF New
    <3> QED BY <3>1, <3>2, NewStays
  <2> QED BY <2>1, <2>2
<1> QED BY <1>2, <1>3, <1>4, <1>5, <1>6, <1>7, <1>8 DEF Next

\* p.mu is held from the comparison to the end of the Save.
LEMMA AllMarkedNext == FileInv /\ [Next]_vars => AllMarked'
<1> SUFFICES ASSUME FileInv, [Next]_vars PROVE AllMarked'
  OBVIOUS
<1>1. Types /\ Holders /\ AllMarked
  BY DEF FileInv, TokenInv
<1> USE <1>1, Homes, Numbers DEF Types, AllMarked, Marked, Saving, Goto, Forget
<1>2. CASE UNCHANGED vars
  BY <1>2 DEF vars, callVars
<1>3. ASSUME NEW c \in Callers, TokenCached(c) \/ TokenRefreshed(c) PROVE AllMarked'
  <2>1. /\ pc' = [pc EXCEPT ![c] = "got"] /\ UNCHANGED <<consent, last>>
        /\ \A d \in Callers \ {c} : tok'[d] = tok[d] /\ via'[d] = via[d]
    BY <1>3 DEF TokenCached, TokenRefreshed
  <2> QED BY <2>1
<1>4. ASSUME NEW c \in Callers, Compare(c) PROVE AllMarked'
  <2>1. /\ sourceMu[LabelOf[c]][via[c]] = NoCaller /\ UNCHANGED consent
        /\ \A d \in Callers \ {c} : pc'[d] = pc[d] /\ tok'[d] = tok[d] /\ via'[d] = via[d]
    BY <1>4 DEF Compare
  <2>2. \/ pc'[c] = "idle" /\ last' = last
        \/ /\ last' = [last EXCEPT ![LabelOf[c]][via[c]] = tok[c]]
           /\ UNCHANGED <<via, tok>>
    BY <1>4 DEF Compare
  <2>3. Marked(c)'
    BY <2>2
  <2>4. ASSUME NEW d \in Callers \ {c}, Saving(d), ~consent[d] PROVE Marked(d)'
    <3>1. sourceMu[LabelOf[d]][via[d]] = d
      BY <2>4 DEF Holders, Held
    <3>2. ~(LabelOf[d] = LabelOf[c] /\ via[d] = via[c])
      BY <2>1, <3>1, NoCallerAssumption
    <3>3. last'[LabelOf[d]][via[d]] = last[LabelOf[d]][via[d]]
      BY <2>2, <3>2
    <3> QED BY <2>1, <2>4, <3>3
  <2> QED BY <2>1, <2>3, <2>4
<1>5. ASSUME NEW c \in Callers, Consent(c) PROVE AllMarked'
  <2>1. /\ consent' = [consent EXCEPT ![c] = TRUE] /\ UNCHANGED last
        /\ \A d \in Callers \ {c} : pc'[d] = pc[d] /\ tok'[d] = tok[d] /\ via'[d] = via[d]
    BY <1>5 DEF Consent
  <2> QED BY <2>1
<1>6. ASSUME NEW c \in Callers, ReadAll(c) PROVE AllMarked'
  BY <1>6 DEF ReadAll, Read
<1>7. ASSUME NEW c \in Callers, Rename(c) \/ WriteFails(c) PROVE AllMarked'
  <2>1. Saved(c)
    BY <1>7 DEF Rename, WriteFails
  <2>2. /\ pc' = [pc EXCEPT ![c] = "idle"] /\ UNCHANGED last
        /\ \A d \in Callers \ {c} : UNCHANGED <<tok[d], via[d], consent[d]>>
    BY <2>1, SavedMoves
  <2> QED BY <2>2
<1>8. ASSUME NEW p \in Processes, Restart(p) PROVE AllMarked'
  <2> SUFFICES ASSUME NEW d \in Callers PROVE Marked(d)'
    OBVIOUS
  <2>1. CASE ProcessOf(d) = p
    BY <1>8, <2>1 DEF Restart, Reset
  <2>2. CASE ProcessOf(d) # p
    <3>1. /\ UNCHANGED <<pc[d], consent[d], via[d], tok[d]>>
          /\ last'[LabelOf[d]] = last[LabelOf[d]]
      BY <1>8, <2>2 DEF Restart, Reset, ProcessOf
    <3> QED BY <3>1
  <2> QED BY <2>1, <2>2
<1> QED BY <1>2, <1>3, <1>4, <1>5, <1>6, <1>7, <1>8 DEF Next

\* A label stays in order while nobody touches its source, its file or its goroutines.
LEMMA FollowsStays ==
    ASSUME NEW l \in Labels, Follows(l),
           writer'[l] = source'[l] => writer[l] = writer'[l],
           UNCHANGED <<source[l], held[l], last[l][source[l]]>>, disk'[l] = disk[l],
           \A c \in Callers : LabelOf[c] = l => UNCHANGED <<pc[c], via[c]>>
    PROVE  Follows(l)'
BY DEF Follows, Quiet, Unsaved, Saving

LEMMA AllFollowNext == FileInv /\ [Next]_vars => AllFollow'
<1> SUFFICES ASSUME FileInv, [Next]_vars, NEW l \in Labels PROVE Follows(l)'
  BY DEF AllFollow
<1>1. /\ Types /\ Holders /\ UpToDate /\ Known /\ HasToken /\ AllNew /\ AllMarked
      /\ Follows(l)
  BY DEF FileInv, TokenInv, AllFollow
<1> USE <1>1, Homes, Numbers DEF Types, Goto, Forget, Sources
<1>2. CASE UNCHANGED vars
  BY <1>2, FollowsStays DEF vars, callVars
<1>3. ASSUME NEW c \in Callers, TokenCached(c) \/ TokenRefreshed(c) PROVE Follows(l)'
  <2>1. /\ pc[c] = "idle" /\ pc' = [pc EXCEPT ![c] = "got"]
        /\ via' = [via EXCEPT ![c] = source[LabelOf[c]]]
        /\ UNCHANGED <<disk, source, last, writer>>
        /\ \A k \in Labels : k # LabelOf[c] => held'[k] = held[k]
    BY <1>3 DEF TokenCached, TokenRefreshed
  <2>2. CASE LabelOf[c] = l
    <3>1. ~Quiet(l)'
      BY <2>1, <2>2 DEF Quiet
    <3>2. Unsaved(l)' <=> Unsaved(l)
      BY <2>1 DEF Unsaved, Saving
    <3> QED BY <2>1, <3>1, <3>2 DEF Follows
  <2>3. CASE LabelOf[c] # l
    BY <2>1, <2>3, FollowsStays
  <2> QED BY <2>2, <2>3
<1>4. ASSUME NEW c \in Callers, Compare(c) PROVE Follows(l)'
  <2>1. pc[c] = "got" /\ UNCHANGED <<disk, held, source, writer>>
    BY <1>4 DEF Compare
  <2>2. tok[c] > 0
    BY <2>1 DEF HasToken
  <2>3. CASE LabelOf[c] # l
    <3>1. last'[l] = last[l] /\ \A d \in Callers \ {c} : pc'[d] = pc[d] /\ via'[d] = via[d]
      BY <1>4, <2>3 DEF Compare
    <3> QED BY <2>1, <2>3, <3>1, FollowsStays
  <2>4. CASE LabelOf[c] = l /\ tok[c] = last[l][via[c]]
    <3>1. pc' = [pc EXCEPT ![c] = "idle"] /\ via' = [via EXCEPT ![c] = 0] /\ UNCHANGED last
      BY <1>4, <2>4 DEF Compare
    <3>2. Unsaved(l)' <=> Unsaved(l)
      BY <2>1, <3>1 DEF Unsaved, Saving
    <3>3. last[l][source[l]] = 0 => (Quiet(l)' => Quiet(l))
      <4>1. last[l][source[l]] = 0 => via[c] # source[l]
        BY <2>2, <2>4
      <4>2. \A d \in Callers \ {c} : pc'[d] = pc[d] /\ via'[d] = via[d]
        BY <3>1
      <4> QED BY <2>1, <4>1, <4>2 DEF Quiet
    <3> QED BY <2>1, <3>1, <3>2, <3>3 DEF Follows
  <2>5. CASE LabelOf[c] = l /\ tok[c] # last[l][via[c]]
    <3>1. /\ pc' = [pc EXCEPT ![c] = "save"] /\ UNCHANGED via
          /\ last' = [last EXCEPT ![l][via[c]] = tok[c]]
      BY <1>4, <2>5 DEF Compare
    <3>2. CASE via[c] = source[l]
      <4>1. Unsaved(l)' /\ last'[l][source[l]] # 0
        BY <2>1, <2>2, <2>5, <3>1, <3>2 DEF Unsaved, Saving
      <4> QED BY <2>1, <4>1 DEF Follows
    <3>3. CASE via[c] # source[l]
      <4>1. last'[l][source[l]] = last[l][source[l]]
        BY <3>1, <3>3
      <4>2. (Unsaved(l)' <=> Unsaved(l)) /\ (Quiet(l)' <=> Quiet(l))
        BY <2>1, <3>1, <3>3 DEF Unsaved, Saving, Quiet
      <4> QED BY <2>1, <4>1, <4>2 DEF Follows
    <3> QED BY <3>2, <3>3
  <2> QED BY <2>3, <2>4, <2>5
<1>5. ASSUME NEW c \in Callers, Consent(c) PROVE Follows(l)'
  <2>1. /\ pc[c] = "idle" /\ pc' = [pc EXCEPT ![c] = "save"]
        /\ via' = [via EXCEPT ![c] = issued[LabelOf[c]] + 1]
        /\ UNCHANGED <<disk, held, source, last, writer>>
    BY <1>5 DEF Consent
  <2>2. CASE LabelOf[c] = l
    <3>1. via'[c] # source[l] /\ \A d \in Callers \ {c} : pc'[d] = pc[d] /\ via'[d] = via[d]
      <4>1. issued[l] \in Nat /\ source[l] \in Nat /\ source[l] <= issued[l]
        BY Ranges DEF Known
      <4> QED BY <2>1, <2>2, <4>1
    <3>2. (Unsaved(l)' <=> Unsaved(l)) /\ (Quiet(l)' <=> Quiet(l))
      BY <2>1, <3>1 DEF Unsaved, Saving, Quiet
    <3> QED BY <2>1, <3>2 DEF Follows
  <2>3. CASE LabelOf[c] # l
    BY <2>1, <2>3, FollowsStays
  <2> QED BY <2>2, <2>3
<1>6. ASSUME NEW c \in Callers, ReadAll(c) PROVE Follows(l)'
  <2>1. /\ pc[c] = "save" /\ pc' = [pc EXCEPT ![c] = "write"]
        /\ UNCHANGED <<disk, held, source, last, writer, via>>
    BY <1>6 DEF ReadAll, Read
  <2>2. (Unsaved(l)' <=> Unsaved(l)) /\ (Quiet(l)' <=> Quiet(l))
    BY <2>1 DEF Unsaved, Saving, Quiet
  <2> QED BY <2>1, <2>2 DEF Follows
<1>7. ASSUME NEW c \in Callers, Rename(c) PROVE Follows(l)'
  <2>1. /\ pc[c] = "write" /\ Saved(c)
        /\ disk' = [all[c] EXCEPT ![LabelOf[c]] = tok[c]]
        /\ writer'[l] = IF l = LabelOf[c] THEN via[c]
                        ELSE IF MayDisplace(c, l) /\ all[c][l] # disk[l] THEN Lost
                        ELSE writer[l]
    BY <1>7 DEF Rename
  <2>2. tok[c] > 0
    BY <2>1 DEF HasToken
  <2>3. CASE LabelOf[c] = l /\ consent[c]
    <3>1. /\ source'[l] = via[c] /\ held'[l] = tok[c] /\ UNCHANGED last /\ disk'[l] = tok[c]
      BY <2>1, <2>3, SavedMoves
    <3>2. last[l][via[c]] = 0
      BY <2>3 DEF AllNew, New
    <3> QED BY <3>1, <3>2 DEF Follows
  <2>4. CASE LabelOf[c] = l /\ ~consent[c]
    <3>1. /\ source' = source /\ UNCHANGED last /\ disk'[l] = tok[c] /\ writer'[l] = via[c]
      BY <2>1, <2>4, SavedMoves
    <3>2. tok[c] = last[l][via[c]]
      BY <2>1, <2>4 DEF AllMarked, Marked, Saving
    <3> QED BY <2>2, <3>1, <3>2 DEF Follows
  <2>5. CASE LabelOf[c] # l
    <3>1. /\ source'[l] = source[l] /\ held'[l] = held[l] /\ UNCHANGED last
          /\ \A d \in Callers \ {c} : pc'[d] = pc[d] /\ via'[d] = via[d]
      BY <2>1, <2>5, SavedMoves
    <3>2. disk'[l] = all[c][l]
      BY <2>1, <2>5
    <3>3. CASE disk'[l] = disk[l]
      <4>1. writer'[l] = writer[l]
        BY <2>1, <2>5, <3>2, <3>3
      <4> QED BY <2>5, <3>1, <3>3, <4>1, FollowsStays
    <3>4. CASE disk'[l] # disk[l]
      <4>1. blind[c]
        BY <2>1, <3>2, <3>4 DEF UpToDate
      <4>2. writer'[l] = Lost /\ source'[l] \in Sources
        BY <2>1, <2>5, <3>1, <3>2, <3>4, <4>1 DEF MayDisplace
      <4> QED BY <4>2 DEF Follows
    <3> QED BY <3>3, <3>4
  <2> QED BY <2>3, <2>4, <2>5
<1>8. ASSUME NEW c \in Callers, WriteFails(c) PROVE Follows(l)'
  <2>1. /\ Saved(c) /\ writer' = [writer EXCEPT ![LabelOf[c]] = Lost] /\ UNCHANGED disk
    BY <1>8 DEF WriteFails
  <2>2. CASE LabelOf[c] = l
    <3>1. writer'[l] = Lost /\ source'[l] \in Sources
      <4>1. source' = source \/ source' = [source EXCEPT ![LabelOf[c]] = via[c]]
        BY <2>1, SavedMoves
      <4> QED BY <2>1, <2>2, <4>1
    <3> QED BY <3>1 DEF Follows
  <2>3. CASE LabelOf[c] # l
    <3>1. /\ source'[l] = source[l] /\ held'[l] = held[l] /\ UNCHANGED last
          /\ \A d \in Callers \ {c} : pc'[d] = pc[d] /\ via'[d] = via[d]
      BY <2>1, <2>3, SavedMoves
    <3> QED BY <2>1, <2>3, <3>1, FollowsStays
  <2> QED BY <2>2, <2>3
<1>9. ASSUME NEW p \in Processes, Restart(p) PROVE Follows(l)'
  <2>1. PICK restored \in SUBSET {k \in Labels : home[k] = p /\ disk[k] > 0} :
          /\ held'[l] = IF l \in restored THEN disk[l] ELSE IF home[l] = p THEN 0 ELSE held[l]
          /\ writer'[l] = IF l \in restored THEN 0 ELSE IF home[l] = p THEN Lost ELSE writer[l]
    BY <1>9 DEF Restart
  <2>2. /\ source'[l] = IF home[l] = p THEN 0 ELSE source[l]
        /\ last'[l] = IF home[l] = p THEN NothingSaved ELSE last[l]
        /\ UNCHANGED disk
    BY <1>9 DEF Restart
  <2>3. CASE l \in restored
    BY <2>1, <2>2, <2>3 DEF Follows, NothingSaved
  <2>4. CASE l \notin restored /\ home[l] = p
    BY <2>1, <2>2, <2>4 DEF Follows
  <2>5. CASE home[l] # p
    <3>1. \A c \in Callers : LabelOf[c] = l => UNCHANGED <<pc[c], via[c]>>
      BY <1>9, <2>5 DEF Restart, Reset, ProcessOf
    <3> QED BY <2>1, <2>2, <2>5, <3>1, FollowsStays
  <2> QED BY <2>3, <2>4, <2>5
<1> QED BY <1>2, <1>3, <1>4, <1>5, <1>6, <1>7, <1>8, <1>9 DEF Next

\* What nobody touches stays in order, whoever else steps.
LEMMA UnracedStays ==
    ASSUME NEW l \in Labels, Unraced(l),
           UNCHANGED <<source[l], held[l], last[l]>>,
           \A c \in Callers : LabelOf[c] = l => UNCHANGED <<pc[c], via[c], tok[c], consent[c]>>
    PROVE  Unraced(l)'
BY DEF Unraced, Settled, Current, Alone

\* The only goroutine of its label decides for it.
LEMMA AloneDecides ==
    ASSUME NEW c \in Callers,
           Alone(LabelOf[c]) =>
               /\ Current(c)'
               /\ (pc[c] = "idle" \/ consent[c])' =>
                      last'[LabelOf[c]][source'[LabelOf[c]]] \in {0, held'[LabelOf[c]]}
    PROVE  Unraced(LabelOf[c])'
BY DEF Unraced, Settled, Alone

LEMMA UnracedNext == FileInv /\ [Next]_vars => AllUnraced'
<1> SUFFICES ASSUME FileInv, [Next]_vars, NEW l \in Labels PROVE Unraced(l)'
  BY DEF AllUnraced
<1>1. /\ Types /\ Holders /\ Known /\ HasToken /\ AllNew /\ AllMarked /\ Unraced(l)
  BY DEF FileInv, TokenInv, AllUnraced
<1> USE <1>1, Homes, Numbers DEF Types, Goto, Forget, Sources
<1> DEFINE InOrder(c) == pc[c] = "idle" \/ consent[c] => last[l][source[l]] \in {0, held[l]}
<1>a. ASSUME NEW c \in Callers, LabelOf[c] = l, Alone(l) PROVE Current(c) /\ InOrder(c)
  BY <1>a DEF Unraced, Settled, Alone
<1>2. CASE UNCHANGED vars
  BY <1>2, UnracedStays DEF vars, callVars
<1>3. ASSUME NEW c \in Callers, TokenCached(c) \/ TokenRefreshed(c) PROVE Unraced(l)'
  <2>1. /\ pc[c] = "idle" /\ pc' = [pc EXCEPT ![c] = "got"]
        /\ via' = [via EXCEPT ![c] = source[LabelOf[c]]]
        /\ UNCHANGED <<source, last, consent>>
        /\ tok'[c] = held'[LabelOf[c]]
        /\ \A d \in Callers \ {c} : tok'[d] = tok[d]
        /\ \A k \in Labels : k # LabelOf[c] => held'[k] = held[k]
    BY <1>3 DEF TokenCached, TokenRefreshed
  <2>2. CASE LabelOf[c] = l
    <3>1. ~consent[c]
      BY <2>1 DEF Holders, Held
    <3>2. Current(c)' /\ ~(pc[c] = "idle" \/ consent[c])'
      BY <2>1, <3>1 DEF Current
    <3> QED BY <2>2, <3>2, AloneDecides
  <2>3. CASE LabelOf[c] # l
    BY <2>1, <2>3, UnracedStays
  <2> QED BY <2>2, <2>3
<1>4. ASSUME NEW c \in Callers, Compare(c) PROVE Unraced(l)'
  <2>1. pc[c] = "got" /\ UNCHANGED <<held, source, consent>>
    BY <1>4 DEF Compare
  <2>2. CASE LabelOf[c] # l
    <3>1. /\ last'[l] = last[l]
          /\ \A d \in Callers \ {c} : UNCHANGED <<pc[d], via[d], tok[d]>>
      BY <1>4, <2>2 DEF Compare
    <3> QED BY <2>1, <2>2, <3>1, UnracedStays
  <2>3. CASE LabelOf[c] = l /\ tok[c] = last[l][via[c]]
    <3>1. pc' = [pc EXCEPT ![c] = "idle"] /\ UNCHANGED last
      BY <1>4, <2>3 DEF Compare
    <3>2. Current(c)'
      BY <3>1 DEF Current
    <3>3. ~consent[c]
      BY <2>1 DEF Holders, Held
    <3>4. Alone(l) => last'[l][source'[l]] = held'[l]
      BY <1>a, <2>1, <2>3, <3>1, <3>3 DEF Current
    <3> QED BY <2>3, <3>2, <3>4, AloneDecides
  <2>4. CASE LabelOf[c] = l /\ tok[c] # last[l][via[c]]
    <3>1. pc' = [pc EXCEPT ![c] = "save"] /\ UNCHANGED <<via, tok>>
      BY <1>4, <2>4 DEF Compare
    <3>2. ~consent[c] /\ ~(pc[c] = "idle" \/ consent[c])'
      BY <2>1, <3>1 DEF Holders, Held
    <3>3. Alone(l) => Current(c)'
      BY <1>a, <2>1, <2>4, <3>1, <3>2 DEF Current
    <3> QED BY <2>4, <3>2, <3>3, AloneDecides
  <2> QED BY <2>2, <2>3, <2>4
<1>5. ASSUME NEW c \in Callers, Consent(c) PROVE Unraced(l)'
  <2>1. /\ pc[c] = "idle" /\ UNCHANGED <<held, source, last>>
        /\ consent' = [consent EXCEPT ![c] = TRUE]
        /\ \A d \in Callers \ {c} : UNCHANGED <<pc[d], via[d], tok[d]>>
    BY <1>5 DEF Consent
  <2>2. CASE LabelOf[c] = l
    <3>1. Current(c)'
      BY <2>1 DEF Current
    <3>2. Alone(l) => last'[l][source'[l]] \in {0, held'[l]}
      BY <1>a, <2>1, <2>2
    <3> QED BY <2>2, <3>1, <3>2, AloneDecides
  <2>3. CASE LabelOf[c] # l
    BY <2>1, <2>3, UnracedStays
  <2> QED BY <2>2, <2>3
<1>6. ASSUME NEW c \in Callers, ReadAll(c) PROVE Unraced(l)'
  <2>1. /\ pc[c] = "save" /\ pc' = [pc EXCEPT ![c] = "write"]
        /\ UNCHANGED <<held, source, last, consent, via, tok>>
    BY <1>6 DEF ReadAll, Read
  <2>2. CASE LabelOf[c] = l
    <3>1. Alone(l) => Current(c)'
      BY <1>a, <2>1, <2>2 DEF Current
    <3>2. Alone(l) /\ consent'[c] => last'[l][source'[l]] \in {0, held'[l]}
      BY <1>a, <2>1, <2>2
    <3>3. pc'[c] # "idle"
      BY <2>1
    <3> QED BY <2>2, <3>1, <3>2, <3>3, AloneDecides
  <2>3. CASE LabelOf[c] # l
    BY <2>1, <2>3, UnracedStays
  <2> QED BY <2>2, <2>3
<1>7. ASSUME NEW c \in Callers, Rename(c) \/ WriteFails(c) PROVE Unraced(l)'
  <2>1. pc[c] = "write" /\ Saved(c)
    BY <1>7 DEF Rename, WriteFails
  <2>2. /\ pc' = [pc EXCEPT ![c] = "idle"] /\ tok' = [tok EXCEPT ![c] = 0]
        /\ via' = [via EXCEPT ![c] = 0] /\ consent' = [consent EXCEPT ![c] = FALSE]
        /\ consent[c] => /\ source' = [source EXCEPT ![LabelOf[c]] = via[c]]
                         /\ held' = [held EXCEPT ![LabelOf[c]] = tok[c]]
        /\ ~consent[c] => UNCHANGED <<source, held>>
        /\ UNCHANGED last
    BY <2>1, SavedMoves
  <2>3. CASE LabelOf[c] = l
    <3>1. Current(c)'
      BY <2>2 DEF Current
    <3>2. CASE consent[c]
      <4>1. last[l][via[c]] = 0
        BY <2>3, <3>2 DEF AllNew, New
      <4>2. last'[l][source'[l]] = 0
        BY <2>2, <2>3, <3>2, <4>1
      <4> QED BY <2>3, <3>1, <4>2, AloneDecides
    <3>3. CASE ~consent[c]
      <4>1. tok[c] = last[l][via[c]]
        BY <2>1, <2>3, <3>3 DEF AllMarked, Marked, Saving
      <4>2. Alone(l) => via[c] = source[l] /\ tok[c] = held[l]
        BY <1>a, <2>1, <2>3, <3>3 DEF Current
      <4>3. Alone(l) => last'[l][source'[l]] = held'[l]
        BY <2>2, <3>3, <4>1, <4>2
      <4> QED BY <2>3, <3>1, <4>3, AloneDecides
    <3> QED BY <3>2, <3>3
  <2>4. CASE LabelOf[c] # l
    <3>1. UNCHANGED <<source[l], held[l]>>
      BY <2>2, <2>4
    <3> QED BY <2>2, <2>4, <3>1, UnracedStays
  <2> QED BY <2>3, <2>4
<1>8. ASSUME NEW p \in Processes, Restart(p) PROVE Unraced(l)'
  <2>1. CASE home[l] = p
    <3>1. last'[l][source'[l]] = 0
      BY <1>8, <2>1 DEF Restart, NothingSaved
    <3>2. \A c \in Callers : LabelOf[c] = l => pc'[c] = "idle"
      BY <1>8, <2>1 DEF Restart, Reset, ProcessOf
    <3> QED BY <3>1, <3>2 DEF Unraced, Settled, Current
  <2>2. CASE home[l] # p
    <3>1. UNCHANGED <<source[l], held[l], last[l]>>
      BY <1>8, <2>2 DEF Restart
    <3>2. ASSUME NEW c \in Callers, LabelOf[c] = l
          PROVE  UNCHANGED <<pc[c], via[c], tok[c], consent[c]>>
      <4>1. ProcessOf(c) # p
        BY <2>2, <3>2 DEF ProcessOf
      <4>2. UNCHANGED <<pc[c], via[c]>>
        BY <1>8, <4>1 DEF Restart, Reset
      <4>3. UNCHANGED <<tok[c], consent[c]>>
        BY <1>8, <4>1 DEF Restart, Reset
      <4> QED BY <4>2, <4>3
    <3> QED BY <3>1, <3>2, UnracedStays
  <2> QED BY <2>1, <2>2
<1> QED BY <1>2, <1>3, <1>4, <1>5, <1>6, <1>7, <1>8 DEF Next

LEMMA FileNext == FileInv /\ [Next]_vars => FileInv'
BY TokenNext, KnownNext, HasTokenNext, AllNewNext, AllMarkedNext, AllFollowNext, UnracedNext
   DEF FileInv

\* At rest the file holds what the source in use compared last, for any number of
\* backends, goroutines and processes' Saves in flight (persistSource.Token,
\* store.go:182-194; RuntimeStore.Save, store.go:80-88); and it holds the token in
\* use where one goroutine calls: a race on p.mu is all that can make it stale.
THEOREM FileFollowsSourceHolds == Spec => []FileFollowsSource
<1>1. FileInv => FileFollowsSource
  <2> SUFFICES ASSUME FileInv, NEW l \in Labels, writer[l] = source[l], Quiet(l)
               PROVE  /\ disk[l] = IF last[l][source[l]] = 0 THEN held[l] ELSE last[l][source[l]]
                      /\ Alone(l) => disk[l] = held[l]
    BY DEF FileFollowsSource
  <2>1. Follows(l) /\ ~Unsaved(l)
    BY DEF FileInv, AllFollow, Quiet, Unsaved, Saving
  <2>2. disk[l] = IF last[l][source[l]] = 0 THEN held[l] ELSE last[l][source[l]]
    BY <2>1 DEF Follows
  <2>3. ASSUME Alone(l) PROVE disk[l] = held[l]
    <3>1. Settled(l) /\ \A c \in Callers : LabelOf[c] = l => Current(c)
      BY <2>3 DEF FileInv, AllUnraced, Unraced
    <3>2. last[l][source[l]] \in {0, held[l]}
      BY <3>1 DEF Settled, Current, Quiet
    <3> QED BY <2>2, <3>2
  <2> QED BY <2>2, <2>3
<1> QED BY FileInit, FileNext, <1>1, PTL DEF Spec

----------------------------------------------------------------------------
(* The file never goes back.                                               *)

\* No token is newer than the newest one issued.
Issued ==
    /\ \A l \in Labels : /\ disk[l] <= issued[l] /\ held[l] <= issued[l]
                         /\ \A c \in Callers : all[c][l] <= issued[l]
    /\ \A c \in Callers : tok[c] <= issued[LabelOf[c]]

\* c is about to replace the file, in the process of l or in the other one.
AtHome(c, l) == pc[c] = "write" /\ ProcessOf(c) = home[l]
Abroad(c, l) == pc[c] = "write" /\ ProcessOf(c) # home[l]

\* Where one goroutine at most calls for l, a consent under way has the newest
\* token of l, and the token in use is as new as any the file or a Save has. A
\* Save of the other process knows no newer token than the file, and a Save of
\* l's own process none older than the file or that other Save.
Ordered(l) ==
    Alone(l) =>
        /\ \A c \in Callers : LabelOf[c] = l /\ consent[c] => tok[c] = issued[l]
        /\ held[l] > 0 => /\ disk[l] <= held[l]
                          /\ \A c \in Callers : pc[c] = "write" => all[c][l] <= held[l]
        /\ disk[l] > 0 => \A c \in Callers : Abroad(c, l) => all[c][l] <= disk[l]
        /\ \A d \in Callers : AtHome(d, l) /\ all[d][l] > 0 =>
               /\ disk[l] <= all[d][l]
               /\ \A c \in Callers : Abroad(c, l) => all[c][l] <= all[d][l]
AllOrdered == \A l \in Labels : Ordered(l)

AgeInv == FileInv /\ Issued /\ AllOrdered

LEMMA AgeInit == Init => AgeInv
<1> SUFFICES ASSUME Init PROVE AgeInv
  OBVIOUS
<1> USE LabelAssumption DEF Init, NoTokens
<1>1. Issued
  BY DEF Issued
<1>2. AllOrdered
  BY DEF AllOrdered, Ordered, AtHome, Abroad
<1> QED BY <1>1, <1>2, FileInit DEF AgeInv

\* The generations as numbers.
LEMMA Ages ==
    ASSUME Types
    PROVE  /\ disk \in [Labels -> Nat] /\ held \in [Labels -> Nat] /\ issued \in [Labels -> Nat]
           /\ tok \in [Callers -> Nat]
           /\ \A c \in Callers : all[c] \in [Labels -> Nat]
<1>1. /\ disk \in [Labels -> Nat] /\ held \in [Labels -> Nat] /\ issued \in [Labels -> Nat]
      /\ tok \in [Callers -> Nat]
  BY Numbers DEF Types
<1>2. ASSUME NEW c \in Callers PROVE all[c] \in [Labels -> Nat]
  BY Numbers DEF Types
<1> QED BY <1>1, <1>2

\* What the end of a Save does to the calls and the token in use.
LEMMA SavedEnds ==
    ASSUME Types, NEW c \in Callers, Saved(c)
    PROVE  /\ pc'[c] = "idle" /\ ~consent'[c] /\ tok'[c] = 0
           /\ \A l \in Labels : all'[c][l] = 0
           /\ \A d \in Callers \ {c} : UNCHANGED <<pc[d], consent[d], tok[d], all[d]>>
           /\ \A l \in Labels : held'[l] = IF l = LabelOf[c] /\ consent[c] THEN tok[c] ELSE held[l]
           /\ UNCHANGED <<home, issued>>
<1> USE Homes DEF Types, Saved
<1>1. /\ pc'[c] = "idle" /\ \A d \in Callers \ {c} : pc'[d] = pc[d]
  BY DEF Goto
<1>2. /\ tok'[c] = 0 /\ \A d \in Callers \ {c} : tok'[d] = tok[d]
  BY DEF Forget
<1>3. /\ ~consent'[c] /\ \A d \in Callers \ {c} : consent'[d] = consent[d]
  OBVIOUS
<1>4. /\ \A l \in Labels : all'[c][l] = 0
      /\ \A d \in Callers \ {c} : all'[d] = all[d]
  BY DEF NoTokens
<1>5. \A l \in Labels : held'[l] = IF l = LabelOf[c] /\ consent[c] THEN tok[c] ELSE held[l]
  OBVIOUS
<1> QED BY <1>1, <1>2, <1>3, <1>4, <1>5

LEMMA IssuedNext == FileInv /\ Issued /\ [Next]_vars => Issued'
<1> SUFFICES ASSUME FileInv, Issued, [Next]_vars PROVE Issued'
  OBVIOUS
<1>1. Types /\ UpToDate
  BY DEF FileInv, TokenInv
<1>2. Types'
  BY <1>1, TypesNext
<1> USE <1>1, Homes, Ages
<1>3. CASE UNCHANGED vars
  BY <1>3 DEF Issued, vars, callVars
<1>4. ASSUME NEW c \in Callers, TokenCached(c) PROVE Issued'
  BY <1>4 DEF TokenCached, Issued, Types
<1>5. ASSUME NEW c \in Callers, TokenRefreshed(c) \/ Consent(c) PROVE Issued'
  <2>1. /\ \A l \in Labels \ {LabelOf[c]} : UNCHANGED <<issued[l], held[l]>>
        /\ issued'[LabelOf[c]] = issued[LabelOf[c]] + 1
        /\ held'[LabelOf[c]] \in {held[LabelOf[c]], issued'[LabelOf[c]]}
        /\ UNCHANGED <<disk, all>>
    BY <1>5 DEF TokenRefreshed, Consent, Types
  <2>2. tok'[c] = issued'[LabelOf[c]] /\ \A d \in Callers \ {c} : tok'[d] = tok[d]
    BY <1>5 DEF TokenRefreshed, Consent, Types
  <2>3. \A l \in Labels : issued[l] <= issued'[l]
    BY <2>1
  <2>4. ASSUME NEW l \in Labels PROVE disk'[l] <= issued'[l] /\ held'[l] <= issued'[l]
    BY <2>1 DEF Issued
  <2>5. ASSUME NEW l \in Labels, NEW d \in Callers PROVE all'[d][l] <= issued'[l]
    BY <2>1, <2>3, <2>5 DEF Issued
  <2>6. ASSUME NEW d \in Callers PROVE tok'[d] <= issued'[LabelOf[d]]
    <3>1. CASE d = c
      BY <2>1, <2>2, <3>1
    <3>2. CASE d # c
      <4>1. tok'[d] = tok[d] /\ tok[d] <= issued[LabelOf[d]]
        BY <2>2, <3>2 DEF Issued
      <4>2. issued'[LabelOf[d]] \in Nat
        BY <1>2, Numbers DEF Types
      <4> QED BY <2>3, <4>1, <4>2
    <3> QED BY <3>1, <3>2
  <2> QED BY <2>4, <2>5, <2>6 DEF Issued
<1>6. ASSUME NEW c \in Callers, Compare(c) PROVE Issued'
  <2>1. UNCHANGED <<disk, held, issued, all>> /\ \A d \in Callers : tok'[d] \in {0, tok[d]}
    BY <1>6 DEF Compare, Forget, Types
  <2> QED BY <2>1 DEF Issued
<1>7. ASSUME NEW c \in Callers, ReadAll(c) PROVE Issued'
  <2>1. UNCHANGED <<disk, held, issued, tok>>
    BY <1>7 DEF ReadAll, Read
  <2>2. all'[c] \in {disk, NoTokens} /\ \A d \in Callers \ {c} : all'[d] = all[d]
    BY <1>7 DEF ReadAll, Read, Types
  <2>3. \A l \in Labels, d \in Callers : all'[d][l] \in {0, disk[l], all[d][l]}
    BY <2>2 DEF NoTokens
  <2> QED BY <2>1, <2>3 DEF Issued
<1>8. ASSUME NEW c \in Callers, Rename(c) \/ WriteFails(c) PROVE Issued'
  <2>1. Saved(c)
    BY <1>8 DEF Rename, WriteFails
  <2>2. \A l \in Labels : disk'[l] \in {disk[l], all[c][l]}
                          \/ (l = LabelOf[c] /\ disk'[l] = tok[c])
    <3>1. all[c] \in [Labels -> Gens]
      BY DEF Types
    <3>2. CASE Rename(c)
      BY <3>1, <3>2 DEF Rename
    <3>3. CASE WriteFails(c)
      BY <3>3 DEF WriteFails
    <3> QED BY <1>8, <3>2, <3>3
  <2>3. ASSUME NEW l \in Labels PROVE disk'[l] <= issued'[l] /\ held'[l] <= issued'[l]
    BY <2>1, <2>2, SavedEnds DEF Issued
  <2>4. ASSUME NEW l \in Labels, NEW d \in Callers PROVE all'[d][l] <= issued'[l]
    BY <2>1, SavedEnds DEF Issued
  <2>5. ASSUME NEW d \in Callers PROVE tok'[d] <= issued'[LabelOf[d]]
    BY <2>1, SavedEnds DEF Issued
  <2> QED BY <2>3, <2>4, <2>5 DEF Issued
<1>9. ASSUME NEW p \in Processes, Restart(p) PROVE Issued'
  <2>1. UNCHANGED <<disk, issued>> /\ \A l \in Labels : held'[l] \in {0, disk[l], held[l]}
    BY <1>9 DEF Restart
  <2>2. \A c \in Callers : tok'[c] \in {0, tok[c]}
    BY <1>9 DEF Restart, Reset
  <2>3. \A c \in Callers, l \in Labels : all'[c][l] \in {0, all[c][l]}
    BY <1>9 DEF Restart, Reset, NoTokens
  <2> QED BY <2>1, <2>2, <2>3 DEF Issued
<1> QED BY <1>3, <1>4, <1>5, <1>6, <1>7, <1>8, <1>9 DEF Next

\* Writers that read the file earlier stay in order with it, whatever else their
\* label's token in use does but to get older.
LEMMA OrderedStays ==
    ASSUME NEW l \in Labels, Ordered(l), Types, Types', Issued, UNCHANGED <<home, disk[l]>>,
           held'[l] = held[l] \/ held'[l] >= issued[l],
           \A c \in Callers : pc'[c] = "write" => pc[c] = "write" /\ all'[c] = all[c],
           Alone(l) => \A c \in Callers : LabelOf[c] = l /\ consent'[c] => tok'[c] = issued'[l]
    PROVE  Ordered(l)'
<1> SUFFICES ASSUME Alone(l) PROVE Ordered(l)'
  BY DEF Ordered, Alone
<1> USE Ages DEF Ordered
<1>1. disk[l] <= issued[l] /\ \A c \in Callers : all[c][l] <= issued[l]
  BY DEF Issued
<1>2. held'[l] \in Nat
  BY Numbers DEF Types
<1>3. \A c \in Callers : (Abroad(c, l)' => Abroad(c, l)) /\ (AtHome(c, l)' => AtHome(c, l))
  BY DEF Abroad, AtHome, ProcessOf
<1>4. ASSUME held'[l] > 0
      PROVE  disk'[l] <= held'[l] /\ \A c \in Callers : pc'[c] = "write" => all'[c][l] <= held'[l]
  BY <1>1, <1>2, <1>4
<1>5. ASSUME disk'[l] > 0, NEW c \in Callers, Abroad(c, l)' PROVE all'[c][l] <= disk'[l]
  BY <1>3, <1>5 DEF Abroad
<1>6. ASSUME NEW d \in Callers, AtHome(d, l)', all'[d][l] > 0
      PROVE  disk'[l] <= all'[d][l] /\ \A c \in Callers : Abroad(c, l)' => all'[c][l] <= all'[d][l]
  BY <1>3, <1>6 DEF Abroad, AtHome
<1> QED BY <1>4, <1>5, <1>6 DEF Alone

\* One goroutine of a process writes at a time.
LEMMA OneWriter ==
    ASSUME Types, Holders, NEW c \in Callers, NEW d \in Callers,
           pc[c] = "write", pc[d] = "write", ProcessOf(c) = ProcessOf(d)
    PROVE  c = d
BY Homes DEF Holders, Held

\* A Save that reads the file knows as much as the file, or nothing.
LEMMA OrderedRead ==
    ASSUME FileInv, Issued, NEW l \in Labels, Ordered(l), NEW c \in Callers, ReadAll(c)
    PROVE  Ordered(l)'
<1> SUFFICES ASSUME Alone(l) PROVE Ordered(l)'
  BY DEF Ordered, Alone
<1>1. Types /\ Holders
  BY DEF FileInv, TokenInv
<1> USE <1>1, Homes, Ages DEF Ordered
<1>2. /\ UNCHANGED <<home, disk, issued, held, consent, tok>>
      /\ \A d \in Callers \ {c} : UNCHANGED <<pc[d], all[d]>>
  BY DEF ReadAll, Read, Goto, Types
<1>3. pc'[c] = "write" /\ all'[c] \in {disk, NoTokens}
  BY DEF ReadAll, Read, Goto, Types
<1>4. all'[c][l] \in {disk[l], 0}
  BY <1>3 DEF NoTokens
<1>5. \A d \in Callers \ {c} : (Abroad(d, l)' <=> Abroad(d, l)) /\ (AtHome(d, l)' <=> AtHome(d, l))
  BY <1>2 DEF Abroad, AtHome, ProcessOf
<1>6. ASSUME held'[l] > 0
      PROVE  disk'[l] <= held'[l] /\ \A d \in Callers : pc'[d] = "write" => all'[d][l] <= held'[l]
  BY <1>2, <1>4, <1>6
<1>7. ASSUME disk'[l] > 0, NEW d \in Callers, Abroad(d, l)' PROVE all'[d][l] <= disk'[l]
  BY <1>2, <1>4, <1>5, <1>7
<1>8. ASSUME NEW d \in Callers, AtHome(d, l)', all'[d][l] > 0 PROVE disk'[l] <= all'[d][l]
  BY <1>2, <1>4, <1>5, <1>8
<1>9. ASSUME NEW d \in Callers, AtHome(d, l)', all'[d][l] > 0, NEW e \in Callers, Abroad(e, l)'
      PROVE  all'[e][l] <= all'[d][l]
  <2>1. d # e
    BY <1>9 DEF Abroad, AtHome
  <2>2. CASE d = c
    BY <1>2, <1>4, <1>5, <1>9, <2>1, <2>2
  <2>3. CASE e = c
    <3>1. disk[l] <= all[d][l] /\ all'[d] = all[d]
      BY <1>2, <1>5, <1>9, <2>1, <2>3
    <3> QED BY <1>4, <2>3, <3>1
  <2>4. CASE d # c /\ e # c
    BY <1>2, <1>5, <1>9, <2>4
  <2> QED BY <2>2, <2>3, <2>4
<1> QED BY <1>2, <1>6, <1>7, <1>8, <1>9 DEF Alone

\* The processes are two, so a goroutine that writes is the only one on its side.
LEMMA OneOfEach ==
    ASSUME Types, Holders, NEW l \in Labels, NEW c \in Callers, NEW d \in Callers,
           (AtHome(c, l) /\ AtHome(d, l)) \/ (Abroad(c, l) /\ Abroad(d, l))
    PROVE  c = d
<1>1. home[l] \in Processes
  BY SharingAssumption DEF Types
<1> QED BY <1>1, Homes, OneWriter DEF AtHome, Abroad, Processes

\* A Save of l's own goroutine writes the token in use, newer than all others; a
\* Save of another backend's writes what it has read of l, and the other process
\* has read nothing newer.
LEMMA OrderedRename ==
    ASSUME FileInv, Issued, NEW l \in Labels, Ordered(l), NEW c \in Callers, Rename(c)
    PROVE  Ordered(l)'
<1> SUFFICES ASSUME Alone(l) PROVE Ordered(l)'
  BY DEF Ordered, Alone
<1>1. Types /\ Holders
  BY DEF FileInv, TokenInv
<1> USE <1>1, Homes, Ages DEF Ordered
<1>2. pc[c] = "write" /\ Saved(c) /\ disk' = [all[c] EXCEPT ![LabelOf[c]] = tok[c]]
  BY DEF Rename
<1>3. /\ pc'[c] = "idle" /\ ~consent'[c] /\ UNCHANGED <<home, issued>>
      /\ \A d \in Callers \ {c} : UNCHANGED <<pc[d], consent[d], tok[d], all[d]>>
      /\ held'[l] = IF l = LabelOf[c] /\ consent[c] THEN tok[c] ELSE held[l]
  BY <1>2, SavedEnds
<1>4. /\ AtHome(c, l) \/ Abroad(c, l)
      /\ ~AtHome(c, l)' /\ ~Abroad(c, l)'
      /\ \A d \in Callers \ {c} : (Abroad(d, l)' <=> Abroad(d, l)) /\ (AtHome(d, l)' <=> AtHome(d, l))
  BY <1>2, <1>3 DEF Abroad, AtHome, ProcessOf
<1>5. \A d \in Callers : LabelOf[d] = l /\ consent'[d] => tok'[d] = issued'[l]
  BY <1>3
<1>6. CASE LabelOf[c] = l
  <2>1. disk'[l] = tok[c] /\ tok[c] > 0
    BY <1>2, <1>6 DEF FileInv, HasToken
  <2>2. tok[c] = held'[l]
    BY <1>2, <1>3, <1>6 DEF FileInv, AllUnraced, Unraced, Current
  <2>3. ASSUME NEW d \in Callers, pc[d] = "write" PROVE all[d][l] <= tok[c]
    <3>1. CASE consent[c]
      BY <1>6, <3>1 DEF Issued
    <3>2. CASE ~consent[c]
      BY <1>3, <2>1, <2>2, <2>3, <3>2
    <3> QED BY <3>1, <3>2
  <2>4. AtHome(c, l)
    BY <1>2, <1>6 DEF AtHome, ProcessOf
  <2>5. \A d \in Callers : ~AtHome(d, l)'
    BY <1>4, <2>4, OneOfEach
  <2>6. \A d \in Callers : pc'[d] = "write" => all'[d][l] <= tok[c]
    BY <1>3, <2>3
  <2>7. \A d \in Callers : Abroad(d, l)' => all'[d][l] <= tok[c]
    BY <2>6 DEF Abroad
  <2> QED BY <1>5, <2>1, <2>2, <2>5, <2>6, <2>7 DEF Alone
<1>7. CASE LabelOf[c] # l
  <2>1. disk'[l] = all[c][l] /\ held'[l] = held[l]
    BY <1>2, <1>3, <1>7
  <2>2. ASSUME held'[l] > 0
        PROVE  disk'[l] <= held'[l] /\ \A d \in Callers : pc'[d] = "write" => all'[d][l] <= held'[l]
    BY <1>2, <1>3, <2>1, <2>2
  <2>3. ASSUME disk'[l] > 0, NEW d \in Callers, Abroad(d, l)' PROVE all'[d][l] <= disk'[l]
    <3>1. Abroad(d, l) /\ d # c
      BY <1>4, <2>3
    <3>2. AtHome(c, l)
      BY <1>4, <3>1, OneOfEach
    <3>3. all[d][l] <= all[c][l]
      BY <2>1, <2>3, <3>1, <3>2
    <3> QED BY <1>3, <2>1, <3>1, <3>3
  <2>4. ASSUME NEW d \in Callers, AtHome(d, l)', all'[d][l] > 0 
        PROVE  /\ disk'[l] <= all'[d][l]
               /\ \A e \in Callers : Abroad(e, l)' => all'[e][l] <= all'[d][l]
    <3>1. AtHome(d, l) /\ d # c /\ all'[d] = all[d]
      BY <1>3, <1>4, <2>4
    <3>2. Abroad(c, l)
      BY <1>4, <3>1, OneOfEach
    <3>3. \A e \in Callers : ~Abroad(e, l)'
      BY <1>4, <3>2, OneOfEach
    <3>4. all[c][l] <= all[d][l]
      BY <2>4, <3>1, <3>2
    <3> QED BY <2>1, <3>1, <3>3, <3>4
  <2> QED BY <1>5, <2>2, <2>3, <2>4 DEF Alone
<1> QED BY <1>6, <1>7

\* A process that starts again restores what the file holds, or nothing.
LEMMA OrderedRestart ==
    ASSUME FileInv, Issued, NEW l \in Labels, Ordered(l), NEW p \in Processes, Restart(p)
    PROVE  Ordered(l)'
<1>1. Types /\ Types'
  BY TypesNext DEF FileInv, TokenInv, Next
<1> USE <1>1, Homes, Ages
<1>2. UNCHANGED <<home, disk, issued>>
  BY DEF Restart
<1>3. \A c \in Callers : pc'[c] = "write" => ProcessOf(c) # p /\ pc[c] = "write" /\ all'[c] = all[c]
  BY DEF Restart, Reset
<1>4. \A c \in Callers : consent'[c] => ProcessOf(c) # p /\ consent[c] /\ tok'[c] = tok[c]
  BY DEF Restart, Reset
<1>5. Alone(l) => \A c \in Callers : LabelOf[c] = l /\ consent'[c] => tok'[c] = issued'[l]
  BY <1>2, <1>4 DEF Ordered
<1>6. CASE home[l] # p
  <2>1. held'[l] = held[l]
    BY <1>6 DEF Restart
  <2> QED BY <1>2, <1>3, <1>5, <2>1, OrderedStays
<1>7. CASE home[l] = p
  <2> SUFFICES ASSUME Alone(l) PROVE Ordered(l)'
    BY DEF Ordered, Alone
  <2>1. held'[l] \in {0, disk[l]}
    BY <1>7 DEF Restart
  <2>2. \A c \in Callers : pc'[c] = "write" => Abroad(c, l) /\ all'[c] = all[c]
    BY <1>3, <1>7 DEF Abroad
  <2>3. \A c \in Callers : ~AtHome(c, l)' /\ (Abroad(c, l)' => Abroad(c, l) /\ all'[c] = all[c])
    BY <1>2, <2>2 DEF AtHome, Abroad, ProcessOf
  <2>4. ASSUME disk[l] > 0, NEW c \in Callers, pc'[c] = "write" PROVE all'[c][l] <= disk[l]
    BY <2>2, <2>4 DEF Ordered
  <2>5. disk'[l] > 0 => \A c \in Callers : Abroad(c, l)' => all'[c][l] <= disk'[l]
    BY <1>2, <2>4 DEF Abroad
  <2>6. held'[l] > 0 => /\ disk'[l] <= held'[l]
                        /\ \A c \in Callers : pc'[c] = "write" => all'[c][l] <= held'[l]
    BY <1>2, <2>1, <2>4
  <2> QED BY <1>5, <2>3, <2>5, <2>6 DEF Ordered
<1> QED BY <1>6, <1>7

LEMMA OrderedNext == FileInv /\ Issued /\ AllOrdered /\ [Next]_vars => AllOrdered'
<1> SUFFICES ASSUME FileInv, Issued, AllOrdered, [Next]_vars, NEW l \in Labels PROVE Ordered(l)'
  BY DEF AllOrdered
<1>1. Types /\ Types' /\ Holders /\ Ordered(l)
  BY TypesNext DEF FileInv, TokenInv, AllOrdered
<1> USE <1>1, Homes, Ages
<1> DEFINE Fresh == \A c \in Callers : LabelOf[c] = l /\ consent[c] => tok[c] = issued[l]
<1>2. Alone(l) => Fresh
  BY DEF Ordered
<1>3. CASE UNCHANGED vars
  BY <1>2, <1>3, OrderedStays DEF vars, callVars
<1>4. ASSUME NEW c \in Callers, TokenCached(c) \/ TokenRefreshed(c) PROVE Ordered(l)'
  <2>1. /\ pc[c] = "idle" /\ pc' = [pc EXCEPT ![c] = "got"] /\ UNCHANGED <<home, disk, all, consent>>
        /\ \A d \in Callers \ {c} : tok'[d] = tok[d]
    BY <1>4 DEF TokenCached, TokenRefreshed, Goto, Types
  <2>2. held'[l] = held[l] \/ held'[l] >= issued[l]
    BY <1>4 DEF TokenCached, TokenRefreshed, Types
  <2>3. issued'[l] = issued[l] \/ LabelOf[c] = l
    BY <1>4 DEF TokenCached, TokenRefreshed, Types
  <2>4. ~consent[c]
    BY <2>1 DEF Holders, Held
  <2>5. Alone(l) => Fresh'
    BY <1>2, <2>1, <2>3, <2>4 DEF Alone
  <2>6. \A d \in Callers : pc'[d] = "write" => pc[d] = "write" /\ all'[d] = all[d]
    BY <2>1 DEF Types
  <2> QED BY <2>1, <2>2, <2>5, <2>6, OrderedStays
<1>5. ASSUME NEW c \in Callers, Compare(c) PROVE Ordered(l)'
  <2>1. /\ UNCHANGED <<home, disk, held, issued, all, consent>> /\ pc[c] = "got"
        /\ \A d \in Callers \ {c} : UNCHANGED <<pc[d], tok[d]>>
        /\ pc'[c] # "write"
    BY <1>5 DEF Compare, Goto, Forget, Types
  <2>2. ~consent[c]
    BY <2>1 DEF Holders, Held
  <2>3. Alone(l) => Fresh'
    BY <1>2, <2>1, <2>2
  <2> QED BY <2>1, <2>3, OrderedStays
<1>6. ASSUME NEW c \in Callers, Consent(c) PROVE Ordered(l)'
  <2>1. /\ UNCHANGED <<home, disk, held, all>> /\ pc' = [pc EXCEPT ![c] = "save"]
        /\ consent' = [consent EXCEPT ![c] = TRUE]
        /\ \A d \in Callers \ {c} : tok'[d] = tok[d]
        /\ tok'[c] = issued'[LabelOf[c]] /\ (issued'[l] = issued[l] \/ LabelOf[c] = l)
    BY <1>6 DEF Consent, Goto, Types
  <2>2. Alone(l) => Fresh'
    BY <1>2, <2>1 DEF Alone, Types
  <2>3. \A d \in Callers : pc'[d] = "write" => pc[d] = "write" /\ all'[d] = all[d]
    BY <2>1 DEF Types
  <2> QED BY <2>1, <2>2, <2>3, OrderedStays
<1>7. ASSUME NEW c \in Callers, WriteFails(c) PROVE Ordered(l)'
  <2>1. pc[c] = "write" /\ Saved(c) /\ UNCHANGED disk
    BY <1>7 DEF WriteFails
  <2>2. /\ pc'[c] = "idle" /\ ~consent'[c] /\ UNCHANGED <<home, issued>>
        /\ \A d \in Callers \ {c} : UNCHANGED <<pc[d], consent[d], tok[d], all[d]>>
        /\ held'[l] = IF l = LabelOf[c] /\ consent[c] THEN tok[c] ELSE held[l]
    BY <2>1, SavedEnds
  <2>3. Alone(l) => Fresh'
    BY <1>2, <2>2
  <2>4. Alone(l) => held'[l] = held[l] \/ held'[l] >= issued[l]
    BY <1>2, <2>2
  <2> SUFFICES ASSUME Alone(l) PROVE Ordered(l)'
    BY DEF Ordered, Alone
  <2> QED BY <2>1, <2>2, <2>3, <2>4, OrderedStays
<1> QED BY <1>3, <1>4, <1>5, <1>6, <1>7, OrderedRead, OrderedRename, OrderedRestart DEF Next

LEMMA AgeNext == AgeInv /\ [Next]_vars => AgeInv'
BY FileNext, IssuedNext, OrderedNext DEF AgeInv

\* A Save changes the stored token of another backend only if it could not read
\* the store or another process has replaced it since; and where one goroutine
\* calls for a backend, nothing but such a Save of another's puts an older token
\* of it back (store.go:80-88).
THEOREM NoLostUpdateHolds == Spec => NoLostUpdate
<1> DEFINE Displaced(l) == \E c \in Callers : Ends(c) /\ MayDisplace(c, l)
           Blindly(l) == \E c \in Callers : Ends(c) /\ LabelOf[c] # l /\ blind[c]
           Kept == \A l \in Labels : /\ disk'[l] # disk[l] => Displaced(l)
                                     /\ Alone(l) /\ disk'[l] < disk[l] => Blindly(l)
<1>1. AgeInv /\ [Next]_vars => [Kept]_vars
  <2> SUFFICES ASSUME AgeInv, Next, NEW l \in Labels
               PROVE  /\ disk'[l] # disk[l] => Displaced(l)
                      /\ Alone(l) /\ disk'[l] < disk[l] => Blindly(l)
    OBVIOUS
  <2>1. Types /\ UpToDate /\ Ordered(l)
    BY DEF AgeInv, AllOrdered, FileInv, TokenInv
  <2> USE <2>1, Homes, Ages
  <2>a. ~(disk[l] < disk[l])
    OBVIOUS
  <2> SUFFICES ASSUME disk'[l] # disk[l]
               PROVE  Displaced(l) /\ (Alone(l) /\ disk'[l] < disk[l] => Blindly(l))
    BY <2>a
  <2>2. PICK c \in Callers : Rename(c)
    BY DEF Next, TokenCached, TokenRefreshed, Compare, Consent, ReadAll, Read, WriteFails, Restart
  <2>3. pc[c] = "write" /\ Saved(c) /\ disk' = [all[c] EXCEPT ![LabelOf[c]] = tok[c]]
    BY <2>2 DEF Rename
  <2>4. Ends(c)
    BY <2>3, SavedEnds DEF Ends
  <2>5. l = LabelOf[c] \/ blind[c]
    BY <2>3 DEF UpToDate
  <2>6. ASSUME Alone(l), l = LabelOf[c] PROVE ~(disk'[l] < disk[l])
    <3>1. disk'[l] = tok[c]
      BY <2>3, <2>6
    <3>2. CASE consent[c]
      BY <2>6, <3>1, <3>2 DEF Ordered, AgeInv, Issued
    <3>3. CASE ~consent[c]
      <4>1. tok[c] = held[l] /\ tok[c] > 0
        BY <2>3, <2>6, <3>3 DEF AgeInv, FileInv, HasToken, AllUnraced, Unraced, Current
      <4> QED BY <2>6, <3>1, <4>1 DEF Ordered
    <3> QED BY <3>2, <3>3
  <2> QED BY <2>4, <2>5, <2>6 DEF MayDisplace
<1> QED BY AgeInit, AgeNext, <1>1, PTL DEF Spec, NoLostUpdate

=============================================================================
