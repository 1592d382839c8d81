--------------------------- MODULE BrowserProofs ---------------------------
(***************************************************************************)
(* Theorems about BrowserAuth, for any flows, backends and ports: one      *)
(* consent on a callback_port at a time, no port kept past the lock, no    *)
(* channel kept past its flow, an answer kept in its flow's channel, and   *)
(* BrowserAuth implements Consent.                                         *)
(***************************************************************************)
EXTENDS BrowserAuth, TLAPS

\* A flow on an ephemeral port takes neither authMu nor a server of its own.
Ephemeral == \A f \in Flows : ~OnFixed(f) => pc[f] \notin {"queued", "listen", "close", "unlock"}

\* The server of a flow lives from Listen to CloseServer, while authMu is held.
ServerOwned ==
    \A f \in Flows : OnFixed(f) /\ server[f] \in {"bound", "serving"}
        => pc[f] \in {"install", "open", "opened", "select", "clear", "close"}

\* The channel in an authorizer's waiting field is that of one of its own flows,
\* which has not come to its deferred reset.
Awaited == {"open", "opened", "select", "clear"}
WaitingOwned ==
    \A a \in Authorizers : waiting[a] # NoFlow
        => of[waiting[a]] = a /\ pc[waiting[a]] \in Awaited

BrowserInv == TypeOK /\ Ephemeral /\ ServerOwned /\ WaitingOwned

----------------------------------------------------------------------------

LEMMA BrowserInit == Init => BrowserInv
<1> SUFFICES ASSUME Init PROVE BrowserInv
  OBVIOUS
<1>1. TypeOK
  BY AssignmentsAssumption, NoFlowAssumption DEF Init, TypeOK, Holding, Fetching
<1>2. Ephemeral /\ ServerOwned /\ WaitingOwned
  BY DEF Init, Ephemeral, ServerOwned, WaitingOwned
<1> QED BY <1>1, <1>2 DEF BrowserInv

\* Who answers on a redirect address is an authorizer.
LEMMA AnsweringAuthorizers == ASSUME TypeOK, NEW g \in Flows PROVE Answering(g) \subseteq Authorizers
<1>1. of \in [Flows -> Authorizers]
  BY AssignmentsAssumption DEF TypeOK
<1> QED BY <1>1 DEF Answering

\* A step that moves one flow on and keeps authMu disturbs nobody's hold of it.
LEMMA Moved ==
    ASSUME TypeOK, NEW f \in Flows, NEW step \in {"returned"} \cup Fetching, Goto(f, step),
           UNCHANGED <<of, authMu>>, OnFixed(f) => (pc[f] \in Holding <=> step \in Holding)
    PROVE  /\ pc' \in [Flows -> {"idle", "returned"} \cup Fetching]
           /\ \A g \in Flows : OnFixed(g)' => (authMu' = g <=> pc'[g] \in Holding)
BY DEF TypeOK, Goto, OnFixed

\* A step that ends a flow's hold of authMu leaves it to nobody.
LEMMA Released ==
    ASSUME TypeOK, NEW f \in Flows, OnFixed(f), pc[f] \in Holding, Goto(f, "returned"),
           authMu' = NoFlow, UNCHANGED of
    PROVE  /\ pc' \in [Flows -> {"idle", "returned"} \cup Fetching]
           /\ \A g \in Flows : OnFixed(g)' => (authMu' = g <=> pc'[g] \in Holding)
<1>1. authMu = f
  BY DEF TypeOK
<1>2. \A g \in Flows \ {f} : OnFixed(g) => pc[g] \notin Holding
  BY <1>1 DEF TypeOK
<1>3. pc' \in [Flows -> {"idle", "returned"} \cup Fetching] /\ pc'[f] = "returned"
      /\ \A g \in Flows \ {f} : pc'[g] = pc[g]
  BY DEF TypeOK, Goto
<1> QED BY <1>2, <1>3, NoFlowAssumption DEF OnFixed, Holding, Fetching

LEMMA TypeNext == TypeOK /\ Ephemeral /\ [Next]_vars => TypeOK'
<1> SUFFICES ASSUME TypeOK, Ephemeral, [Next]_vars PROVE TypeOK'
  OBVIOUS
<1> USE DEF Fetching, Holding
<1>1. CASE UNCHANGED vars
  BY <1>1 DEF vars, flowVars, pageVars, TypeOK, OnFixed
<1>2. ASSUME NEW f \in Flows, Fetch(f) PROVE TypeOK'
  BY <1>2 DEF Fetch, Goto, TypeOK, OnFixed, pageVars
<1>3. ASSUME NEW f \in Flows, Lock(f) PROVE TypeOK'
  <2>1. OnFixed(f)
    BY <1>3 DEF Lock, Ephemeral
  <2>2. \A g \in Flows : OnFixed(g) => pc[g] \notin Holding
    BY <1>3, NoFlowAssumption DEF Lock, TypeOK
  <2> QED BY <1>3, <2>1, <2>2 DEF Lock, Goto, TypeOK, OnFixed, pageVars
<1>4. ASSUME NEW f \in Flows, Listen(f) PROVE TypeOK'
  BY <1>4, Moved DEF Listen, TypeOK, pageVars
<1>5. ASSUME NEW f \in Flows, ListenFails(f) PROVE TypeOK'
  <2>1. OnFixed(f)
    BY <1>5 DEF ListenFails, Ephemeral
  <2> QED BY <1>5, <2>1, Released DEF ListenFails, TypeOK, pageVars
<1>6. ASSUME NEW f \in Flows, Install(f) PROVE TypeOK'
  <2>1. waiting' \in [Authorizers -> Flows \cup {NoFlow}]
    BY <1>6 DEF Install, TypeOK
  <2> QED BY <1>6, <2>1, Moved DEF Install, TypeOK, pageVars
<1>7. ASSUME NEW f \in Flows, OpenURL(f) PROVE TypeOK'
  BY <1>7, Moved DEF OpenURL, TypeOK
<1>8. ASSUME NEW f \in Flows, Opened(f) PROVE TypeOK'
  BY <1>8, Moved DEF Opened, TypeOK, pageVars
<1>9. ASSUME NEW f \in Flows, Receive(f) PROVE TypeOK'
  <2>1. {channel', got', picked'} \subseteq [Flows -> Flows \cup {NoFlow}]
    BY <1>9 DEF Receive, TypeOK, pageVars
  <2> QED BY <1>9, <2>1, Moved DEF Receive, TypeOK, pageVars
<1>10. ASSUME NEW f \in Flows, GiveUp(f) PROVE TypeOK'
  BY <1>10, Moved DEF GiveUp, TypeOK, pageVars
<1>11. ASSUME NEW f \in Flows, Clear(f) PROVE TypeOK'
  <2>1. waiting' \in [Authorizers -> Flows \cup {NoFlow}]
    BY <1>11 DEF Clear, TypeOK
  <2> QED BY <1>11, <2>1, Moved DEF Clear, TypeOK, pageVars
<1>12. ASSUME NEW f \in Flows, CloseServer(f) PROVE TypeOK'
  <2>1. server' \in [Flows -> {"none", "bound", "serving", "late", "closed"}]
    BY <1>12 DEF CloseServer, TypeOK
  <2> QED BY <1>12, <2>1, Moved DEF CloseServer, TypeOK, pageVars
<1>13. ASSUME NEW f \in Flows, Unlock(f) PROVE TypeOK'
  <2>1. OnFixed(f)
    BY <1>13 DEF Unlock, Ephemeral
  <2> QED BY <1>13, <2>1, Released DEF Unlock, TypeOK, pageVars
<1>14. ASSUME NEW f \in Flows, ServeCallback(f) PROVE TypeOK'
  BY <1>14 DEF ServeCallback, TypeOK, OnFixed, flowVars, pageVars
<1>15. ASSUME NEW g \in Flows, Redirect(g) PROVE TypeOK'
  <2>1. PICK a \in Authorizers : picked' = [picked EXCEPT ![g] = waiting[a]]
    BY <1>15, AnsweringAuthorizers DEF Redirect
  <2>2. picked' \in [Flows -> Flows \cup {NoFlow}]
    BY <2>1 DEF TypeOK
  <2> QED BY <1>15, <2>2 DEF Redirect, TypeOK, OnFixed, flowVars
<1>16. ASSUME NEW g \in Flows, Refused(g) PROVE TypeOK'
  BY <1>16 DEF Refused, TypeOK, OnFixed, flowVars
<1>17. ASSUME NEW g \in Flows, Deliver(g) PROVE TypeOK'
  <2>1. channel' \in [Flows -> Flows \cup {NoFlow}]
    BY <1>17 DEF Deliver, TypeOK
  <2>2. page' \in [Flows -> {"none", "asked", "picked", "delivered", "dropped"}]
    BY <1>17 DEF Deliver, TypeOK
  <2> QED BY <1>17, <2>1, <2>2 DEF Deliver, TypeOK, OnFixed, flowVars
<1>18. ASSUME NEW f \in Flows, Cancel(f) PROVE TypeOK'
  BY <1>18 DEF Cancel, TypeOK, OnFixed, pageVars
<1>19. CASE Stop
  BY <1>19 DEF Stop, TypeOK, OnFixed, flowVars, pageVars
<1>20. CASE Finished
  BY <1>1, <1>20 DEF Finished
<1> QED BY <1>1, <1>2, <1>3, <1>4, <1>5, <1>6, <1>7, <1>8, <1>9, <1>10, <1>11, <1>12, <1>13,
           <1>14, <1>15, <1>16, <1>17, <1>18, <1>19, <1>20 DEF Next, Proceed

\* The steps of the servers, the browser and the callers leave every fetch where
\* it is.
Elsewhere(f) == ServeCallback(f) \/ Redirect(f) \/ Refused(f) \/ Deliver(f) \/ Cancel(f)

LEMMA ElsewhereLeaves ==
    ASSUME NEW f \in Flows, Elsewhere(f) PROVE UNCHANGED <<of, pc, authMu, waiting>>
BY DEF Elsewhere, ServeCallback, Redirect, Refused, Deliver, Cancel, flowVars

\* The end of the daemon's context touches no fetch, as a stutter does not.
LEMMA Steps ==
    ASSUME [Next]_vars
    PROVE  \/ \E f \in Flows : Fetch(f) \/ Proceed(f) \/ Elsewhere(f)
           \/ UNCHANGED <<of, pc, server, authMu, waiting>>
<1>1. CASE Stop \/ Finished \/ UNCHANGED vars
  BY <1>1 DEF Stop, Finished, vars, flowVars, pageVars
<1> QED BY <1>1 DEF Next, Elsewhere

LEMMA EphemeralNext == TypeOK /\ Ephemeral /\ [Next]_vars => Ephemeral'
<1> SUFFICES ASSUME TypeOK, Ephemeral, [Next]_vars PROVE Ephemeral'
  OBVIOUS
<1> USE DEF Ephemeral, OnFixed
<1>1. CASE UNCHANGED <<of, pc, server, authMu, waiting>>
  BY <1>1
<1>2. ASSUME NEW f \in Flows, Fetch(f) PROVE Ephemeral'
  BY <1>2 DEF Fetch, Goto, TypeOK
<1>3. ASSUME NEW f \in Flows, Lock(f) \/ Listen(f) \/ ListenFails(f) \/ CloseServer(f) \/ Unlock(f)
      PROVE Ephemeral'
  <2>1. OnFixed(f) /\ UNCHANGED of /\ \A g \in Flows \ {f} : pc'[g] = pc[g]
    BY <1>3 DEF Lock, Listen, ListenFails, CloseServer, Unlock, Goto, TypeOK
  <2> QED BY <2>1
<1>4. ASSUME NEW f \in Flows, Install(f) \/ OpenURL(f) \/ Opened(f) \/ Receive(f) \/ GiveUp(f)
      PROVE Ephemeral'
  BY <1>4 DEF Install, OpenURL, Opened, Receive, GiveUp, Goto, TypeOK
<1>5. ASSUME NEW f \in Flows, Clear(f) PROVE Ephemeral'
  BY <1>5 DEF Clear, Goto, TypeOK
<1>6. ASSUME NEW f \in Flows, Elsewhere(f) PROVE Ephemeral'
  BY <1>6, ElsewhereLeaves
<1> QED BY <1>1, <1>2, <1>3, <1>4, <1>5, <1>6, Steps DEF Proceed

LEMMA ServerOwnedNext == TypeOK /\ ServerOwned /\ [Next]_vars => ServerOwned'
<1> SUFFICES ASSUME TypeOK, ServerOwned, [Next]_vars PROVE ServerOwned'
  OBVIOUS
<1> USE DEF ServerOwned, OnFixed, Goto, TypeOK
<1>1. CASE UNCHANGED <<of, pc, server, authMu, waiting>>
  BY <1>1
<1>2. ASSUME NEW f \in Flows, Fetch(f) \/ Lock(f) \/ ListenFails(f) \/ Unlock(f) PROVE ServerOwned'
  BY <1>2 DEF Fetch, Lock, ListenFails, Unlock
<1>3. ASSUME NEW f \in Flows, Listen(f) PROVE ServerOwned'
  BY <1>3 DEF Listen
<1>4. ASSUME NEW f \in Flows, Install(f) \/ OpenURL(f) \/ Opened(f) \/ Receive(f) \/ GiveUp(f)
      PROVE ServerOwned'
  BY <1>4 DEF Install, OpenURL, Opened, Receive, GiveUp
<1>5. ASSUME NEW f \in Flows, Clear(f) PROVE ServerOwned'
  BY <1>5 DEF Clear
<1>6. ASSUME NEW f \in Flows, CloseServer(f) PROVE ServerOwned'
  BY <1>6 DEF CloseServer
<1>7. ASSUME NEW f \in Flows, ServeCallback(f) PROVE ServerOwned'
  BY <1>7 DEF ServeCallback, flowVars
<1>8. ASSUME NEW f \in Flows, Elsewhere(f) PROVE ServerOwned'
  <2>1. CASE ServeCallback(f)
    BY <1>7, <2>1
  <2>2. CASE ~ServeCallback(f)
    <3>1. UNCHANGED server
      BY <1>8, <2>2 DEF Elsewhere, Redirect, Refused, Deliver, Cancel
    <3> QED BY <1>8, <3>1, ElsewhereLeaves
  <2> QED BY <2>1, <2>2
<1> QED BY <1>1, <1>2, <1>3, <1>4, <1>5, <1>6, <1>8, Steps DEF Proceed

LEMMA WaitingOwnedNext == TypeOK /\ WaitingOwned /\ [Next]_vars => WaitingOwned'
<1> SUFFICES ASSUME TypeOK, WaitingOwned, [Next]_vars PROVE WaitingOwned'
  OBVIOUS
<1> USE DEF WaitingOwned, Awaited, Goto, TypeOK
<1>1. CASE UNCHANGED <<of, pc, server, authMu, waiting>>
  BY <1>1
<1>2. ASSUME NEW f \in Flows, Fetch(f) \/ Lock(f) \/ Listen(f) \/ ListenFails(f) \/ CloseServer(f) \/ Unlock(f)
      PROVE WaitingOwned'
  <2>1. pc[f] \notin Awaited /\ UNCHANGED <<of, waiting>> /\ \A g \in Flows \ {f} : pc'[g] = pc[g]
    BY <1>2 DEF Fetch, Lock, Listen, ListenFails, CloseServer, Unlock
  <2> QED BY <2>1
<1>3. ASSUME NEW f \in Flows, Install(f) PROVE WaitingOwned'
  BY <1>3 DEF Install
<1>4. ASSUME NEW f \in Flows, OpenURL(f) \/ Opened(f) \/ Receive(f) \/ GiveUp(f) PROVE WaitingOwned'
  <2>1. pc'[f] \in Awaited /\ UNCHANGED <<of, waiting>> /\ \A g \in Flows \ {f} : pc'[g] = pc[g]
    BY <1>4 DEF OpenURL, Opened, Receive, GiveUp
  <2> QED BY <2>1
<1>5. ASSUME NEW f \in Flows, Clear(f) PROVE WaitingOwned'
  \* Whichever of its flows an authorizer's channel was, it is gone; a channel
  \* of another authorizer is another flow's.
  <2>1. UNCHANGED of /\ \A g \in Flows \ {f} : pc'[g] = pc[g]
    BY <1>5 DEF Clear
  <2>2. waiting' = [waiting EXCEPT ![of[f]] = NoFlow]
    BY <1>5 DEF Clear
  <2> QED BY <2>1, <2>2
<1>6. ASSUME NEW f \in Flows, Elsewhere(f) PROVE WaitingOwned'
  BY <1>6, ElsewhereLeaves
<1> QED BY <1>1, <1>2, <1>3, <1>4, <1>5, <1>6, Steps DEF Proceed

LEMMA BrowserInductive == BrowserInv /\ [Next]_vars => BrowserInv'
BY TypeNext, EphemeralNext, ServerOwnedNext, WaitingOwnedNext DEF BrowserInv

----------------------------------------------------------------------------

\* The inductive invariant: who holds authMu, how long the server of a flow on a
\* fixed port lives, whose channel is installed.
THEOREM BrowserInvariance == Spec => []BrowserInv
BY BrowserInit, BrowserInductive, PTL DEF Spec

\* The variables of the consents keep their types, and authMu is held by the one
\* flow on a fixed port that is between authMu.Lock and its deferred Unlock.
THEOREM BrowserTypeCorrect == Spec => []TypeOK
<1>1. BrowserInv => TypeOK
  BY DEF BrowserInv
<1> QED BY BrowserInvariance, <1>1, PTL

\* Of any flows of any backends with a callback_port, one at most asks its user
\* (authMu).
THEOREM OneConsentHolds == Spec => []OneConsent
<1>1. TypeOK => OneConsent
  BY DEF TypeOK, OneConsent, Asking, Holding, Fetching
<1> QED BY BrowserTypeCorrect, <1>1, PTL

\* Whatever ports the backends have or share, no server that its flow has
\* started is left when authMu is free, on any path out of fetch.
THEOREM PortReleasedHolds == Spec => []PortReleased
<1>1. BrowserInv => PortReleased
  BY NoFlowAssumption DEF BrowserInv, TypeOK, ServerOwned, PortReleased, Holding, Fetching
<1> QED BY BrowserInvariance, <1>1, PTL

\* However many flows of one authorizer overlap, waiting is nil once none of
\* them is in progress.
THEOREM WaitingOnlyInFlowHolds == Spec => []WaitingOnlyInFlow
<1>1. BrowserInv => WaitingOnlyInFlow
  BY DEF BrowserInv, TypeOK, WaitingOwned, WaitingOnlyInFlow, Awaited
<1> QED BY BrowserInvariance, <1>1, PTL

----------------------------------------------------------------------------
(* The refinement of Consent.                                              *)

\* A redirect on its way was asked for by its flow, and the channel it is sent to
\* is that of a flow with the same address.
PickedHome ==
    \A g \in Flows : /\ picked[g] # NoFlow => Address(picked[g]) = Address(g)
                     /\ page[g] = "none" => picked[g] = NoFlow
ChannelHome ==
    \A f \in Flows : channel[f] # NoFlow
        => page[channel[f]] # "none" /\ Address(channel[f]) = Address(f)

ConsentInv == BrowserInv /\ PickedHome /\ ChannelHome

LEMMA ConsentInit == Init => ConsentInv
BY BrowserInit DEF ConsentInv, PickedHome, ChannelHome, Init

\* A flow keeps its address.
LEMMA AddressKept == ASSUME UNCHANGED of, NEW f \in Flows PROVE Address(f)' = Address(f)
BY DEF Address, OnFixed

\* Whoever answers on a redirect's address waits for a flow with that address.
LEMMA AnsweringHome ==
    ASSUME BrowserInv, NEW g \in Flows, NEW a \in Answering(g), waiting[a] # NoFlow
    PROVE  waiting[a] \in Flows /\ Address(waiting[a]) = Address(g)
<1>1. a \in Authorizers
  BY AnsweringAuthorizers DEF BrowserInv
<1>2. waiting[a] \in Flows /\ of[waiting[a]] = a
  BY <1>1 DEF BrowserInv, TypeOK, WaitingOwned
<1>3. CASE OnFixed(g)
  <2>1. PICK h \in Flows : OnFixed(h) /\ PortOf[of[h]] = PortOf[of[g]] /\ of[h] = a
    BY <1>3 DEF Answering
  <2> QED BY <1>2, <1>3, <2>1 DEF Address, OnFixed
<1>4. CASE ~OnFixed(g)
  <2>1. a = of[g]
    BY <1>4 DEF Answering
  <2> QED BY <1>2, <1>4, <2>1 DEF Address, OnFixed
<1> QED BY <1>2, <1>3, <1>4

\* The steps that neither carry a redirect nor begin to ask for one.
Idling ==
    \/ \E f \in Flows : \/ Fetch(f) \/ Lock(f) \/ Listen(f) \/ ListenFails(f) \/ Install(f)
                        \/ Opened(f) \/ GiveUp(f) \/ Clear(f) \/ CloseServer(f) \/ Unlock(f)
                        \/ ServeCallback(f) \/ Cancel(f)
    \/ Stop \/ Finished \/ UNCHANGED vars

LEMMA IdlingLeaves == Idling => UNCHANGED <<of, got, channel, page, picked>>
BY DEF Idling, Fetch, Lock, Listen, ListenFails, Install, Opened, GiveUp, Clear, CloseServer, Unlock,
       ServeCallback, Cancel, Stop, Finished, vars, flowVars, pageVars

LEMMA ConsentSteps ==
    ASSUME [Next]_vars
    PROVE  Idling \/ \E f \in Flows : OpenURL(f) \/ Receive(f) \/ Redirect(f) \/ Refused(f) \/ Deliver(f)
BY DEF Next, Proceed, Idling

LEMMA ConsentNext == ConsentInv /\ [Next]_vars => ConsentInv'
<1> SUFFICES ASSUME ConsentInv, [Next]_vars PROVE PickedHome' /\ ChannelHome'
  BY BrowserInductive DEF ConsentInv
<1>1. TypeOK /\ BrowserInv /\ PickedHome /\ ChannelHome
  BY DEF ConsentInv, BrowserInv
<1>2. /\ channel \in [Flows -> Flows \cup {NoFlow}] /\ picked \in [Flows -> Flows \cup {NoFlow}]
      /\ page \in [Flows -> {"none", "asked", "picked", "delivered", "dropped"}]
  BY <1>1 DEF TypeOK
<1> HIDE DEF ConsentInv
<1>3. UNCHANGED of
  BY ConsentSteps, IdlingLeaves DEF OpenURL, Receive, Redirect, Refused, Deliver, flowVars
<1>4. \A f \in Flows : Address(f)' = Address(f)
  BY <1>3, AddressKept
<1>5. CASE UNCHANGED <<channel, page, picked>>
  BY <1>1, <1>2, <1>4, <1>5 DEF PickedHome, ChannelHome
<1>6. ASSUME NEW f \in Flows, OpenURL(f) \/ Refused(f) PROVE PickedHome' /\ ChannelHome'
  <2>1. \E s \in {"asked", "dropped"} : page' = [page EXCEPT ![f] = s]
    BY <1>6 DEF OpenURL, Refused
  <2>2. UNCHANGED <<channel, picked>>
    BY <1>6 DEF OpenURL, Refused
  <2> QED BY <1>1, <1>2, <1>4, <2>1, <2>2 DEF PickedHome, ChannelHome
<1>7. ASSUME NEW f \in Flows, Receive(f) PROVE PickedHome' /\ ChannelHome'
  <2>1. channel' = [channel EXCEPT ![f] = NoFlow] /\ UNCHANGED <<page, picked>>
    BY <1>7 DEF Receive, pageVars
  <2> QED BY <1>1, <1>2, <1>4, <2>1 DEF PickedHome, ChannelHome
<1>8. ASSUME NEW g \in Flows, Redirect(g) PROVE PickedHome' /\ ChannelHome'
  <2>1. PICK a \in Answering(g) : picked' = [picked EXCEPT ![g] = waiting[a]]
    BY <1>8 DEF Redirect
  <2>2. page' = [page EXCEPT ![g] = "picked"] /\ UNCHANGED channel
    BY <1>8 DEF Redirect
  <2>3. waiting[a] # NoFlow => waiting[a] \in Flows /\ Address(waiting[a]) = Address(g)
    BY <1>1, AnsweringHome
  <2>4. PickedHome'
    BY <1>1, <1>2, <1>4, <2>1, <2>2, <2>3 DEF PickedHome
  <2>5. ChannelHome'
    BY <1>1, <1>2, <1>4, <2>2 DEF ChannelHome
  <2> QED BY <2>4, <2>5
<1>9. ASSUME NEW g \in Flows, Deliver(g) PROVE PickedHome' /\ ChannelHome'
  <2>1. /\ page[g] = "picked" /\ UNCHANGED picked
        /\ \E s \in {"delivered", "dropped"} : page' = [page EXCEPT ![g] = s]
    BY <1>9 DEF Deliver
  <2>2. PickedHome'
    BY <1>1, <1>2, <1>4, <2>1 DEF PickedHome
  <2>3. channel' = channel \/ (picked[g] # NoFlow /\ channel' = [channel EXCEPT ![picked[g]] = g])
    BY <1>9 DEF Deliver
  <2>4. picked[g] # NoFlow => Address(picked[g]) = Address(g)
    BY <1>1 DEF PickedHome
  <2>5. ChannelHome'
    BY <1>1, <1>2, <1>4, <2>1, <2>3, <2>4 DEF ChannelHome
  <2> QED BY <2>2, <2>5
<1> QED BY <1>5, <1>6, <1>7, <1>8, <1>9, ConsentSteps, IdlingLeaves

\* The functions of the mapping, under a name.
Site == [f \in Flows |-> Address(f)]
Stage == [f \in Flows |-> IF Asking(f) THEN "asking"
                          ELSE IF pc[f] \in Due THEN "due"
                          ELSE IF pc[f] = "idle" THEN "idle" ELSE "over"]
Asked == {f \in Flows : page[f] # "none"}

\* The stage a program counter stands for.
StageOf(step) == CASE step \in {"opened", "select"} -> "asking"
                   [] step \in Due -> "due"
                   [] step = "idle" -> "idle"
                   [] OTHER -> "over"

LEMMA StageIs == \A f \in Flows : Stage[f] = StageOf(pc[f]) /\ Stage'[f] = StageOf(pc'[f])
BY DEF Stage, StageOf, Asking, Due

\* A step of one flow moves its stage and no other.
LEMMA StageMoves ==
    ASSUME TypeOK, NEW f \in Flows, NEW step, Goto(f, step)
    PROVE  Stage' = [Stage EXCEPT ![f] = StageOf(step)]
<1>1. pc'[f] = step /\ \A g \in Flows \ {f} : pc'[g] = pc[g]
  BY DEF Goto, TypeOK
<1>2. \A g \in Flows : Stage'[g] = [Stage EXCEPT ![f] = StageOf(step)][g]
  <2> SUFFICES ASSUME NEW g \in Flows PROVE Stage'[g] = [Stage EXCEPT ![f] = StageOf(step)][g]
    OBVIOUS
  <2>1. CASE g = f
    BY <1>1, <2>1, StageIs DEF Stage
  <2>2. CASE g # f
    BY <1>1, <2>2, StageIs DEF Stage
  <2> QED BY <2>1, <2>2
<1>3. Stage' = [g \in Flows |-> Stage'[g]]
  BY DEF Stage
<1>4. [Stage EXCEPT ![f] = StageOf(step)] = [g \in Flows |-> [Stage EXCEPT ![f] = StageOf(step)][g]]
  BY DEF Stage
<1> QED BY <1>2, <1>3, <1>4

\* It stays where it is when the stage is the same.
LEMMA StageStays ==
    ASSUME TypeOK, NEW f \in Flows, NEW step, Goto(f, step), StageOf(step) = StageOf(pc[f])
    PROVE  Stage' = Stage
<1>1. Stage' = [Stage EXCEPT ![f] = Stage[f]]
  BY StageMoves, StageIs
<1> QED BY <1>1 DEF Stage

\* Every step of BrowserAuth is a step of Consent, or leaves its state alone.
LEMMA ConsentStepMaps == ConsentInv /\ [Next]_vars => [Promise!Next]_(Promise!vars)
<1> SUFFICES ASSUME ConsentInv, [Next]_vars PROVE [Promise!Next]_(Promise!vars)
  OBVIOUS
<1>1. TypeOK /\ Ephemeral /\ ChannelHome
  BY DEF ConsentInv, BrowserInv
<1>2. UNCHANGED of
  BY ConsentSteps, IdlingLeaves DEF OpenURL, Receive, Redirect, Refused, Deliver, flowVars
<1>3. UNCHANGED Site
  BY <1>2, AddressKept DEF Site
<1>4. ASSUME UNCHANGED <<Stage, Asked, got>> PROVE UNCHANGED Promise!vars
  BY <1>3, <1>4 DEF Promise!vars, Site, Stage, Asked
<1>5. CASE Idling
  <2>1. UNCHANGED <<got, Asked>>
    BY <1>5, IdlingLeaves DEF Asked
  <2>2. ASSUME UNCHANGED pc PROVE UNCHANGED Promise!vars
    BY <1>4, <2>1, <2>2 DEF Stage, Asking
  <2>3. ASSUME NEW f \in Flows, Fetch(f) PROVE Promise!Begin(f)
    <3>1. pc[f] = "idle" /\ \E step \in Due : Goto(f, step)
      BY <2>3 DEF Fetch, Due
    <3>2. Stage[f] = "idle" /\ Stage' = [Stage EXCEPT ![f] = "due"]
      BY <1>1, <3>1, StageIs, StageMoves DEF StageOf, Due
    <3> QED BY <1>3, <2>1, <3>2 DEF Promise!Begin, Promise!Enter, Site, Stage, Asked
  <2>4. ASSUME NEW f \in Flows,
               Lock(f) \/ Listen(f) \/ Install(f) \/ Opened(f) \/ Clear(f) \/ CloseServer(f) \/ Unlock(f)
        PROVE  UNCHANGED Promise!vars
    <3>1. PICK step \in {"listen", "install", "open", "select", "close", "unlock", "returned"} :
            Goto(f, step) /\ StageOf(step) = StageOf(pc[f])
      BY <2>4 DEF Lock, Listen, Install, Opened, Clear, CloseServer, Unlock, StageOf, Due
    <3> QED BY <1>1, <1>4, <2>1, <3>1, StageStays
  <2>5. ASSUME NEW f \in Flows, ListenFails(f) \/ GiveUp(f) PROVE Promise!Abandon(f)
    <3>1. pc[f] \in {"listen", "select"} /\ \E step \in {"returned", "clear"} : Goto(f, step)
      BY <2>5 DEF ListenFails, GiveUp
    <3>2. Stage[f] \in {"due", "asking"} /\ Stage' = [Stage EXCEPT ![f] = "over"]
      BY <1>1, <3>1, StageIs, StageMoves DEF StageOf, Due
    <3> QED BY <1>3, <2>1, <3>2 DEF Promise!Abandon, Promise!Enter, Site, Stage, Asked
  <2>6. ASSUME \/ \E f \in Flows : ServeCallback(f) \/ Cancel(f)
               \/ Stop \/ Finished \/ UNCHANGED vars
        PROVE  UNCHANGED pc
    BY <2>6 DEF ServeCallback, Cancel, Stop, Finished, vars, flowVars
  <2> QED BY <1>5, <2>2, <2>3, <2>4, <2>5, <2>6 DEF Idling, Promise!Next
<1>6. ASSUME NEW f \in Flows, OpenURL(f) PROVE Promise!Ask(f)
  <2>1. /\ pc[f] = "open" /\ Goto(f, "opened") /\ UNCHANGED got
        /\ page' = [page EXCEPT ![f] = "asked"]
    BY <1>6 DEF OpenURL
  <2>2. Stage[f] = "due" /\ Stage' = [Stage EXCEPT ![f] = "asking"]
    BY <1>1, <2>1, StageIs, StageMoves DEF StageOf, Due
  <2>3. Asked' = Asked \cup {f}
    BY <1>1, <2>1 DEF Asked, TypeOK
  <2>4. ASSUME Site[f].fixed, NEW g \in Flows, Site[g].fixed PROVE Stage[g] # "asking"
    <3>1. OnFixed(f) /\ OnFixed(g)
      BY <2>4 DEF Site, Address
    <3>2. authMu = f
      BY <1>1, <2>1, <3>1 DEF TypeOK, Holding, Fetching
    <3>3. CASE g = f
      BY <2>2, <3>3
    <3>4. CASE g # f
      <4>1. pc[g] \notin Holding
        BY <1>1, <3>1, <3>2, <3>4 DEF TypeOK
      <4>2. ~Asking(g)
        BY <4>1 DEF Asking, Holding, Fetching
      <4> QED BY <4>2 DEF Stage
    <3> QED BY <3>3, <3>4
  <2> QED BY <1>3, <2>1, <2>2, <2>3, <2>4 DEF Promise!Ask, Promise!Enter, Site, Stage, Asked
<1>7. ASSUME NEW f \in Flows, Receive(f) PROVE Promise!Settle(f)
  <2>1. /\ pc[f] = "select" /\ Goto(f, "clear") /\ channel[f] # NoFlow
        /\ got' = [got EXCEPT ![f] = channel[f]] /\ UNCHANGED page
    BY <1>7 DEF Receive, pageVars
  <2>2. Stage[f] = "asking" /\ Stage' = [Stage EXCEPT ![f] = "over"] /\ UNCHANGED Asked
    BY <1>1, <2>1, StageIs, StageMoves DEF StageOf, Due, Asked
  <2>3. channel[f] \in Asked /\ Site[channel[f]] = Site[f]
    BY <1>1, <2>1 DEF TypeOK, ChannelHome, Asked, Site
  <2> QED BY <1>3, <2>1, <2>2, <2>3 DEF Promise!Settle, Promise!Enter, Site, Stage, Asked
<1>8. ASSUME NEW g \in Flows, Redirect(g) \/ Refused(g) \/ Deliver(g) PROVE UNCHANGED Promise!vars
  <2>1. /\ UNCHANGED <<pc, got>> /\ page[g] # "none"
        /\ \E s \in {"picked", "delivered", "dropped"} : page' = [page EXCEPT ![g] = s]
    BY <1>8 DEF Redirect, Refused, Deliver, flowVars
  <2>2. UNCHANGED <<Stage, Asked>>
    BY <1>1, <2>1 DEF Stage, Asking, Asked, TypeOK
  <2> QED BY <1>4, <2>1, <2>2
<1> QED BY <1>5, <1>6, <1>7, <1>8, ConsentSteps DEF Promise!Next

LEMMA ConsentInvariance == Spec => []ConsentInv
BY ConsentInit, ConsentNext, PTL DEF Spec

\* BrowserAuth implements Consent, for any flows, backends and ports, shared or not
\* (oauth.go:305-320, 337-352, 357-388).
THEOREM ConsentKept == Spec => ImplementsConsent
<1>1. Spec => []ConsentInv
  BY ConsentInvariance
<1>2. Init => Promise!Init
  <2> SUFFICES ASSUME Init PROVE Promise!Init
    OBVIOUS
  <2>1. of \in [Flows -> Authorizers]
    BY AssignmentsAssumption DEF Init
  <2>2. \A f \in Flows : Address(f) \in
          [fixed : BOOLEAN, at : Authorizers \cup {PortOf[a] : a \in Fixed}]
    BY <2>1 DEF Address, OnFixed
  <2> QED BY <2>2 DEF Init, Promise!Init, Asking, Due
<1>3. Spec => [][Promise!Next]_(Promise!vars)
  BY <1>1, ConsentStepMaps, PTL DEF Spec
<1> QED BY <1>2, <1>3, PTL DEF Spec, ImplementsConsent, Promise!Spec

----------------------------------------------------------------------------
(* The user's answer on a fixed port.                                      *)

\* From Install to its deferred reset and close, a flow on a fixed port has its
\* own server, and its channel is the one its authorizer waits on.
Listening == {"install", "open", "opened", "select", "clear", "close"}
OwnServer(f) == OnFixed(f) /\ pc[f] \in Listening => server[f] \in {"bound", "serving"}
OwnChannel(f) == OnFixed(f) /\ pc[f] \in Awaited => waiting[of[f]] = f
Kept(f) ==
    OnFixed(f) /\ Asking(f) => /\ page[f] = "picked" => picked[f] = f
                               /\ page[f] = "delivered" => channel[f] = f
                               /\ page[f] = "dropped" => channel[f] \notin {f, NoFlow}

\* Nobody is asked before the URL is out, and what is in a channel was delivered.
Unasked == \A f \in Flows : pc[f] \in {"idle"} \cup Due => page[f] = "none"
Filled == \A f \in Flows : channel[f] # NoFlow => page[channel[f]] = "delivered"

AnswerInv ==
    /\ BrowserInv /\ Unasked /\ Filled
    /\ \A f \in Flows : OwnServer(f) /\ OwnChannel(f) /\ Kept(f)

LEMMA AnswerInit == Init => AnswerInv
BY BrowserInit DEF Init, AnswerInv, OwnServer, OwnChannel, Kept, Unasked, Filled, Asking, Listening, Awaited

\* A server on the port of a flow that holds authMu is that flow's.
LEMMA OneServer ==
    ASSUME BrowserInv, NEW f \in Flows, NEW h \in Flows, OnFixed(f), pc[f] \in Holding,
           OnFixed(h), server[h] \in {"bound", "serving"}
    PROVE  h = f
<1>1. pc[h] \in Holding
  BY DEF BrowserInv, ServerOwned, Holding, Fetching
<1> QED BY <1>1 DEF BrowserInv, TypeOK

\* A flow that asks on a fixed port keeps the others from every step that touches
\* its authorizer's waiting field.
LEMMA Alone ==
    ASSUME TypeOK, NEW f \in Flows, NEW g \in Flows, g # f, OnFixed(f), pc[f] \in Holding, of[g] = of[f]
    PROVE  pc[g] \notin Holding
BY DEF TypeOK, OnFixed

LEMMA OwnNext ==
    AnswerInv /\ [Next]_vars => \A f \in Flows : OwnServer(f)' /\ OwnChannel(f)'
<1> SUFFICES ASSUME AnswerInv, [Next]_vars, NEW f \in Flows PROVE OwnServer(f)' /\ OwnChannel(f)'
  OBVIOUS
<1>1. TypeOK /\ Ephemeral /\ OwnServer(f) /\ OwnChannel(f)
  BY DEF AnswerInv, BrowserInv
<1>t. of \in [Flows -> Authorizers]
  BY <1>1, AssignmentsAssumption DEF TypeOK
<1> USE DEF Goto, Listening, Awaited
<1>2. ASSUME UNCHANGED <<of, pc, waiting>>, server'[f] \in {server[f], "serving"} PROVE OwnServer(f)' /\ OwnChannel(f)'
  BY <1>1, <1>2 DEF OwnServer, OwnChannel, OnFixed
<1>3. ASSUME NEW g \in Flows, Fetch(g) \/ Lock(g) \/ Listen(g) \/ ListenFails(g) \/ OpenURL(g)
                              \/ Opened(g) \/ Receive(g) \/ GiveUp(g) \/ Unlock(g)
      PROVE OwnServer(f)' /\ OwnChannel(f)'
  <2>1. /\ UNCHANGED <<of, waiting>>
        /\ server' = server \/ server' = [server EXCEPT ![g] = "bound"]
        /\ \A h \in Flows \ {g} : pc'[h] = pc[h]
    BY <1>1, <1>3 DEF Fetch, Lock, Listen, ListenFails, OpenURL, Opened, Receive, GiveUp, Unlock, TypeOK
  <2>2. CASE g # f
    BY <1>1, <2>1, <2>2 DEF OwnServer, OwnChannel, OnFixed, TypeOK
  <2>3. CASE g = f
    BY <1>1, <1>3, <2>1, <2>3
       DEF OwnServer, OwnChannel, OnFixed, TypeOK, Fetch, Lock, Listen, ListenFails, OpenURL, Opened,
           Receive, GiveUp, Unlock
  <2> QED BY <2>2, <2>3
<1>4. ASSUME NEW g \in Flows, Install(g) \/ Clear(g) PROVE OwnServer(f)' /\ OwnChannel(f)'
  <2>1. /\ pc[g] \in {"install", "clear"} /\ UNCHANGED <<of, server>>
        /\ \A h \in Flows \ {g} : pc'[h] = pc[h]
        /\ \E ch \in Flows \cup {NoFlow} : waiting' = [waiting EXCEPT ![of[g]] = ch]
    BY <1>1, <1>4 DEF Install, Clear, TypeOK
  <2>2. CASE g # f
    <3>1. ASSUME OnFixed(f), pc[f] \in Awaited PROVE of[g] # of[f]
      BY <1>1, <2>1, <2>2, <3>1, Alone DEF Holding, Fetching
    <3>2. OnFixed(f) /\ pc[f] \in Awaited => waiting'[of[f]] = waiting[of[f]]
      BY <1>1, <1>t, <2>1, <3>1 DEF TypeOK
    <3> QED BY <1>1, <2>1, <2>2, <3>2 DEF OwnServer, OwnChannel, OnFixed
  <2>3. CASE g = f
    <3>1. CASE Install(f)
      BY <1>1, <1>t, <3>1 DEF Install, OwnServer, OwnChannel, OnFixed, TypeOK
    <3>2. CASE Clear(f)
      BY <1>1, <3>2 DEF Clear, OwnServer, OwnChannel, OnFixed, TypeOK
    <3> QED BY <1>4, <2>3, <3>1, <3>2
  <2> QED BY <2>2, <2>3
<1>5. ASSUME NEW g \in Flows, CloseServer(g) PROVE OwnServer(f)' /\ OwnChannel(f)'
  <2>1. /\ UNCHANGED <<of, waiting>> /\ pc' = [pc EXCEPT ![g] = "unlock"]
        /\ \A h \in Flows \ {g} : server'[h] = server[h]
    BY <1>1, <1>5 DEF CloseServer, TypeOK
  <2> QED BY <1>1, <2>1 DEF OwnServer, OwnChannel, OnFixed, TypeOK
<1>6. ASSUME NEW g \in Flows, Elsewhere(g) PROVE OwnServer(f)' /\ OwnChannel(f)'
  <2>1. UNCHANGED <<of, pc, waiting>>
    BY <1>6, ElsewhereLeaves
  <2>2. CASE ServeCallback(g)
    <3>1. server' = [server EXCEPT ![g] = IF @ = "bound" THEN "serving" ELSE "closed"]
          /\ server[g] \in {"bound", "late"}
      BY <2>2 DEF ServeCallback
    <3> QED BY <1>1, <2>1, <3>1 DEF OwnServer, OwnChannel, OnFixed, TypeOK
  <2>3. CASE ~ServeCallback(g)
    <3>1. server' = server
      BY <1>6, <2>3 DEF Elsewhere, Redirect, Refused, Deliver, Cancel
    <3> QED BY <1>2, <2>1, <3>1
  <2> QED BY <2>2, <2>3
<1> QED BY <1>2, <1>3, <1>4, <1>5, <1>6, Steps DEF Proceed

LEMMA FilledNext == AnswerInv /\ [Next]_vars => Unasked' /\ Filled'
<1> SUFFICES ASSUME AnswerInv, [Next]_vars PROVE Unasked' /\ Filled'
  OBVIOUS
<1>1. Unasked /\ Filled
  BY DEF AnswerInv
<1>2. /\ channel \in [Flows -> Flows \cup {NoFlow}] /\ picked \in [Flows -> Flows \cup {NoFlow}]
      /\ page \in [Flows -> {"none", "asked", "picked", "delivered", "dropped"}]
      /\ pc \in [Flows -> {"idle", "returned"} \cup Fetching]
  BY DEF AnswerInv, BrowserInv, TypeOK
<1>3. CASE Idling
  <2>1. UNCHANGED <<channel, page>>
    BY <1>3, IdlingLeaves
  <2>2. \A f \in Flows : pc'[f] \in {"idle"} \cup Due => pc[f] \in {"idle"} \cup Due
    BY <1>2, <1>3 DEF Idling, Fetch, Lock, Listen, ListenFails, Install, Opened, GiveUp, Clear, CloseServer,
          Unlock, ServeCallback, Cancel, Stop, Finished, vars, flowVars, Goto, Due
  <2> QED BY <1>1, <2>1, <2>2 DEF Unasked, Filled
<1>4. ASSUME NEW g \in Flows, OpenURL(g) PROVE Unasked' /\ Filled'
  <2>1. /\ pc[g] = "open" /\ pc' = [pc EXCEPT ![g] = "opened"]
        /\ page' = [page EXCEPT ![g] = "asked"] /\ channel' = channel
    BY <1>4 DEF OpenURL, Goto
  <2>2. page[g] = "none"
    BY <1>1, <2>1 DEF Unasked, Due
  <2> QED BY <1>1, <1>2, <2>1, <2>2 DEF Unasked, Filled, Due
<1>5. ASSUME NEW g \in Flows, Receive(g) PROVE Unasked' /\ Filled'
  <2>1. /\ pc' = [pc EXCEPT ![g] = "clear"] /\ channel' = [channel EXCEPT ![g] = NoFlow]
        /\ page' = page
    BY <1>5 DEF Receive, Goto, pageVars
  <2> QED BY <1>1, <1>2, <2>1 DEF Unasked, Filled, Due
<1>6. ASSUME NEW g \in Flows, Redirect(g) \/ Refused(g) PROVE Unasked' /\ Filled'
  <2>1. /\ page[g] = "asked" /\ UNCHANGED <<pc, channel>>
        /\ \E s \in {"picked", "dropped"} : page' = [page EXCEPT ![g] = s]
    BY <1>6 DEF Redirect, Refused, flowVars
  <2> QED BY <1>1, <1>2, <2>1 DEF Unasked, Filled
<1>7. ASSUME NEW g \in Flows, Deliver(g) PROVE Unasked' /\ Filled'
  <2>1. page[g] = "picked" /\ pc' = pc
    BY <1>7 DEF Deliver, flowVars
  <2>2. \/ /\ picked[g] \in Flows /\ channel' = [channel EXCEPT ![picked[g]] = g]
           /\ page' = [page EXCEPT ![g] = "delivered"]
        \/ channel' = channel /\ page' = [page EXCEPT ![g] = "dropped"]
    BY <1>2, <1>7 DEF Deliver
  <2>3. Unasked'
    BY <1>1, <1>2, <2>1, <2>2 DEF Unasked
  <2>4. Filled'
    BY <1>1, <1>2, <2>1, <2>2 DEF Filled
  <2> QED BY <2>3, <2>4
<1> QED BY <1>3, <1>4, <1>5, <1>6, <1>7, ConsentSteps

LEMMA KeptNext == AnswerInv /\ [Next]_vars => \A f \in Flows : Kept(f)'
<1> SUFFICES ASSUME AnswerInv, [Next]_vars, NEW f \in Flows PROVE Kept(f)'
  OBVIOUS
<1>1. TypeOK /\ BrowserInv /\ Filled /\ OwnServer(f) /\ OwnChannel(f) /\ Kept(f)
  BY DEF AnswerInv, BrowserInv
<1>2. /\ channel \in [Flows -> Flows \cup {NoFlow}] /\ picked \in [Flows -> Flows \cup {NoFlow}]
      /\ page \in [Flows -> {"none", "asked", "picked", "delivered", "dropped"}]
      /\ pc \in [Flows -> {"idle", "returned"} \cup Fetching]
  BY <1>1 DEF TypeOK
<1>3. UNCHANGED of
  BY ConsentSteps, IdlingLeaves DEF OpenURL, Receive, Redirect, Refused, Deliver, flowVars
<1> DEFINE Apart(g) == \A h \in Flows \ {g} : pc'[h] = pc[h]
<1>4. CASE Idling
  <2>1. UNCHANGED <<of, channel, page, picked>>
    BY <1>4, IdlingLeaves
  <2>2. Asking(f)' => Asking(f)
    BY <1>2, <1>4 DEF Idling, Fetch, Lock, Listen, ListenFails, Install, Opened, GiveUp, Clear, CloseServer,
          Unlock, ServeCallback, Cancel, Stop, Finished, vars, flowVars, Goto, Asking
  <2> QED BY <1>1, <2>1, <2>2 DEF Kept, OnFixed
<1>5. ASSUME NEW g \in Flows, OpenURL(g) PROVE Kept(f)'
  <2>1. /\ pc' = [pc EXCEPT ![g] = "opened"] /\ page' = [page EXCEPT ![g] = "asked"]
        /\ UNCHANGED <<channel, picked>>
    BY <1>5 DEF OpenURL, Goto
  <2>2. CASE g = f
    BY <1>2, <2>1, <2>2 DEF Kept
  <2>3. CASE g # f
    BY <1>1, <1>2, <1>3, <2>1, <2>3 DEF Kept, Asking, OnFixed
  <2> QED BY <2>2, <2>3
<1>6. ASSUME NEW g \in Flows, Receive(g) PROVE Kept(f)'
  <2>1. /\ pc' = [pc EXCEPT ![g] = "clear"] /\ channel' = [channel EXCEPT ![g] = NoFlow]
        /\ UNCHANGED <<page, picked>>
    BY <1>6 DEF Receive, Goto, pageVars
  <2>2. CASE g = f
    BY <1>2, <2>1, <2>2 DEF Kept, Asking
  <2>3. CASE g # f
    BY <1>1, <1>2, <1>3, <2>1, <2>3 DEF Kept, Asking, OnFixed
  <2> QED BY <2>2, <2>3
<1>7. ASSUME OnFixed(f), Asking(f)
      PROVE  pc[f] \in Holding /\ server[f] \in {"bound", "serving"} /\ waiting[of[f]] = f
  BY <1>1, <1>7 DEF Asking, OwnServer, OwnChannel, Holding, Fetching, Listening, Awaited
<1>8. ASSUME NEW g \in Flows, Redirect(g) PROVE Kept(f)'
  <2>1. /\ page' = [page EXCEPT ![g] = "picked"] /\ UNCHANGED <<pc, channel>>
        /\ \A h \in Flows \ {g} : picked'[h] = picked[h]
    BY <1>2, <1>8 DEF Redirect, flowVars
  <2>2. CASE g # f
    BY <1>1, <1>2, <1>3, <2>1, <2>2 DEF Kept, Asking, OnFixed
  <2>3. CASE g = f
    <3>1. PICK a \in Answering(f) : picked' = [picked EXCEPT ![f] = waiting[a]]
      BY <1>8, <2>3 DEF Redirect
    <3>2. ASSUME OnFixed(f), Asking(f) PROVE picked'[f] = f
      <4>1. PICK h \in Flows : OnFixed(h) /\ server[h] = "serving" /\ of[h] = a
        BY <3>1, <3>2 DEF Answering
      <4>2. h = f
        BY <1>1, <1>7, <3>2, <4>1, OneServer
      <4> QED BY <1>2, <1>7, <3>1, <3>2, <4>1, <4>2
    <3> QED BY <1>2, <1>3, <2>1, <2>3, <3>2 DEF Kept, Asking, OnFixed
  <2> QED BY <2>2, <2>3
<1>9. ASSUME NEW g \in Flows, Refused(g) PROVE Kept(f)'
  <2>1. /\ page' = [page EXCEPT ![g] = "dropped"] /\ UNCHANGED <<pc, channel, picked>>
        /\ OnFixed(g) => ~PortTaken(PortOf[of[g]])
    BY <1>9 DEF Refused, flowVars
  <2>2. CASE g # f
    BY <1>1, <1>2, <1>3, <2>1, <2>2 DEF Kept, Asking, OnFixed
  <2>3. CASE g = f
    <3>1. ~(OnFixed(f) /\ Asking(f))
      BY <1>7, <2>1, <2>3 DEF PortTaken, Bound
    <3> QED BY <1>3, <2>1, <3>1 DEF Kept, Asking, OnFixed
  <2> QED BY <2>2, <2>3
<1>10. ASSUME NEW g \in Flows, Deliver(g) PROVE Kept(f)'
  <2>1. page[g] = "picked" /\ UNCHANGED <<pc, picked>>
    BY <1>10 DEF Deliver, flowVars
  <2>2. \/ /\ picked[g] \in Flows /\ channel[picked[g]] = NoFlow
           /\ channel' = [channel EXCEPT ![picked[g]] = g]
           /\ page' = [page EXCEPT ![g] = "delivered"]
        \/ /\ picked[g] = NoFlow \/ channel[picked[g]] # NoFlow
           /\ channel' = channel /\ page' = [page EXCEPT ![g] = "dropped"]
    BY <1>2, <1>10 DEF Deliver
  <2>3. channel[f] # NoFlow => channel'[f] = channel[f]
    BY <1>2, <2>2
  <2>4. CASE g # f
    <3>1. page'[f] = page[f]
      BY <1>2, <2>2, <2>4
    <3> QED BY <1>1, <1>2, <1>3, <2>1, <2>3, <3>1, NoFlowAssumption DEF Kept, Asking, OnFixed
  <2>5. CASE g = f
    <3>1. ASSUME OnFixed(f), Asking(f)
          PROVE \/ page'[f] = "delivered" /\ channel'[f] = f
                \/ page'[f] = "dropped" /\ channel'[f] \notin {f, NoFlow}
      <4>1. picked[f] = f
        BY <1>1, <2>1, <2>5, <3>1 DEF Kept
      <4>2. channel[f] # f
        BY <1>1, <2>1, <2>5, NoFlowAssumption DEF Filled
      <4> QED BY <1>2, <2>2, <2>5, <4>1, <4>2, NoFlowAssumption
    <3> QED BY <1>2, <1>3, <2>1, <2>5, <3>1 DEF Kept, Asking, OnFixed
  <2> QED BY <2>4, <2>5
<1> QED BY <1>4, <1>5, <1>6, <1>8, <1>9, <1>10, ConsentSteps

\* While a flow on a fixed port asks, its user's answer goes into its channel and
\* stays there, unless the late redirect of a flow that is over already fills it; for
\* any flows, backends and ports (oauth.go:305-320, 358).
THEOREM AnswerKeptHolds == Spec => []AnswerKept
<1>1. AnswerInv /\ [Next]_vars => AnswerInv'
  BY BrowserInductive, OwnNext, FilledNext, KeptNext DEF AnswerInv
<1>2. AnswerInv /\ ConsentInv => AnswerKept
  <2> SUFFICES ASSUME AnswerInv, ConsentInv, NEW f \in Flows, OnFixed(f), Asking(f), page[f] = "dropped"
               PROVE  \E g \in Flows : channel[f] = g /\ LateOnPortOf(f, g)
    BY DEF AnswerInv, Kept, AnswerKept
  <2>1. TypeOK /\ Unasked /\ Filled /\ Kept(f) /\ ChannelHome
    BY DEF AnswerInv, BrowserInv, ConsentInv
  <2>2. channel[f] \in Flows \ {f}
    BY <2>1 DEF Kept, TypeOK
  <2> DEFINE g == channel[f]
  <2>3. page[g] = "delivered" /\ Address(g) = Address(f)
    BY <2>1, <2>2, NoFlowAssumption DEF Filled, ChannelHome
  <2>4. OnFixed(g) /\ PortOf[of[g]] = PortOf[of[f]]
    BY <2>3 DEF Address
  <2>5. pc[g] \notin {"idle"} \cup Due
    BY <2>1, <2>2, <2>3 DEF Unasked
  <2>6. pc[g] \notin Holding
    <3>1. authMu = f
      BY <2>1 DEF TypeOK, Asking, Holding, Fetching
    <3> QED BY <2>1, <2>2, <2>4, <3>1 DEF TypeOK
  <2>7. pc[g] = "returned"
    BY <2>1, <2>2, <2>5, <2>6 DEF TypeOK, Holding, Fetching, Due
  <2> QED BY <2>2, <2>3, <2>4, <2>7 DEF LateOnPortOf
<1> QED BY AnswerInit, ConsentInvariance, <1>1, <1>2, PTL DEF Spec
=============================================================================
