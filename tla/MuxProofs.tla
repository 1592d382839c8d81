----------------------------- MODULE MuxProofs -----------------------------
(***************************************************************************)
(* Proofs about Mux: its invariants hold of every set of backends, of any  *)
(* kind, however the process is started.                                   *)
(***************************************************************************)
EXTENDS Mux, TLAPS

(***************************************************************************)
(* What the owner of a backend holds at each of its steps.                 *)
(***************************************************************************)
NotOpened(b) == cur[b] = NoSession /\ alive[b] = {} /\ fresh[b] = NoSession
Opened(b) == cur[b] \in SessionIds /\ alive[b] \subseteq {cur[b]} /\ fresh[b] = NoSession
Lost(b) == Opened(b) /\ alive[b] = {}
Redialed(b) ==
    /\ cur[b] \in SessionIds
    /\ fresh[b] \in SessionIds
    /\ alive[b] \subseteq {fresh[b]}

\* registered says whether the session was once published, and the session is
\* what that step of bringUp, supervise or reconnect leaves behind.
Held(b) ==
    /\ pc[b] \in {"config", "open", "backoff", "skipped"} => NotOpened(b) /\ ~registered[b]
    /\ pc[b] \in {"eager", "list", "publish"} => Opened(b) /\ ~registered[b]
    /\ pc[b] = "add" => IF registered[b] THEN Opened(b) ELSE NotOpened(b)
    /\ pc[b] \in {"lostrace", "supervise"} => Opened(b) /\ registered[b]
    /\ pc[b] \in {"redial", "rewait"} => Lost(b) /\ registered[b]
    /\ pc[b] \in {"redialed", "store"} => Redialed(b) /\ registered[b]
    /\ pc[b] = "exited" => IF registered[b] THEN Lost(b) ELSE NotOpened(b)

\* A backend that may open a browser enters no retry loop, and without a retry
\* policy none does.
NoBrowserRetry(b) ==
    /\ b \in backends /\ (BringingUp(b) \/ pc[b] = "backoff") => ~Interactive(b)
    /\ pc[b] = "add" /\ ~registered[b] => ~Interactive(b) /\ mode.retry

\* What Close has waited for.
Waited ==
    /\ bg = "done" => \A b \in Backends : Decided(b)
    /\ main \in {"sessions", "svgwait", "closed"} => bg = "done"
    /\ main = "closed" => \A b \in backends : pc[b] = "exited"

IInv ==
    /\ TypeOK
    /\ \A b \in Backends : Held(b)
    /\ \A b \in Backends : NoBrowserRetry(b)
    /\ Waited

----------------------------------------------------------------------------
(* Types. *)

\* The process starts with every variable in its type and every owner in place.
LEMMA TypeInit == Init => TypeOK
<1> SUFFICES ASSUME Init PROVE TypeOK
  OBVIOUS
<1> USE DEF Init
<1>1. /\ mode \in Modes /\ main \in MainStates /\ bg \in {"idle", "running", "done"}
      /\ {ctxDone, closing, sigusr1} \subseteq BOOLEAN
  BY DEF MainStates
<1>2. toClose \subseteq Backends /\ backends \subseteq Backends
  OBVIOUS
<1>3. /\ pc \in [Backends -> Steps]
      /\ \A b \in Backends : pc[b] \in IF b \in backends THEN RunSteps ELSE UnrecordedSteps
  BY DEF Steps, UnrecordedSteps
<1>4. registered \in [Backends -> BOOLEAN] /\ kick \in [Backends -> BOOLEAN]
  OBVIOUS
<1>5. /\ cur \in [Backends -> SessionIds \cup {NoSession}]
      /\ fresh \in [Backends -> SessionIds \cup {NoSession}]
  OBVIOUS
<1>6. alive \in [Backends -> SUBSET SessionIds] /\ parent \in [Backends -> {"caller", "run"}]
  OBVIOUS
<1> QED BY <1>1, <1>2, <1>3, <1>4, <1>5, <1>6 DEF TypeOK

\* No step of a backend, of Connect, of Close or of the environment leaves it.
LEMMA TypeNext == TypeOK /\ [Next]_vars => TypeOK'
<1> SUFFICES ASSUME TypeOK, [Next]_vars PROVE TypeOK'
  OBVIOUS
<1> USE DEF TypeOK, MainStates, Steps, UnrecordedSteps, RunSteps, Goto
<1>1. ASSUME NEW b \in Backends, BringUp(b) PROVE TypeOK'
  <2>1. CASE Start(b)
    BY <2>1 DEF Start, mainVars, catalogVars, sessionVars
  <2>2. CASE OpenOK(b)
    BY <2>2 DEF OpenOK, mainVars, catalogVars, sessionVars
  <2>3. CASE OpenFails(b)
    BY <2>3 DEF OpenFails, mainVars, catalogVars, sessionVars, AfterFailure
  <2>4. CASE EagerDone(b)
    BY <2>4 DEF EagerDone, mainVars, catalogVars, sessionVars
  <2>5. CASE ListOK(b)
    BY <2>5 DEF ListOK, mainVars, catalogVars, sessionVars
  <2>6. CASE ListFails(b)
    BY <2>6 DEF ListFails, mainVars, catalogVars, sessionVars, AfterFailure, CloseCur
  <2>7. CASE Publish(b)
    BY <2>7 DEF Publish, mainVars, catalogVars, sessionVars
  <2>8. CASE Add(b)
    BY <2>8 DEF Add, mainVars, catalogVars, sessionVars
  <2> QED
    BY <1>1, <2>1, <2>2, <2>3, <2>4, <2>5, <2>6, <2>7, <2>8 DEF BringUp
<1>2. ASSUME NEW b \in Backends, Run(b) PROVE TypeOK'
  <2>1. CASE BackoffElapses(b)
    BY <2>1 DEF BackoffElapses, mainVars, catalogVars, sessionVars, NextAttempt
  <2>2. CASE Kicked(b)
    BY <2>2 DEF Kicked, mainVars, catalogVars, sessionVars, NextAttempt
  <2>3. CASE WaitCancelled(b)
    BY <2>3 DEF WaitCancelled, mainVars, catalogVars, sessionVars
  <2>4. CASE LostRace(b)
    BY <2>4 DEF LostRace, mainVars, catalogVars, sessionVars, CloseCur
  <2>5. CASE SessionLost(b)
    BY <2>5 DEF SessionLost, mainVars, catalogVars, sessionVars
  <2>6. CASE RedialOK(b)
    BY <2>6 DEF RedialOK, mainVars, catalogVars, sessionVars
  <2>7. CASE RedialFails(b)
    BY <2>7 DEF RedialFails, mainVars, catalogVars, sessionVars
  <2>8. CASE RewaitElapses(b)
    BY <2>8 DEF RewaitElapses, mainVars, catalogVars, sessionVars
  <2>9. CASE CheckClosing(b)
    BY <2>9 DEF CheckClosing, mainVars, catalogVars, sessionVars
  <2>10. CASE Restore(b)
    BY <2>10 DEF Restore, mainVars, catalogVars, sessionVars
  <2> QED
    BY <1>2, <2>1, <2>2, <2>3, <2>4, <2>5, <2>6, <2>7, <2>8, <2>9, <2>10 DEF Run
<1>3. ASSUME NEW b \in Backends, CloseSession(b) \/ SessionDies(b) PROVE TypeOK'
  BY <1>3 DEF CloseSession, SessionDies, CloseCur, mainVars, catalogVars, sessionVars
<1>4. CASE MainStep
  BY <1>4 DEF MainStep, SyncConnected, BgDone, ServeReturns, CloseBegins, WgWaited, SessionsClosed, SvgWaited, mainVars, catalogVars, sessionVars
<1>5. CASE HandleSignal \/ Terminate \/ Signal
  BY <1>5 DEF HandleSignal, Terminate, Signal, mainVars, catalogVars, sessionVars
<1>6. CASE UNCHANGED vars
  BY <1>6 DEF vars, mainVars, catalogVars, sessionVars
<1> QED
  BY <1>1, <1>2, <1>3, <1>4, <1>5, <1>6 DEF Next, Terminated

\* Every variable keeps its type, and pc tells who owns a backend: a connector
\* until it is in m.backends, its run goroutine afterwards.
THEOREM TypeCorrect == Spec => []TypeOK
  BY TypeInit, TypeNext, PTL DEF Spec

----------------------------------------------------------------------------
(* The inductive invariant. *)

\* Nothing is dialled, held or awaited when the process starts.
LEMMA InvInit == Init => IInv
<1> SUFFICES ASSUME Init PROVE IInv
  OBVIOUS
<1>1. TypeOK
  BY TypeInit
<1>2. \A b \in Backends : Held(b) /\ NoBrowserRetry(b)
  BY DEF Init, Held, NotOpened, NoBrowserRetry, BringingUp
<1>3. Waited
  BY DEF Init, Waited
<1> QED
  BY <1>1, <1>2, <1>3 DEF IInv

\* The parts of the invariant that follow the type invariant.
LEMMA InvNext == IInv /\ [Next]_vars => IInv'
<1> SUFFICES ASSUME IInv, [Next]_vars PROVE IInv'
  OBVIOUS
<1>0. TypeOK /\ TypeOK'
  BY TypeNext DEF IInv
<1> DEFINE Rest == /\ \A c \in Backends : Held(c)
                   /\ \A c \in Backends : NoBrowserRetry(c)
                   /\ Waited
<1> SUFFICES Rest'
  BY <1>0 DEF IInv
<1> USE <1>0, SessionAssumption DEF IInv, TypeOK, Steps, UnrecordedSteps, RunSteps, Goto
<1>1. ASSUME NEW b \in Backends, BringUp(b) PROVE Rest'
  <2>1. CASE Start(b)
    <3>1. \A c \in Backends : Held(c)'
      BY <2>1 DEF Start, mainVars, catalogVars, sessionVars, Held, NotOpened, Opened, Lost, Redialed
    <3>2. \A c \in Backends : NoBrowserRetry(c)'
      BY <2>1 DEF Start, mainVars, catalogVars, sessionVars, NoBrowserRetry, BringingUp, Interactive
    <3>3. Waited'
      BY <2>1 DEF Start, mainVars, catalogVars, sessionVars, Waited, Decided
    <3> QED
      BY <3>1, <3>2, <3>3
  <2>2. CASE OpenOK(b)
    <3>1. \A c \in Backends : Held(c)'
      BY <2>2 DEF OpenOK, mainVars, catalogVars, sessionVars, Held, NotOpened, Opened, Lost, Redialed
    <3>2. \A c \in Backends : NoBrowserRetry(c)'
      BY <2>2 DEF OpenOK, mainVars, catalogVars, sessionVars, NoBrowserRetry, BringingUp, Interactive
    <3>3. Waited'
      BY <2>2 DEF OpenOK, mainVars, catalogVars, sessionVars, Waited, Decided
    <3> QED
      BY <3>1, <3>2, <3>3
  <2>3. CASE OpenFails(b)
    <3>1. \A c \in Backends : Held(c)'
      BY <2>3 DEF OpenFails, mainVars, catalogVars, sessionVars, AfterFailure, Held, NotOpened, Opened, Lost, Redialed
    <3>2. \A c \in Backends : NoBrowserRetry(c)'
      BY <2>3 DEF OpenFails, mainVars, catalogVars, sessionVars, AfterFailure, NoBrowserRetry, BringingUp, Interactive
    <3>3. Waited'
      BY <2>3 DEF OpenFails, mainVars, catalogVars, sessionVars, AfterFailure, Waited, Decided
    <3> QED
      BY <3>1, <3>2, <3>3
  <2>4. CASE EagerDone(b)
    <3>1. \A c \in Backends : Held(c)'
      BY <2>4 DEF EagerDone, mainVars, catalogVars, sessionVars, Held, NotOpened, Opened, Lost, Redialed
    <3>2. \A c \in Backends : NoBrowserRetry(c)'
      BY <2>4 DEF EagerDone, mainVars, catalogVars, sessionVars, NoBrowserRetry, BringingUp, Interactive
    <3>3. Waited'
      BY <2>4 DEF EagerDone, mainVars, catalogVars, sessionVars, Waited, Decided
    <3> QED
      BY <3>1, <3>2, <3>3
  <2>5. CASE ListOK(b)
    <3>1. \A c \in Backends : Held(c)'
      BY <2>5 DEF ListOK, mainVars, catalogVars, sessionVars, Held, NotOpened, Opened, Lost, Redialed
    <3>2. \A c \in Backends : NoBrowserRetry(c)'
      BY <2>5 DEF ListOK, mainVars, catalogVars, sessionVars, NoBrowserRetry, BringingUp, Interactive
    <3>3. Waited'
      BY <2>5 DEF ListOK, mainVars, catalogVars, sessionVars, Waited, Decided
    <3> QED
      BY <3>1, <3>2, <3>3
  <2>6. CASE ListFails(b)
    <3>1. \A c \in Backends : Held(c)'
      BY <2>6 DEF ListFails, mainVars, catalogVars, sessionVars, AfterFailure, CloseCur, Held, NotOpened, Opened, Lost, Redialed
    <3>2. \A c \in Backends : NoBrowserRetry(c)'
      BY <2>6 DEF ListFails, mainVars, catalogVars, sessionVars, AfterFailure, CloseCur, NoBrowserRetry, BringingUp, Interactive
    <3>3. Waited'
      BY <2>6 DEF ListFails, mainVars, catalogVars, sessionVars, AfterFailure, CloseCur, Waited, Decided
    <3> QED
      BY <3>1, <3>2, <3>3
  <2>7. CASE Publish(b)
    <3>1. \A c \in Backends : Held(c)'
      BY <2>7 DEF Publish, mainVars, catalogVars, sessionVars, Held, NotOpened, Opened, Lost, Redialed
    <3>2. \A c \in Backends : NoBrowserRetry(c)'
      BY <2>7 DEF Publish, mainVars, catalogVars, sessionVars, NoBrowserRetry, BringingUp, Interactive, Held
    <3>3. Waited'
      BY <2>7 DEF Publish, mainVars, catalogVars, sessionVars, Waited, Decided
    <3> QED
      BY <3>1, <3>2, <3>3
  <2>8. CASE Add(b)
    <3>1. \A c \in Backends : Held(c)'
      BY <2>8 DEF Add, mainVars, catalogVars, sessionVars, Held, NotOpened, Opened, Lost, Redialed
    <3>2. \A c \in Backends : NoBrowserRetry(c)'
      BY <2>8 DEF Add, mainVars, catalogVars, sessionVars, NoBrowserRetry, BringingUp, Interactive, Held
    <3>3. Waited'
      BY <2>8 DEF Add, mainVars, catalogVars, sessionVars, Waited, Decided
    <3> QED
      BY <3>1, <3>2, <3>3
  <2> QED
    BY <1>1, <2>1, <2>2, <2>3, <2>4, <2>5, <2>6, <2>7, <2>8 DEF BringUp
<1>2. ASSUME NEW b \in Backends, Run(b) PROVE Rest'
  <2>1. CASE BackoffElapses(b)
    <3>1. \A c \in Backends : Held(c)'
      BY <2>1 DEF BackoffElapses, mainVars, catalogVars, sessionVars, NextAttempt, Held, NotOpened, Opened, Lost, Redialed
    <3>2. \A c \in Backends : NoBrowserRetry(c)'
      BY <2>1 DEF BackoffElapses, mainVars, catalogVars, sessionVars, NextAttempt, NoBrowserRetry, BringingUp, Interactive
    <3>3. Waited'
      BY <2>1 DEF BackoffElapses, mainVars, catalogVars, sessionVars, NextAttempt, Waited, Decided
    <3> QED
      BY <3>1, <3>2, <3>3
  <2>2. CASE Kicked(b)
    <3>1. \A c \in Backends : Held(c)'
      BY <2>2 DEF Kicked, mainVars, catalogVars, sessionVars, NextAttempt, Held, NotOpened, Opened, Lost, Redialed
    <3>2. \A c \in Backends : NoBrowserRetry(c)'
      BY <2>2 DEF Kicked, mainVars, catalogVars, sessionVars, NextAttempt, NoBrowserRetry, BringingUp, Interactive
    <3>3. Waited'
      BY <2>2 DEF Kicked, mainVars, catalogVars, sessionVars, NextAttempt, Waited, Decided
    <3> QED
      BY <3>1, <3>2, <3>3
  <2>3. CASE WaitCancelled(b)
    <3>1. \A c \in Backends : Held(c)'
      BY <2>3 DEF WaitCancelled, mainVars, catalogVars, sessionVars, Held, NotOpened, Opened, Lost, Redialed
    <3>2. \A c \in Backends : NoBrowserRetry(c)'
      BY <2>3 DEF WaitCancelled, mainVars, catalogVars, sessionVars, NoBrowserRetry, BringingUp, Interactive
    <3>3. Waited'
      BY <2>3 DEF WaitCancelled, mainVars, catalogVars, sessionVars, Waited, Decided
    <3> QED
      BY <3>1, <3>2, <3>3
  <2>4. CASE LostRace(b)
    <3>1. \A c \in Backends : Held(c)'
      BY <2>4 DEF LostRace, mainVars, catalogVars, sessionVars, CloseCur, Held, NotOpened, Opened, Lost, Redialed
    <3>2. \A c \in Backends : NoBrowserRetry(c)'
      BY <2>4 DEF LostRace, mainVars, catalogVars, sessionVars, CloseCur, NoBrowserRetry, BringingUp, Interactive
    <3>3. Waited'
      BY <2>4 DEF LostRace, mainVars, catalogVars, sessionVars, CloseCur, Waited, Decided
    <3> QED
      BY <3>1, <3>2, <3>3
  <2>5. CASE SessionLost(b)
    <3>1. \A c \in Backends : Held(c)'
      BY <2>5 DEF SessionLost, mainVars, catalogVars, sessionVars, Held, NotOpened, Opened, Lost, Redialed
    <3>2. \A c \in Backends : NoBrowserRetry(c)'
      BY <2>5 DEF SessionLost, mainVars, catalogVars, sessionVars, NoBrowserRetry, BringingUp, Interactive
    <3>3. Waited'
      BY <2>5 DEF SessionLost, mainVars, catalogVars, sessionVars, Waited, Decided
    <3> QED
      BY <3>1, <3>2, <3>3
  <2>6. CASE RedialOK(b)
    <3>1. \A c \in Backends : Held(c)'
      BY <2>6 DEF RedialOK, mainVars, catalogVars, sessionVars, Held, NotOpened, Opened, Lost, Redialed
    <3>2. \A c \in Backends : NoBrowserRetry(c)'
      BY <2>6 DEF RedialOK, mainVars, catalogVars, sessionVars, NoBrowserRetry, BringingUp, Interactive
    <3>3. Waited'
      BY <2>6 DEF RedialOK, mainVars, catalogVars, sessionVars, Waited, Decided
    <3> QED
      BY <3>1, <3>2, <3>3
  <2>7. CASE RedialFails(b)
    <3>1. \A c \in Backends : Held(c)'
      BY <2>7 DEF RedialFails, mainVars, catalogVars, sessionVars, Held, NotOpened, Opened, Lost, Redialed
    <3>2. \A c \in Backends : NoBrowserRetry(c)'
      BY <2>7 DEF RedialFails, mainVars, catalogVars, sessionVars, NoBrowserRetry, BringingUp, Interactive
    <3>3. Waited'
      BY <2>7 DEF RedialFails, mainVars, catalogVars, sessionVars, Waited, Decided
    <3> QED
      BY <3>1, <3>2, <3>3
  <2>8. CASE RewaitElapses(b)
    <3>1. \A c \in Backends : Held(c)'
      BY <2>8 DEF RewaitElapses, mainVars, catalogVars, sessionVars, Held, NotOpened, Opened, Lost, Redialed
    <3>2. \A c \in Backends : NoBrowserRetry(c)'
      BY <2>8 DEF RewaitElapses, mainVars, catalogVars, sessionVars, NoBrowserRetry, BringingUp, Interactive, Held
    <3>3. Waited'
      BY <2>8 DEF RewaitElapses, mainVars, catalogVars, sessionVars, Waited, Decided
    <3> QED
      BY <3>1, <3>2, <3>3
  <2>9. CASE CheckClosing(b)
    <3>1. \A c \in Backends : Held(c)'
      BY <2>9 DEF CheckClosing, mainVars, catalogVars, sessionVars, Held, NotOpened, Opened, Lost, Redialed
    <3>2. \A c \in Backends : NoBrowserRetry(c)'
      BY <2>9 DEF CheckClosing, mainVars, catalogVars, sessionVars, NoBrowserRetry, BringingUp, Interactive
    <3>3. Waited'
      BY <2>9 DEF CheckClosing, mainVars, catalogVars, sessionVars, Waited, Decided
    <3> QED
      BY <3>1, <3>2, <3>3
  <2>10. CASE Restore(b)
    <3>1. \A c \in Backends : Held(c)'
      BY <2>10 DEF Restore, mainVars, catalogVars, sessionVars, Held, NotOpened, Opened, Lost, Redialed
    <3>2. \A c \in Backends : NoBrowserRetry(c)'
      BY <2>10 DEF Restore, mainVars, catalogVars, sessionVars, NoBrowserRetry, BringingUp, Interactive
    <3>3. Waited'
      BY <2>10 DEF Restore, mainVars, catalogVars, sessionVars, Waited, Decided
    <3> QED
      BY <3>1, <3>2, <3>3
  <2> QED
    BY <1>2, <2>1, <2>2, <2>3, <2>4, <2>5, <2>6, <2>7, <2>8, <2>9, <2>10 DEF Run
<1>3. ASSUME NEW b \in Backends, CloseSession(b) \/ SessionDies(b) PROVE Rest'
  <2>1. CASE CloseSession(b)
    <3>1. \A c \in Backends : Held(c)'
      BY <2>1 DEF CloseSession, mainVars, catalogVars, sessionVars, CloseCur, Held, NotOpened, Opened, Lost, Redialed
    <3>2. \A c \in Backends : NoBrowserRetry(c)'
      BY <2>1 DEF CloseSession, mainVars, catalogVars, sessionVars, CloseCur, NoBrowserRetry, BringingUp, Interactive
    <3>3. Waited'
      BY <2>1 DEF CloseSession, mainVars, catalogVars, sessionVars, CloseCur, Waited, Decided
    <3> QED
      BY <3>1, <3>2, <3>3
  <2>2. CASE SessionDies(b)
    <3>1. \A c \in Backends : Held(c)'
      BY <2>2 DEF SessionDies, mainVars, catalogVars, sessionVars, Held, NotOpened, Opened, Lost, Redialed
    <3>2. \A c \in Backends : NoBrowserRetry(c)'
      BY <2>2 DEF SessionDies, mainVars, catalogVars, sessionVars, NoBrowserRetry, BringingUp, Interactive
    <3>3. Waited'
      BY <2>2 DEF SessionDies, mainVars, catalogVars, sessionVars, Waited, Decided
    <3> QED
      BY <3>1, <3>2, <3>3
  <2> QED
    BY <1>3, <2>1, <2>2
<1>4. CASE MainStep
  <2>1. CASE SyncConnected
    <3>1. \A c \in Backends : Held(c)'
      BY <2>1 DEF SyncConnected, mainVars, catalogVars, sessionVars, Sync, Held, NotOpened, Opened, Lost, Redialed
    <3>2. \A c \in Backends : NoBrowserRetry(c)'
      BY <2>1 DEF SyncConnected, mainVars, catalogVars, sessionVars, Sync, NoBrowserRetry, BringingUp, Interactive
    <3>3. Waited'
      BY <2>1 DEF SyncConnected, mainVars, catalogVars, sessionVars, Sync, Waited, Decided
    <3> QED
      BY <3>1, <3>2, <3>3
  <2>2. CASE BgDone
    <3>1. \A c \in Backends : Held(c)'
      BY <2>2 DEF BgDone, mainVars, catalogVars, sessionVars, Held, NotOpened, Opened, Lost, Redialed
    <3>2. \A c \in Backends : NoBrowserRetry(c)'
      BY <2>2 DEF BgDone, mainVars, catalogVars, sessionVars, NoBrowserRetry, BringingUp, Interactive
    <3>3. Waited'
      BY <2>2 DEF BgDone, mainVars, catalogVars, sessionVars, Waited, Decided
    <3> QED
      BY <3>1, <3>2, <3>3
  <2>3. CASE ServeReturns
    <3>1. \A c \in Backends : Held(c)'
      BY <2>3 DEF ServeReturns, mainVars, catalogVars, sessionVars, Held, NotOpened, Opened, Lost, Redialed
    <3>2. \A c \in Backends : NoBrowserRetry(c)'
      BY <2>3 DEF ServeReturns, mainVars, catalogVars, sessionVars, NoBrowserRetry, BringingUp, Interactive
    <3>3. Waited'
      BY <2>3 DEF ServeReturns, mainVars, catalogVars, sessionVars, Waited, Decided
    <3> QED
      BY <3>1, <3>2, <3>3
  <2>4. CASE CloseBegins
    <3>1. \A c \in Backends : Held(c)'
      BY <2>4 DEF CloseBegins, mainVars, catalogVars, sessionVars, Held, NotOpened, Opened, Lost, Redialed
    <3>2. \A c \in Backends : NoBrowserRetry(c)'
      BY <2>4 DEF CloseBegins, mainVars, catalogVars, sessionVars, NoBrowserRetry, BringingUp, Interactive
    <3>3. Waited'
      BY <2>4 DEF CloseBegins, mainVars, catalogVars, sessionVars, Waited, Decided
    <3> QED
      BY <3>1, <3>2, <3>3
  <2>5. CASE WgWaited
    <3>1. \A c \in Backends : Held(c)'
      BY <2>5 DEF WgWaited, mainVars, catalogVars, sessionVars, Held, NotOpened, Opened, Lost, Redialed
    <3>2. \A c \in Backends : NoBrowserRetry(c)'
      BY <2>5 DEF WgWaited, mainVars, catalogVars, sessionVars, NoBrowserRetry, BringingUp, Interactive
    <3>3. Waited'
      BY <2>5 DEF WgWaited, mainVars, catalogVars, sessionVars, Waited, Decided
    <3> QED
      BY <3>1, <3>2, <3>3
  <2>6. CASE SessionsClosed
    <3>1. \A c \in Backends : Held(c)'
      BY <2>6 DEF SessionsClosed, mainVars, catalogVars, sessionVars, Held, NotOpened, Opened, Lost, Redialed
    <3>2. \A c \in Backends : NoBrowserRetry(c)'
      BY <2>6 DEF SessionsClosed, mainVars, catalogVars, sessionVars, NoBrowserRetry, BringingUp, Interactive
    <3>3. Waited'
      BY <2>6 DEF SessionsClosed, mainVars, catalogVars, sessionVars, Waited, Decided
    <3> QED
      BY <3>1, <3>2, <3>3
  <2>7. CASE SvgWaited
    <3>1. \A c \in Backends : Held(c)'
      BY <2>7 DEF SvgWaited, mainVars, catalogVars, sessionVars, Held, NotOpened, Opened, Lost, Redialed
    <3>2. \A c \in Backends : NoBrowserRetry(c)'
      BY <2>7 DEF SvgWaited, mainVars, catalogVars, sessionVars, NoBrowserRetry, BringingUp, Interactive
    <3>3. Waited'
      BY <2>7 DEF SvgWaited, mainVars, catalogVars, sessionVars, Waited, Decided
    <3> QED
      BY <3>1, <3>2, <3>3
  <2> QED
    BY <1>4, <2>1, <2>2, <2>3, <2>4, <2>5, <2>6, <2>7 DEF MainStep
<1>5. CASE HandleSignal \/ Terminate \/ Signal
  <2>1. CASE HandleSignal
    <3>1. \A c \in Backends : Held(c)'
      BY <2>1 DEF HandleSignal, mainVars, catalogVars, sessionVars, Held, NotOpened, Opened, Lost, Redialed
    <3>2. \A c \in Backends : NoBrowserRetry(c)'
      BY <2>1 DEF HandleSignal, mainVars, catalogVars, sessionVars, NoBrowserRetry, BringingUp, Interactive
    <3>3. Waited'
      BY <2>1 DEF HandleSignal, mainVars, catalogVars, sessionVars, Waited, Decided
    <3> QED
      BY <3>1, <3>2, <3>3
  <2>2. CASE Terminate
    <3>1. \A c \in Backends : Held(c)'
      BY <2>2 DEF Terminate, mainVars, catalogVars, sessionVars, Held, NotOpened, Opened, Lost, Redialed
    <3>2. \A c \in Backends : NoBrowserRetry(c)'
      BY <2>2 DEF Terminate, mainVars, catalogVars, sessionVars, NoBrowserRetry, BringingUp, Interactive
    <3>3. Waited'
      BY <2>2 DEF Terminate, mainVars, catalogVars, sessionVars, Waited, Decided
    <3> QED
      BY <3>1, <3>2, <3>3
  <2>3. CASE Signal
    <3>1. \A c \in Backends : Held(c)'
      BY <2>3 DEF Signal, mainVars, catalogVars, sessionVars, Held, NotOpened, Opened, Lost, Redialed
    <3>2. \A c \in Backends : NoBrowserRetry(c)'
      BY <2>3 DEF Signal, mainVars, catalogVars, sessionVars, NoBrowserRetry, BringingUp, Interactive
    <3>3. Waited'
      BY <2>3 DEF Signal, mainVars, catalogVars, sessionVars, Waited, Decided
    <3> QED
      BY <3>1, <3>2, <3>3
  <2> QED
    BY <1>5, <2>1, <2>2, <2>3
<1>6. CASE UNCHANGED vars
  BY <1>6 DEF vars, mainVars, catalogVars, sessionVars, Held, NotOpened, Opened, Lost, Redialed, NoBrowserRetry, BringingUp, Interactive, Waited, Decided
<1> QED
  BY <1>1, <1>2, <1>3, <1>4, <1>5, <1>6 DEF Next, Terminated

\* The inductive invariant: who may hold a session in which state, and what Close
\* has waited for in which state of main.
THEOREM Invariance == Spec => []IInv
  BY InvInit, InvNext, PTL DEF Spec

----------------------------------------------------------------------------
(* The safety properties the runs check. *)

\* A tool on the proxy server never forwards to a nil session.
THEOREM NoNilSessionHolds == Spec => []NoNilSession
<1>1. IInv => NoNilSession
  BY SessionAssumption DEF IInv, TypeOK, Steps, UnrecordedSteps, RunSteps, NoNilSession,
     Exposed, Held, Opened, Lost, Redialed, NotOpened
<1> QED
  BY <1>1, Invariance, PTL

\* No failure, retry, reconnect or shutdown leaves a session behind that neither
\* the backend nor reconnect holds.
THEOREM NoOrphanSessionHolds == Spec => []NoOrphanSession
<1>1. IInv => NoOrphanSession
  BY DEF IInv, TypeOK, Steps, UnrecordedSteps, RunSteps, NoOrphanSession,
     Held, Opened, Lost, Redialed, NotOpened
<1> QED
  BY <1>1, Invariance, PTL

\* Once the process has closed, its backends are at rest.
LEMMA AtRest ==
    ASSUME IInv, main = "closed", NEW b \in Backends
    PROVE  alive[b] = {} /\ pc[b] \in {"exited", "skipped"}
<1>1. pc[b] \in {"exited", "skipped"}
  BY DEF IInv, Waited, Decided
<1>2. Held(b)
  BY DEF IInv
<1> QED
  BY <1>1, <1>2 DEF Held, Lost, NotOpened

\* When Close has returned every session is closed and every goroutine that
\* could open one has ended.
THEOREM CleanExitHolds == Spec => []CleanExit
<1>1. IInv => CleanExit
  BY AtRest DEF CleanExit
<1> QED
  BY <1>1, Invariance, PTL

\* No retry loop brings up a backend that may open a browser or that has its
\* tools published already.
THEOREM RetryOnlyPendingHolds == Spec => []RetryOnlyPending
<1>1. IInv => RetryOnlyPending
  BY DEF IInv, TypeOK, RetryOnlyPending, Held, NoBrowserRetry, BringingUp
<1> QED
  BY <1>1, Invariance, PTL

\* Once Close has begun each step of an owner brings it nearer to its end, for any
\* number of backends and whatever fails: with SubprocessesDoomed the part of
\* CloseReturnsOrHeldUp that needs no fairness.
THEOREM ShutdownDescendsHolds == Spec => ShutdownDescends
<1> DEFINE Descends == \A b \in Backends :
                         closing /\ pc'[b] # pc[b] => StepsLeft(pc'[b]) < StepsLeft(pc[b])
<1>1. ASSUME TypeOK, Next PROVE Descends
  <2> USE <1>1 DEF TypeOK, Goto, StepsLeft
  <2>1. ASSUME NEW b \in Backends, BringUp(b) PROVE Descends
    <3>1. CASE Start(b) \/ OpenOK(b) \/ EagerDone(b) \/ ListOK(b)
      BY <3>1 DEF Start, OpenOK, EagerDone, ListOK
    <3>2. CASE OpenFails(b) \/ ListFails(b)
      BY <3>2 DEF OpenFails, ListFails, AfterFailure
    <3>3. CASE Publish(b) \/ Add(b)
      BY <3>3 DEF Publish, Add
    <3> QED
      BY <2>1, <3>1, <3>2, <3>3 DEF BringUp
  <2>2. ASSUME NEW b \in Backends, Run(b) PROVE Descends
    <3>1. CASE BackoffElapses(b) \/ Kicked(b) \/ WaitCancelled(b)
      BY <3>1 DEF BackoffElapses, Kicked, WaitCancelled, NextAttempt, RunCtxDone
    <3>2. CASE LostRace(b) \/ SessionLost(b)
      BY <3>2 DEF LostRace, SessionLost, RunCtxDone
    <3>3. CASE RedialOK(b) \/ RedialFails(b) \/ RewaitElapses(b)
      BY <3>3 DEF RedialOK, RedialFails, RewaitElapses, RunCtxDone
    <3>4. CASE CheckClosing(b) \/ Restore(b)
      BY <3>4 DEF CheckClosing, Restore
    <3> QED
      BY <2>2, <3>1, <3>2, <3>3, <3>4 DEF Run
  <2>3. ASSUME UNCHANGED pc PROVE Descends
    BY <2>3
  <2> QED
    BY <2>1, <2>2, <2>3 DEF Next, CloseSession, SessionDies, MainStep, SyncConnected, BgDone,
       ServeReturns, CloseBegins, WgWaited, SessionsClosed, SvgWaited, HandleSignal, Terminate,
       Signal, Terminated, vars
<1>2. TypeOK /\ [Next]_vars => [Descends]_vars
  BY <1>1
<1> QED
  BY <1>2, TypeCorrect, PTL DEF Spec, ShutdownDescends

\* Once Close has begun no attempt starts, but for the connector's own first ones:
\* nothing but "config" ranks above an attempt.
THEOREM NoDialAfterCloseHolds == Spec => NoDialAfterClose
<1>1. TypeOK
      => \A b \in Backends :
           (closing /\ pc'[b] # pc[b] => StepsLeft(pc'[b]) < StepsLeft(pc[b]))
           => (closing /\ pc'[b] \in {"open", "redial"} => pc[b] = pc'[b] \/ pc[b] = "config")
  BY DEF TypeOK, StepsLeft
<1>2. TypeOK /\ [\A b \in Backends : closing /\ pc'[b] # pc[b]
                   => StepsLeft(pc'[b]) < StepsLeft(pc[b])]_vars
      => [\A b \in Backends : closing /\ pc'[b] \in {"open", "redial"}
                   => pc[b] = pc'[b] \/ pc[b] = "config"]_vars
  BY <1>1
<1> QED
  BY <1>2, TypeCorrect, ShutdownDescendsHolds, PTL DEF ShutdownDescends, NoDialAfterClose

----------------------------------------------------------------------------
(* What is open when Close comes to its last wait.                         *)

\* The sessions a run goroutine opens are dialled under its own context, and no
\* other session is open at a backend that Close's loop has been to.
Late ==
    /\ main \in {"wgwait", "sessions", "svgwait"} => closing
    /\ main = "svgwait" => toClose = {}
    /\ \A b \in Backends :
         /\ b \in backends /\ pc[b] \in {"eager", "list", "publish", "lostrace"} => parent[b] = "run"
         /\ pc[b] \in {"redialed", "store"} => parent[b] = "run"
         /\ main \in {"sessions", "svgwait"} /\ b \notin toClose /\ alive[b] # {} => parent[b] = "run"

LEMMA LateInit == Init => Late
BY DEF Init, Late

LEMMA LateNext == IInv /\ Late /\ [Next]_vars => Late'
<1> SUFFICES ASSUME IInv, Late, [Next]_vars PROVE Late'
  OBVIOUS
<1> USE DEF Late, IInv, TypeOK, Goto
<1>1. ASSUME NEW b \in Backends, BringUp(b) PROVE Late'
  <2>1. CASE Start(b)
    BY <2>1 DEF Start, mainVars, catalogVars, sessionVars
  <2>2. CASE OpenOK(b)
    \* While Close walks the backends no connector opens a session any more.
    <3>1. main \in {"sessions", "svgwait"} => b \in backends
      BY <2>2 DEF OpenOK, Waited, Decided
    <3> QED
      BY <2>2, <3>1 DEF OpenOK, mainVars, catalogVars
  <2>3. CASE OpenFails(b)
    BY <2>3 DEF OpenFails, AfterFailure, mainVars, catalogVars, sessionVars
  <2>4. CASE EagerDone(b)
    BY <2>4 DEF EagerDone, mainVars, catalogVars, sessionVars
  <2>5. CASE ListOK(b)
    BY <2>5 DEF ListOK, mainVars, catalogVars, sessionVars
  <2>6. CASE ListFails(b)
    BY <2>6 DEF ListFails, CloseCur, AfterFailure, mainVars, catalogVars
  <2>7. CASE Publish(b)
    BY <2>7 DEF Publish, mainVars, sessionVars
  <2>8. CASE Add(b)
    BY <2>8 DEF Add, mainVars, sessionVars
  <2> QED
    BY <1>1, <2>1, <2>2, <2>3, <2>4, <2>5, <2>6, <2>7, <2>8 DEF BringUp
<1>2. ASSUME NEW b \in Backends, Run(b) PROVE Late'
  <2>1. CASE BackoffElapses(b) \/ Kicked(b) \/ WaitCancelled(b)
    BY <2>1 DEF BackoffElapses, Kicked, WaitCancelled, NextAttempt, mainVars, catalogVars, sessionVars
  <2>2. CASE LostRace(b)
    BY <2>2 DEF LostRace, CloseCur, mainVars, catalogVars
  <2>3. CASE SessionLost(b) \/ RedialFails(b) \/ RewaitElapses(b)
    BY <2>3 DEF SessionLost, RedialFails, RewaitElapses, mainVars, catalogVars, sessionVars
  <2>4. CASE RedialOK(b)
    BY <2>4 DEF RedialOK, mainVars, catalogVars
  <2>5. CASE CheckClosing(b)
    BY <2>5 DEF CheckClosing, mainVars, catalogVars
  <2>6. CASE Restore(b)
    BY <2>6 DEF Restore, mainVars, catalogVars
  <2> QED
    BY <1>2, <2>1, <2>2, <2>3, <2>4, <2>5, <2>6 DEF Run
<1>3. ASSUME NEW b \in Backends, CloseSession(b) PROVE Late'
  \* All that is left open at b is what reconnect has just dialled.
  <2>1. alive'[b] # {} => parent[b] = "run"
    BY <1>3 DEF CloseSession, CloseCur, Held, NotOpened, Opened, Lost, Redialed, Steps,
       UnrecordedSteps, RunSteps
  <2> QED
    BY <1>3, <2>1 DEF CloseSession, CloseCur, catalogVars
<1>4. ASSUME NEW b \in Backends, SessionDies(b) PROVE Late'
  BY <1>4 DEF SessionDies, mainVars, catalogVars
<1>5. CASE WgWaited
  \* Whatever is not in m.backends by now has been skipped.
  <2>1. \A b \in Backends : b \notin backends => alive[b] = {}
    BY <1>5 DEF WgWaited, Waited, Decided, Held, NotOpened
  <2> QED
    BY <1>5, <2>1 DEF WgWaited, catalogVars, sessionVars
<1>6. CASE MainStep /\ ~WgWaited
  BY <1>6 DEF MainStep, SyncConnected, BgDone, ServeReturns, CloseBegins, SessionsClosed, SvgWaited,
     catalogVars, sessionVars
<1>7. CASE HandleSignal \/ Terminate \/ Signal
  BY <1>7 DEF HandleSignal, Terminate, Signal, mainVars, catalogVars, sessionVars
<1>8. CASE UNCHANGED vars
  BY <1>8 DEF vars, mainVars, catalogVars, sessionVars
<1> QED
  BY <1>1, <1>2, <1>3, <1>4, <1>5, <1>6, <1>7, <1>8 DEF Next, Terminated

\* No subprocess that is still running holds Close's last wait up, for any
\* backends: the cancellation of its context is killing it.
THEOREM SubprocessesDoomedHolds == Spec => []SubprocessesDoomed
<1>1. Late => SubprocessesDoomed
  BY DEF Late, SubprocessesDoomed, Doomed
<1>2. Spec => []Late
  BY LateInit, LateNext, Invariance, PTL DEF Spec
<1> QED
  BY <1>1, <1>2, PTL

----------------------------------------------------------------------------
(* Mux implements BackendLife: every step changes what the user sees of one *)
(* backend as BackendLife allows, ends the process, or changes nothing.     *)

\* What one step may do to the view of b.
ViewStep(b) ==
    \/ View(b)' = View(b)
    \/ View(b) \in {"new", "pending"} /\ View(b)' \in {"up", "down"}
    \/ View(b) = "new" /\ mode.retry /\ ~Interactive(b) /\ View(b)' = "pending"
    \/ View(b) = "new" /\ (~mode.retry \/ Interactive(b)) /\ View(b)' = "skipped"
    \/ View(b) = "up" /\ View(b)' = "down"
    \/ View(b) = "down" /\ View(b)' = "up"

\* When one backend moves by a step of BackendLife and the others do not, the
\* whole takes a step of BackendLife.
LEMMA OneViewSteps ==
    ASSUME NEW b \in Backends, ViewStep(b), main # "closed", main' # "closed", mode' = mode,
           \A c \in Backends : c # b => View(c)' = View(c)
    PROVE  [Life!Next]_(Life!vars)
<1> DEFINE state == [c \in Backends |-> View(c)]
<1>1. state' = [state EXCEPT ![b] = View(b)']
  OBVIOUS
<1>2. state[b] = View(b)
  OBVIOUS
<1>3. CASE View(b)' = View(b)
  <2>1. state' = state
    BY <1>3
  <2> QED
    BY <2>1 DEF Life!vars
<1>4. CASE View(b)' # View(b)
  <2> HIDE DEF state
  <2> QED
    BY <1>1, <1>2, <1>4 DEF ViewStep, Life!Next, Life!PublishTools, Life!KeepTrying, Life!GiveUp,
       Life!Lose, Life!Recover, Life!Become, state
<1> QED
  BY <1>3, <1>4

\* A step of the owner of b, or of b's session, is a step of b's view.
LEMMA OwnerView ==
    ASSUME IInv, IInv', main # "closed", NEW b \in Backends,
           BringUp(b) \/ Run(b) \/ CloseSession(b) \/ SessionDies(b)
    PROVE  /\ ViewStep(b)
           /\ \A c \in Backends : c # b => View(c)' = View(c)
           /\ main' # "closed" /\ mode' = mode
<1> DEFINE Goal == /\ ViewStep(b)
                   /\ \A c \in Backends : c # b => View(c)' = View(c)
                   /\ main' # "closed" /\ mode' = mode
<1>0. Held(b) /\ Held(b)' /\ NoBrowserRetry(b) /\ TypeOK /\ TypeOK'
  BY DEF IInv
<1> USE <1>0, SessionAssumption DEF TypeOK, Steps, UnrecordedSteps, RunSteps, Goto, View, ViewStep
<1>1. CASE Start(b)
  BY <1>1 DEF Start, mainVars, catalogVars, sessionVars, Held, NotOpened, Opened, Lost, Redialed
<1>2. CASE OpenOK(b)
  BY <1>2 DEF OpenOK, mainVars, catalogVars, sessionVars, Held, NotOpened, Opened, Lost, Redialed
<1>3. CASE OpenFails(b)
  BY <1>3 DEF OpenFails, mainVars, catalogVars, sessionVars, AfterFailure, Held, NotOpened, Opened, Lost, Redialed
<1>4. CASE EagerDone(b)
  BY <1>4 DEF EagerDone, mainVars, catalogVars, sessionVars, Held, NotOpened, Opened, Lost, Redialed
<1>5. CASE ListOK(b)
  BY <1>5 DEF ListOK, mainVars, catalogVars, sessionVars, Held, NotOpened, Opened, Lost, Redialed
<1>6. CASE ListFails(b)
  BY <1>6 DEF ListFails, mainVars, catalogVars, sessionVars, AfterFailure, CloseCur, Held, NotOpened, Opened, Lost, Redialed
<1>7. CASE Publish(b)
  BY <1>7 DEF Publish, mainVars, catalogVars, sessionVars, Held, NotOpened, Opened, Lost, Redialed
<1>8. CASE Add(b)
  BY <1>8 DEF Add, mainVars, catalogVars, sessionVars, Held, NotOpened, Opened, Lost, Redialed, NoBrowserRetry
<1>9. CASE BackoffElapses(b)
  BY <1>9 DEF BackoffElapses, mainVars, catalogVars, sessionVars, NextAttempt, Held, NotOpened, Opened, Lost, Redialed
<1>10. CASE Kicked(b)
  BY <1>10 DEF Kicked, mainVars, catalogVars, sessionVars, NextAttempt, Held, NotOpened, Opened, Lost, Redialed
<1>11. CASE WaitCancelled(b)
  BY <1>11 DEF WaitCancelled, mainVars, catalogVars, sessionVars, Held, NotOpened, Opened, Lost, Redialed
<1>12. CASE LostRace(b)
  BY <1>12 DEF LostRace, mainVars, catalogVars, sessionVars, CloseCur, Held, NotOpened, Opened, Lost, Redialed
<1>13. CASE SessionLost(b)
  BY <1>13 DEF SessionLost, mainVars, catalogVars, sessionVars, Held, NotOpened, Opened, Lost, Redialed
<1>14. CASE RedialOK(b)
  BY <1>14 DEF RedialOK, mainVars, catalogVars, sessionVars, Held, NotOpened, Opened, Lost, Redialed
<1>15. CASE RedialFails(b)
  BY <1>15 DEF RedialFails, mainVars, catalogVars, sessionVars, Held, NotOpened, Opened, Lost, Redialed
<1>16. CASE RewaitElapses(b)
  BY <1>16 DEF RewaitElapses, mainVars, catalogVars, sessionVars, Held, NotOpened, Opened, Lost, Redialed
<1>17. CASE CheckClosing(b)
  BY <1>17 DEF CheckClosing, mainVars, catalogVars, sessionVars, Held, NotOpened, Opened, Lost, Redialed
<1>18. CASE Restore(b)
  BY <1>18 DEF Restore, mainVars, catalogVars, sessionVars, Held, NotOpened, Opened, Lost, Redialed
<1>19. CASE CloseSession(b)
  BY <1>19 DEF CloseSession, mainVars, catalogVars, sessionVars, CloseCur, Held, NotOpened, Opened, Lost, Redialed
<1>20. CASE SessionDies(b)
  BY <1>20 DEF SessionDies, mainVars, catalogVars, sessionVars, Held, NotOpened, Opened, Lost, Redialed
<1> QED
  BY <1>1, <1>2, <1>3, <1>4, <1>5, <1>6, <1>7, <1>8, <1>9, <1>10, <1>11, <1>12, <1>13, <1>14, <1>15, <1>16, <1>17, <1>18, <1>19, <1>20 DEF BringUp, Run

\* AtRest, for the state a step leads to.
LEMMA AtRestNext ==
    ASSUME IInv', main' = "closed", NEW b \in Backends
    PROVE  alive'[b] = {}
<1>1. pc'[b] \in {"exited", "skipped"}
  BY DEF IInv, Waited, Decided
<1>2. Held(b)'
  BY DEF IInv
<1> QED
  BY <1>1, <1>2 DEF Held, Lost, NotOpened

\* A step of main, of Close or of a signal leaves the view of every backend, or
\* ends them all.
LEMMA MainView ==
    ASSUME IInv, IInv', main # "closed", MainStep \/ HandleSignal \/ Terminate \/ Signal
    PROVE  [Life!Next]_(Life!vars)
<1>1. \A b \in Backends : View(b)' = View(b)
  BY DEF MainStep, SyncConnected, BgDone, ServeReturns, CloseBegins, WgWaited, SessionsClosed,
     SvgWaited, HandleSignal, Terminate, Signal, View, catalogVars, sessionVars
<1>2. mode' = mode
  BY DEF MainStep, SyncConnected, BgDone, ServeReturns, CloseBegins, WgWaited, SessionsClosed,
     SvgWaited, HandleSignal, Terminate, Signal
<1> DEFINE state == [b \in Backends |-> View(b)]
<1>3. state' = state
  BY <1>1
<1>4. CASE main' = "closed"
  <2>1. \A b \in Backends : View(b) # "up"
    <3> SUFFICES ASSUME NEW b \in Backends PROVE View(b)' # "up"
      BY <1>1
    <3>1. alive'[b] = {}
      BY <1>4, AtRestNext
    <3> QED
      BY <3>1 DEF View
  <2>2. \A b \in Backends : state[b] # "up"
    BY <2>1
  <2> HIDE DEF state
  <2>3. Life!Finish
    BY <1>2, <1>3, <1>4, <2>2 DEF Life!Finish, state
  <2> QED
    BY <2>3 DEF Life!Next
<1>5. CASE main' # "closed"
  BY <1>2, <1>3, <1>5 DEF Life!vars
<1> QED
  BY <1>4, <1>5

\* Nothing moves in a process that has closed.
LEMMA ClosedView ==
    ASSUME IInv, main = "closed", Next
    PROVE  UNCHANGED vars
<1>1. \A b \in Backends : alive[b] = {} /\ pc[b] \in {"exited", "skipped"}
  BY AtRest
<1>2. \A b \in Backends : ~BringUp(b) /\ ~Run(b)
  BY <1>1 DEF BringUp, Start, OpenOK, OpenFails, EagerDone, ListOK, ListFails, Publish, Add,
     Run, BackoffElapses, Kicked, WaitCancelled, LostRace, SessionLost, RedialOK, RedialFails,
     RewaitElapses, CheckClosing, Restore
<1>3. \A b \in Backends : ~CloseSession(b) /\ ~SessionDies(b)
  BY <1>1 DEF CloseSession, SessionDies
<1>4. ~MainStep
  BY DEF IInv, Waited, MainStep, SyncConnected, BgDone, ServeReturns, CloseBegins, WgWaited,
     SessionsClosed, SvgWaited
<1>5. ~HandleSignal /\ ~Terminate /\ ~Signal
  BY DEF HandleSignal, Terminate, Signal, Running
<1> QED
  BY <1>2, <1>3, <1>4, <1>5 DEF Next, Terminated

\* Every step of Mux is a step of BackendLife or leaves its variables alone.
LEMMA NextView ==
    ASSUME IInv, IInv', [Next]_vars
    PROVE  [Life!Next]_(Life!vars)
<1>1. CASE UNCHANGED vars
  BY <1>1 DEF vars, mainVars, catalogVars, sessionVars, Life!vars, View
<1>2. CASE Next /\ main = "closed"
  BY <1>1, <1>2, ClosedView
<1>3. CASE Next /\ main # "closed"
  <2>1. ASSUME NEW b \in Backends, BringUp(b) \/ Run(b) \/ CloseSession(b) \/ SessionDies(b)
        PROVE  [Life!Next]_(Life!vars)
    BY <1>3, <2>1, OwnerView, OneViewSteps
  <2>2. CASE MainStep \/ HandleSignal \/ Terminate \/ Signal
    BY <1>3, <2>2, MainView
  <2> QED
    BY <1>3, <2>1, <2>2 DEF Next, Terminated
<1> QED
  BY <1>1, <1>2, <1>3

\* Mux implements BackendLife, for every set of backends and every mode.
THEOREM Refinement == Spec => ImplementsLife
<1>1. Init => Life!Init
  <2> SUFFICES ASSUME Init PROVE Life!Init
    OBVIOUS
  <2>1. \A b \in Backends : View(b) = "new"
    BY DEF Init, View
  <2>2. mode.retry \in BOOLEAN /\ main # "closed"
    BY ModesAssumption DEF Init, Mode
  <2> QED
    BY <2>1, <2>2 DEF Life!Init
<1>2. IInv /\ IInv' /\ [Next]_vars => [Life!Next]_(Life!vars)
  BY NextView
<1> QED
  BY <1>1, <1>2, Invariance, PTL DEF Spec, ImplementsLife, Life!Spec
=============================================================================
