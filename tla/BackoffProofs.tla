--------------------------- MODULE BackoffProofs ---------------------------
(***************************************************************************)
(* Backoff's two promises, for every setting of connect_retry, every base  *)
(* delay, every limit and every overrun of it.                             *)
(***************************************************************************)
EXTENDS Backoff, TLAPS

USE DEF Positive, Policy

----------------------------------------------------------------------------
(* Delays. *)

\* jitter keeps a positive delay positive and within a fifth
\* (reconnect.go:188-199).
LEMMA JitterBounds ==
    ASSUME NEW d \in Positive, NEW e \in Jitter(d)
    PROVE  e \in Positive /\ e <= Longest(d)
BY DEF Jitter, Longest

\* nextDelay never exceeds its jittered ceiling, whatever the delay before it
\* (reconnect.go:180-186).
LEMMA NextDelayBounds ==
    ASSUME NEW cur \in Positive, NEW ceiling \in Positive, NEW e \in NextDelay(cur, ceiling)
    PROVE  e \in Positive /\ e <= Longest(ceiling)
<1> DEFINE d == IF 2 * cur > ceiling THEN ceiling ELSE 2 * cur
<1>1. d \in Positive /\ d <= ceiling
  OBVIOUS
<1>2. e \in Jitter(d)
  BY DEF NextDelay
<1>3. e \in Positive /\ e <= Longest(d)
  BY <1>1, <1>2, JitterBounds
<1>4. Longest(d) <= Longest(ceiling)
  BY <1>1 DEF Longest
<1>5. Longest(d) \in Int /\ Longest(ceiling) \in Int
  BY <1>1 DEF Longest
<1> QED
  BY <1>3, <1>4, <1>5

\* Every delay a loop can start with or go on to is within its longest wait.
LEMMA WaitBounds ==
    ASSUME policy \in Policies
    PROVE  /\ MaxWait("pending") \in Nat /\ MaxWait("reconnect") \in Nat
           /\ \A d \in Jitter(PendingBase) : d <= MaxWait("pending")
           /\ \A d \in Jitter(ReconnectBase) : d <= MaxWait("reconnect")
           /\ \A c \in Positive : \A d \in NextDelay(c, policy.ceiling) : d <= MaxWait("pending")
           /\ \A c \in Positive : \A d \in NextDelay(c, ReconnectMax) : d <= MaxWait("reconnect")
<1>1. /\ PendingBase \in Positive /\ ReconnectBase \in Positive /\ ReconnectMax \in Positive
      /\ ReconnectBase <= ReconnectMax
      /\ policy.ceiling \in Positive
  BY DelayAssumption, PolicyAssumption
<1>2. \A p, q \in Positive : p <= q => Longest(p) <= Longest(q) /\ Longest(p) \in Nat
  BY DEF Longest
<1>3. /\ \A d \in Jitter(PendingBase) : d \in Nat /\ d <= Longest(PendingBase)
      /\ \A d \in Jitter(ReconnectBase) : d \in Nat /\ d <= Longest(ReconnectBase)
  BY <1>1, JitterBounds
<1>4. /\ \A c \in Positive : \A d \in NextDelay(c, policy.ceiling) :
              d \in Nat /\ d <= Longest(policy.ceiling)
      /\ \A c \in Positive : \A d \in NextDelay(c, ReconnectMax) :
              d \in Nat /\ d <= Longest(ReconnectMax)
  BY <1>1, NextDelayBounds
<1>5. /\ MaxWait("pending") \in Nat
      /\ Longest(PendingBase) <= MaxWait("pending")
      /\ Longest(policy.ceiling) <= MaxWait("pending")
      /\ Longest(PendingBase) \in Nat /\ Longest(policy.ceiling) \in Nat
  BY <1>1, <1>2 DEF MaxWait
<1>6. /\ MaxWait("reconnect") = Longest(ReconnectMax)
      /\ Longest(ReconnectBase) <= Longest(ReconnectMax)
      /\ Longest(ReconnectBase) \in Nat /\ Longest(ReconnectMax) \in Nat
  BY <1>1, <1>2 DEF MaxWait
<1> QED
  BY <1>3, <1>4, <1>5, <1>6

----------------------------------------------------------------------------
(* Types. *)

\* Every variable of the loops keeps its type; a delay is never non-positive
\* (jitter, reconnect.go:188), and only a backend whose attempts have a limit
\* (connect_retry) is ever pending.
THEOREM TypeCorrect == Spec => []TypeOK
<1> USE DelayAssumption, LogAssumption, ClockAssumption, PolicyAssumption
<1>1. Init => TypeOK
  <2> SUFFICES ASSUME Init PROVE TypeOK
    OBVIOUS
  <2>1. PendingBase \in Positive /\ delay \in Jitter(PendingBase)
    BY DEF Init
  <2>2. delay \in Positive
    BY <2>1, JitterBounds
  <2>3. kick \in BOOLEAN /\ upstream \in BOOLEAN /\ sound \in BOOLEAN
    BY Zenon DEF Init
  <2>4. /\ policy \in Policies /\ loop \in {"up", "pending"} /\ step = "wait"
        /\ loop = "pending" => policy.timeout # 0
        /\ spent = 0 /\ quiet = 0 /\ well = 0 /\ attempt = 1
    BY Zenon DEF Init
  <2>5. attempt \in 1..VerboseAttempts + 1
    BY <2>4
  <2> QED
    BY <2>2, <2>3, <2>4, <2>5 DEF TypeOK
<1>2. TypeOK /\ [Next]_vars => TypeOK'
  <2> SUFFICES ASSUME TypeOK, [Next]_vars PROVE TypeOK'
    OBVIOUS
  <2> USE DEF TypeOK
  <2>1. CASE Tick
    BY <2>1 DEF Tick, Later
  <2>2. CASE Turn
    BY <2>2 DEF Turn
  <2>3. CASE Kick
    BY <2>3 DEF Kick, world
  <2>4. CASE WaitEnds
    BY <2>4, NextDelayBounds DEF WaitEnds, world, Begin
  <2>5. CASE Answered
    BY <2>5 DEF Answered, Begin
  <2>6. CASE Fails
    BY <2>6, NextDelayBounds DEF Fails, world, Begin, LogAttempt
  <2>7. CASE Lost
    BY <2>7, JitterBounds DEF Lost, Begin
  <2>8. CASE UNCHANGED vars
    BY <2>8 DEF vars
  <2> QED
    BY <2>1, <2>2, <2>3, <2>4, <2>5, <2>6, <2>7, <2>8 DEF Next
<1> QED
  BY <1>1, <1>2, PTL DEF Spec

----------------------------------------------------------------------------
(* Clocks. *)

\* How old each clock can be at each step of a loop: the invariant behind the
\* two promises (awaitFirstConnect and reconnect, reconnect.go:66-158).
THEOREM ClocksHold == Spec => []Clocks
<1> USE DelayAssumption, LogAssumption, ClockAssumption, PolicyAssumption
<1>1. Init => Clocks
  <2> SUFFICES ASSUME Init PROVE Clocks
    OBVIOUS
  <2>1. policy \in Policies /\ policy.timeout \in Nat
    BY DEF Init
  <2>2. loop # "up" => loop = "pending"
    BY DEF Init
  <2> QED
    <3>1. CASE loop = "up"
      BY <3>1 DEF Clocks
    <3>2. CASE loop = "pending"
      <4>1. MaxWait(loop) \in Nat /\ delay <= MaxWait(loop) /\ delay \in Positive
        BY <2>1, <3>2, WaitBounds, JitterBounds DEF Init
      <4> QED
        BY <2>1, <4>1 DEF Init, Clocks, Longer
    <3> QED
      BY <2>2, <3>1, <3>2
<1>2. TypeOK /\ TypeOK' /\ Clocks /\ [Next]_vars => Clocks'
  <2> SUFFICES ASSUME TypeOK, TypeOK', Clocks, [Next]_vars,
                      policy.timeout # 0, policy' = policy, loop' # "up"
               PROVE  Clocks'
    BY DEF Next, Tick, Turn, Kick, WaitEnds, Answered, Fails, Lost, world, vars, Clocks
  <2>1. /\ policy.timeout \in Positive /\ Answer <= policy.timeout
        /\ MaxWait(loop') \in Nat
        /\ MaxWait(loop)' = MaxWait(loop')
        /\ Longer \in Nat /\ policy.timeout <= Longer /\ Longer' = Longer
    BY WaitBounds DEF TypeOK, MaxWait, Longer
  <2>2. CASE Tick
    BY <2>1, <2>2 DEF Tick, Later, Limited, Limit, Clocks, TypeOK
  <2>3. CASE Turn
    BY <2>1, <2>3 DEF Turn, Clocks, TypeOK
  <2>4. CASE Kick
    BY <2>1, <2>4 DEF Kick, world, Clocks, TypeOK
  <2>5. CASE WaitEnds
    <3>1. delay' <= MaxWait(loop)
      BY <2>1, <2>5, WaitBounds DEF WaitEnds, world, Clocks, TypeOK
    <3>2. /\ loop' = loop /\ loop # "up" /\ step' = "open" /\ spent' = 0
          /\ well' = well /\ quiet' = quiet /\ sound' = upstream
          /\ upstream' = upstream
      BY <2>5 DEF WaitEnds, world, Begin, Clocks, TypeOK
    <3>3. /\ spent <= delay /\ delay <= MaxWait(loop)
          /\ well <= Longer + spent
          /\ quiet <= HeartbeatInterval + spent
      BY <2>5 DEF WaitEnds, Clocks, TypeOK
    <3> QED
      BY <2>1, <3>1, <3>2, <3>3 DEF Clocks, TypeOK
  <2>6. CASE Answered
    <3>1. /\ loop = "pending" /\ loop' = loop /\ step = "open" /\ step' = "list"
          /\ spent' = 0 /\ sound' = upstream /\ well' = well
          /\ delay' = delay /\ quiet' = quiet /\ upstream' = upstream
      BY <2>6 DEF Answered, Begin, TypeOK
    <3>2. well <= Longer + MaxWait(loop) + Answer
      BY <2>1, <3>1 DEF Clocks, TypeOK
    <3> QED
      BY <2>1, <3>1, <3>2 DEF Clocks, TypeOK
  <2>7. CASE Fails
    <3>1. delay' <= MaxWait(loop)
      BY <2>1, <2>7, WaitBounds DEF Fails, world, Clocks, TypeOK
    <3> QED
      BY <2>1, <2>7, <3>1 DEF Fails, world, Begin, LogAttempt, Clocks, TypeOK
  <2>8. CASE Lost
    <3>1. delay' <= MaxWait(loop')
      BY <2>8, WaitBounds DEF Lost, TypeOK
    <3> QED
      BY <2>1, <2>8, <3>1 DEF Lost, Begin, Clocks, TypeOK
  <2>9. CASE UNCHANGED vars
    BY <2>9 DEF vars, Clocks, MaxWait, Longer
  <2> QED
    BY <2>2, <2>3, <2>4, <2>5, <2>6, <2>7, <2>8, <2>9 DEF Next
<1> QED
  BY <1>1, <1>2, TypeCorrect, PTL DEF Spec

\* A backend is up again within one attempt, its overrun, one wait and one good attempt
\* of its upstream's recovery, for every max_delay and attempt_timeout.
THEOREM RecoversInTimeHolds == Spec => []RecoversInTime
<1> USE DelayAssumption, LogAssumption, ClockAssumption, PolicyAssumption
<1>1. TypeOK /\ Clocks => RecoversInTime
  <2> SUFFICES ASSUME TypeOK, Clocks, policy.timeout # 0, loop # "up"
               PROVE  well <= Longer + MaxWait(loop) + 2 * Answer
    BY DEF RecoversInTime
  <2>1. Longer \in Nat /\ policy.timeout <= Longer
    BY DEF TypeOK, Longer
  <2> QED
    BY <2>1, WaitBounds DEF TypeOK, Clocks
<1> QED
  BY <1>1, TypeCorrect, ClocksHold, PTL

\* A backend that stays down is warned about again and again, however its
\* attempts fail and whatever its delays.
THEOREM StaysVisibleHolds == Spec => []StaysVisible
<1> USE DelayAssumption, LogAssumption, ClockAssumption, PolicyAssumption
<1>1. TypeOK /\ Clocks => StaysVisible
  <2> SUFFICES ASSUME TypeOK, Clocks, policy.timeout # 0, loop # "up"
               PROVE  quiet <= HeartbeatInterval + MaxWait(loop) + 2 * Longer
    BY DEF StaysVisible
  <2>1. Longer \in Nat /\ policy.timeout <= Longer
    BY DEF TypeOK, Longer
  <2> QED
    BY <2>1, WaitBounds DEF TypeOK, Clocks
<1> QED
  BY <1>1, TypeCorrect, ClocksHold, PTL
=============================================================================
