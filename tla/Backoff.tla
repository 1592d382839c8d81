------------------------------ MODULE Backoff ------------------------------
(***************************************************************************)
(* The two retry loops of a backend in time (internal/mux/reconnect.go):   *)
(* awaitFirstConnect, which waits and then attempts, and reconnect, which  *)
(* attempts and then waits; the delays between attempts, the limits on an  *)
(* attempt, and the warnings that keep a failing backend visible.          *)
(* Mux leaves every duration open; here one backend runs against a clock.  *)
(* It is one without a browser consent: the queue for a consent has no     *)
(* bound in time, and no promise about it could be kept.                   *)
(***************************************************************************)
EXTENDS Integers

CONSTANTS
    PendingBase, ReconnectBase, ReconnectMax,  \* the delays, in ticks
    VerboseAttempts, HeartbeatInterval,
    Answer,    \* a well upstream, and a well helper before it, answer within this time
    Policies,  \* the connect_retry settings and credentials to look at
    Cap        \* bound: the clocks of the model stop here

\* ceiling: opts.Retry.MaxDelay; timeout: the limit on one round trip, 0 for none,
\* which is when opts.Retry is nil; overrun: for how long a round trip can go on after
\* its limit, because the runs of a credential helper that it makes or waits for look at
\* the daemon's context and at execTimeout only. That it has a bound leaves out a helper
\* whose run never ends (ExecToken!Orphaned).
Positive == Nat \ {0}
Policy == [ceiling : Positive, timeout : Nat, overrun : Nat]

ASSUME DelayAssumption ==
    /\ PendingBase \in Positive
    /\ ReconnectBase \in Positive
    /\ ReconnectMax \in Positive
    /\ ReconnectBase <= ReconnectMax
ASSUME LogAssumption == VerboseAttempts \in Nat /\ HeartbeatInterval \in Nat
ASSUME ClockAssumption == Answer \in Nat /\ Cap \in Nat
ASSUME PolicyAssumption ==
    /\ Policies \subseteq Policy
    /\ \A p \in Policies : p.timeout # 0 => Answer <= p.timeout

VARIABLES
    policy,
    loop,      \* "pending": awaitFirstConnect, "reconnect", or "up": neither
    step,      \* of the loop: "wait", "open" (connect), "list" (register)
    delay,     \* the loop's delay
    spent,     \* time in this step
    attempt,   \* the loop's attempt, up to VerboseAttempts + 1
    quiet,     \* time since the last warning (lastLoud)
    kick,      \* b.kick holds a token
    upstream,  \* the upstream is well, and the backend's credential helper
    well,      \* for how long the backend has been down under a well upstream
    sound      \* the upstream has been well ever since this step began

vars == <<policy, loop, step, delay, spent, attempt, quiet, kick, upstream, well, sound>>
world == <<policy, upstream, well>>

TypeOK ==
    /\ policy \in Policies
    /\ loop \in {"pending", "reconnect", "up"}
    /\ step \in {"wait", "open", "list"}
    /\ delay \in Positive
    /\ spent \in Nat
    /\ attempt \in 1..VerboseAttempts + 1
    /\ quiet \in Nat
    /\ kick \in BOOLEAN /\ upstream \in BOOLEAN /\ sound \in BOOLEAN
    /\ well \in Nat
    /\ loop = "pending" => policy.timeout # 0
    /\ loop = "reconnect" => step # "list"

----------------------------------------------------------------------------
(* Delays. *)

\* Mutant: the spread is the whole delay.
JitterAll(d) == 0 .. 2 * d

\* d spread by a fifth either way, whole ticks as the code has nanoseconds.
Jitter(d) == d - d \div 5 .. d + d \div 5

\* Mutant: the doubled delay is not capped.
Uncapped(cur, ceiling) == Jitter(2 * cur)

NextDelay(cur, ceiling) == Jitter(IF 2 * cur > ceiling THEN ceiling ELSE 2 * cur)

Longest(d) == d + d \div 5

\* The longest wait of a loop; a pending backend's first one ignores max_delay.
MaxWait(l) ==
    IF l = "pending" /\ policy.ceiling > PendingBase THEN Longest(policy.ceiling)
    ELSE IF l = "pending" THEN Longest(PendingBase)
    ELSE Longest(ReconnectMax)

\* The longest round trip under a limit.
Longer == policy.timeout + policy.overrun

\* When this step ends at the latest; a limit of 0 is none.
Limited == step = "wait" \/ sound \/ policy.timeout # 0
Limit == IF step = "wait" THEN delay ELSE IF sound THEN Answer ELSE Longer

----------------------------------------------------------------------------
Init ==
    /\ policy \in Policies
    /\ loop \in {"up", "pending"} /\ (loop = "pending" => policy.timeout # 0)
    /\ step = "wait"
    /\ delay \in Jitter(PendingBase)
    /\ spent = 0 /\ quiet = 0 /\ well = 0
    /\ attempt = 1
    /\ kick = FALSE
    /\ upstream \in BOOLEAN
    /\ sound = upstream

Later(t) == IF t < Cap THEN t + 1 ELSE t

\* Time passes, unless a timer is due.
Tick ==
    /\ loop # "up"
    /\ Limited => spent < Limit
    /\ spent' = Later(spent)
    /\ quiet' = Later(quiet)
    /\ well' = IF upstream THEN Later(well) ELSE 0
    /\ UNCHANGED <<policy, loop, step, delay, attempt, kick, upstream, sound>>

\* The upstream goes down, or comes back.
Turn ==
    /\ upstream' = ~upstream
    /\ well' = 0
    /\ sound' = FALSE
    /\ UNCHANGED <<policy, loop, step, delay, spent, attempt, quiet, kick>>

Begin(s) == step' = s /\ spent' = 0 /\ sound' = upstream

\* RetryPendingNow.
Kick ==
    /\ loop = "pending"
    /\ kick' = TRUE
    /\ UNCHANGED <<world, loop, step, delay, spent, attempt, quiet, sound>>

\* A wait ends with its timer or, in awaitFirstConnect only, with a kick.
WaitEnds ==
    /\ loop # "up" /\ step = "wait"
    /\ \/ spent = delay /\ UNCHANGED kick
       \/ loop = "pending" /\ kick /\ kick' = FALSE
    /\ IF loop = "reconnect" THEN delay' \in NextDelay(delay, ReconnectMax) ELSE UNCHANGED delay
    /\ Begin("open")
    /\ UNCHANGED <<world, loop, attempt, quiet>>

\* A round trip succeeds, before its limit; the upstream need not have been well all
\* the time.
Answered ==
    /\ loop # "up" /\ step # "wait"
    /\ policy.timeout # 0 => spent <= policy.timeout
    /\ \/ loop = "pending" /\ step = "open" /\ Begin("list") /\ UNCHANGED <<loop, well>>
       \/ (loop = "reconnect" \/ step = "list") /\ loop' = "up" /\ well' = 0 /\ Begin("wait")
    /\ UNCHANGED <<policy, delay, attempt, quiet, kick, upstream>>

\* Mutant: after the first attempts the loop is silent.
SilentAttempt == quiet' = IF attempt <= VerboseAttempts THEN 0 ELSE quiet

\* A failed attempt is a warning for the first ones and then once in a while.
LogAttempt ==
    quiet' = IF attempt <= VerboseAttempts \/ quiet >= HeartbeatInterval THEN 0 ELSE quiet

\* A round trip fails, at its limit or with the helper's run that outlasts it.
Fails ==
    /\ loop # "up" /\ step # "wait"
    /\ ~sound
    /\ LogAttempt
    /\ attempt' = IF attempt <= VerboseAttempts THEN attempt + 1 ELSE attempt
    /\ IF loop = "pending" THEN delay' \in NextDelay(delay, policy.ceiling) ELSE UNCHANGED delay
    /\ Begin("wait")
    /\ UNCHANGED <<world, loop, kick>>

\* supervise sees the session end, warns, and reconnect begins.
Lost ==
    /\ loop = "up"
    /\ loop' = "reconnect"
    /\ delay' \in Jitter(ReconnectBase)
    /\ attempt' = 1
    /\ quiet' = 0
    /\ well' = 0
    /\ Begin("open")
    /\ UNCHANGED <<policy, kick, upstream>>

Next == Tick \/ Turn \/ Kick \/ WaitEnds \/ Answered \/ Fails \/ Lost

Spec == Init /\ [][Next]_vars

----------------------------------------------------------------------------
(* Properties. *)

\* Once the upstream and the helper are well, the backend is up after the attempt in
\* flight, however far it overruns its limit, one wait and one good attempt, whatever
\* the history of failures, drops and kicks (nextDelay's cap, reconnect.go:176-182; the
\* attempt's limit, backend.go:93-103; the helper's, exec.go:46-48 and 86).
RecoversInTime ==
    policy.timeout # 0 /\ loop # "up" => well <= Longer + MaxWait(loop) + 2 * Answer

\* A backend that stays down is never silent for longer than the heartbeat, one wait
\* and one attempt of two round trips: "so a wedged backend stays visible"
\* (logAttempt, reconnect.go:160-171).
StaysVisible ==
    policy.timeout # 0 /\ loop # "up" =>
        quiet <= HeartbeatInterval + MaxWait(loop) + 2 * Longer

\* The inductive invariant behind the two: how old each clock can be at each step.
Clocks ==
    policy.timeout # 0 /\ loop # "up" =>
        /\ delay <= MaxWait(loop)
        /\ ~upstream => well = 0
        /\ step = "wait" =>
              /\ spent <= delay
              /\ well <= Longer + spent
              /\ quiet <= HeartbeatInterval + spent
        /\ step # "wait" => spent <= IF sound THEN Answer ELSE Longer
        /\ step # "wait" /\ ~sound => well <= spent
        /\ step = "open" =>
              /\ sound => well <= Longer + MaxWait(loop) + spent
              /\ quiet <= HeartbeatInterval + MaxWait(loop) + spent
        /\ step = "list" =>
              /\ sound => well <= Longer + MaxWait(loop) + Answer + spent
              /\ quiet <= HeartbeatInterval + MaxWait(loop) + Longer + spent
=============================================================================
