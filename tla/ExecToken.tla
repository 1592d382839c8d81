----------------------------- MODULE ExecToken -----------------------------
(***************************************************************************)
(* The bearer token of a helper command (ExecTokenSource and ExecHandler,  *)
(* internal/auth/exec.go): cached until shortly before it expires, minted  *)
(* again by running the helper, discarded when the upstream rejects it.    *)
(* The callers are the requests of one backend; the transport asks for a   *)
(* token before each request and, after a 401 or 403, calls Authorize and  *)
(* sends the request once more.                                            *)
(***************************************************************************)
EXTENDS Integers, FiniteSets

CONSTANTS
    Callers,    \* goroutines with a request for the backend
    NoCaller,   \* nobody holds s.mu
    Ttl,        \* s.ttl, the validity of an opaque token
    Lifetimes,  \* what is left of a JWT when the helper prints it
    Leeway,     \* s.leeway
    MaxTime,    \* bound on the clock
    MaxRuns     \* bound on the runs of the helper

ASSUME CallersAssumption == IsFiniteSet(Callers) /\ NoCaller \notin Callers
ASSUME TimesAssumption == Ttl \in Nat \ {0} /\ Leeway \in Nat /\ Lifetimes \subseteq Int
ASSUME BoundsAssumption == MaxTime \in Nat /\ MaxRuns \in Nat

VARIABLES
    now,       \* the clock
    cur,       \* s.cur: the run that minted it, 0 for nil, and its expiry
    mu,        \* who holds s.mu
    runs,      \* how often the helper has been started
    orphan,    \* a process that the running helper has started keeps its output open
    pc,        \* where a request stands
    phase,     \* which Token call it makes: "first", "authorize", "retry"
    tok,       \* the token it was handed, when, and whether from the cache
    rejected,  \* history: runs at the moment its first attempt was rejected
    reasons    \* history: how often the helper had to be run

callerVars == <<pc, phase, tok, rejected>>
vars == <<now, cur, mu, runs, orphan, callerVars, reasons>>

Runs == 0 .. MaxRuns
Nil == [run |-> 0, exp |-> 0]
NoToken == [run |-> 0, exp |-> 0, at |-> 0, cached |-> FALSE]

TypeOK ==
    /\ now \in 0 .. MaxTime
    /\ cur \in [run : Runs, exp : Int]
    /\ mu \in Callers \cup {NoCaller}
    /\ runs \in Runs
    /\ pc \in [Callers -> {"idle", "lock", "run", "request", "invalidate"}]
    /\ phase \in [Callers -> {"first", "authorize", "retry"}]
    /\ tok \in [Callers -> [run : Runs, exp : Int, at : 0 .. MaxTime, cached : BOOLEAN]]
    /\ rejected \in [Callers -> Runs]
    /\ reasons \in Nat
    /\ orphan \in BOOLEAN /\ (orphan => mu # NoCaller)
    /\ \A c \in Callers : mu = c <=> pc[c] = "run"

Init ==
    /\ now = 0
    /\ cur = Nil
    /\ mu = NoCaller
    /\ runs = 0
    /\ orphan = FALSE
    /\ pc = [c \in Callers |-> "idle"]
    /\ phase = [c \in Callers |-> "first"]
    /\ tok = [c \in Callers |-> NoToken]
    /\ rejected = [c \in Callers |-> 0]
    /\ reasons = 1

Goto(c, step) == pc' = [pc EXCEPT ![c] = step]

\* The request is over; what it knew is forgotten.
Return(c) ==
    /\ Goto(c, "idle")
    /\ phase' = [phase EXCEPT ![c] = "first"]
    /\ tok' = [tok EXCEPT ![c] = NoToken]
    /\ rejected' = [rejected EXCEPT ![c] = 0]

\* Mutant: a token is used up to its expiry.
UsableToTheEnd(token, t) == token.run # 0 /\ t < token.exp

\* Token may return it from the cache at time t.
Usable(token, t) == token.run # 0 /\ t < token.exp - Leeway

----------------------------------------------------------------------------
(* Token, called for a request or by Authorize.                            *)

\* A request comes in; it may need the helper three times.
Call(c) ==
    /\ pc[c] = "idle"
    /\ runs + 3 * Cardinality({d \in Callers : d = c \/ pc[d] # "idle"}) <= MaxRuns
    /\ Goto(c, "lock")
    /\ UNCHANGED <<now, cur, mu, runs, phase, tok, rejected, reasons, orphan>>

\* Token returns: Authorize drops the result and the request is sent again with
\* a Token call of its own.
Hand(c, token) ==
    IF phase[c] = "authorize"
    THEN /\ Goto(c, "lock")
         /\ phase' = [phase EXCEPT ![c] = "retry"]
         /\ UNCHANGED tok
    ELSE /\ Goto(c, "request")
         /\ tok' = [tok EXCEPT ![c] = token]
         /\ UNCHANGED phase

FromCache(c) ==
    /\ pc[c] = "lock"
    /\ mu = NoCaller
    /\ Usable(cur, now)
    /\ Hand(c, [run |-> cur.run, exp |-> cur.exp, at |-> now, cached |-> TRUE])
    /\ UNCHANGED <<now, cur, mu, runs, rejected, reasons, orphan>>

\* Mutant: the helper is run without the mutex.
RunUnlocked(c) ==
    /\ pc[c] = "lock"
    /\ mu = NoCaller
    /\ ~Usable(cur, now)
    /\ runs' = runs + 1
    /\ Goto(c, "run")
    /\ UNCHANGED <<now, cur, mu, phase, tok, rejected, reasons, orphan>>

\* Nothing usable is cached: the helper is started, with s.mu held.
RunHelper(c) ==
    /\ pc[c] = "lock"
    /\ mu = NoCaller
    /\ ~Usable(cur, now)
    /\ mu' = c
    /\ runs' = runs + 1
    /\ Goto(c, "run")
    /\ UNCHANGED <<now, cur, phase, tok, rejected, reasons, orphan>>

\* The token of the run that is ending: a JWT that is valid for as long as its
\* exp claim says, or an opaque one for s.ttl.
Minted(left) == [run |-> runs, exp |-> now + left]

\* The helper printed a token.
HelperPrints(c) ==
    /\ pc[c] = "run"
    /\ \E left \in Lifetimes \cup {Ttl} :
         /\ cur' = Minted(left)
         /\ Hand(c, [run |-> runs, exp |-> now + left, at |-> now, cached |-> FALSE])
         /\ reasons' = IF Usable(Minted(left), now) THEN reasons ELSE reasons + 1
    /\ mu' = NoCaller /\ orphan' = FALSE
    /\ UNCHANGED <<now, runs, rejected>>

\* Mutant: the error return keeps the mutex.
HelperFailsLocked(c) ==
    /\ pc[c] = "run"
    /\ Return(c)
    /\ reasons' = reasons + 1
    /\ UNCHANGED <<now, cur, mu, runs, orphan>>

\* The helper, or what is left of it, lets a process of its own keep the pipe that
\* cmd.Run reads: it goes on waiting when the helper has ended, and when execTimeout
\* has killed it.
Orphaned(c) ==
    /\ pc[c] = "run"
    /\ ~orphan
    /\ orphan' = TRUE
    /\ UNCHANGED <<now, cur, mu, runs, callerVars, reasons>>

\* It exits with an error, prints nothing, or is killed: execTimeout, or the end
\* of the daemon. What was cached stays.
HelperFails(c) ==
    /\ pc[c] = "run"
    /\ mu' = NoCaller /\ orphan' = FALSE
    /\ Return(c)
    /\ reasons' = reasons + 1
    /\ UNCHANGED <<now, cur, runs>>

----------------------------------------------------------------------------
(* The upstream's answer, and Authorize.                                   *)

Answered(c) ==
    /\ pc[c] = "request"
    /\ Return(c)
    /\ UNCHANGED <<now, cur, mu, runs, reasons, orphan>>

\* 401 or 403, for a token that expired, was revoked, or never was any good.
Rejected(c) ==
    /\ pc[c] = "request"
    /\ phase[c] = "first"
    /\ phase' = [phase EXCEPT ![c] = "authorize"]
    /\ rejected' = [rejected EXCEPT ![c] = runs]
    /\ reasons' = reasons + 1
    /\ Goto(c, "invalidate")
    /\ UNCHANGED <<now, cur, mu, runs, tok, orphan>>

Invalidate(c) ==
    /\ pc[c] = "invalidate"
    /\ mu = NoCaller
    /\ cur' = Nil
    /\ Goto(c, "lock")
    /\ UNCHANGED <<now, mu, runs, phase, tok, rejected, reasons, orphan>>

Tick ==
    /\ now < MaxTime
    /\ now' = now + 1
    /\ reasons' = IF Usable(cur, now) /\ ~Usable(cur, now + 1) THEN reasons + 1 ELSE reasons
    /\ UNCHANGED <<cur, mu, runs, callerVars, orphan>>

\* The bounds are reached.
Finished == now = MaxTime /\ (\A c \in Callers : pc[c] = "idle") /\ UNCHANGED vars

Next ==
    \/ \E c \in Callers :
         \/ Call(c)
         \/ FromCache(c)
         \/ RunHelper(c)
         \/ HelperPrints(c)
         \/ Orphaned(c)
         \/ HelperFails(c)
         \/ Answered(c)
         \/ Rejected(c)
         \/ Invalidate(c)
    \/ Tick
    \/ Finished

\* execTimeout ends a run of the helper unless a process it left behind has the pipe,
\* the upstream answers, and a goroutine that can take s.mu from some moment on does.
Spec ==
    /\ Init /\ [][Next]_vars
    /\ \A c \in Callers :
         /\ WF_vars(FromCache(c) \/ RunHelper(c))
         /\ WF_vars(~orphan /\ (HelperPrints(c) \/ HelperFails(c)))
         /\ WF_vars(Answered(c) \/ Rejected(c))
         /\ WF_vars(Invalidate(c))

----------------------------------------------------------------------------
(* Properties.                                                             *)

\* The helper is run only for a reason: no token yet, the cached one near its
\* expiry, a rejection, or a failed run (exec.go:5-7); requests that find the
\* cache empty together share one run.
NoNeedlessRuns == runs <= reasons

\* The token a rejected request is sent again with comes from a run of the
\* helper that was started after the rejection (Authorize, exec.go:132-134),
\* whatever the other requests do to the cache meanwhile.
RetryIsFresh ==
    \A c \in Callers : pc[c] = "request" /\ phase[c] = "retry" => tok[c].run > rejected[c]

Waiting == {"lock", "run", "invalidate"}
Promise == INSTANCE Credential WITH
    begun <- runs,
    running <- mu # NoCaller,
    current <- cur.run,
    stage <- [c \in Callers |-> IF pc[c] = "request" THEN "sent"
                               ELSE IF pc[c] \in Waiting THEN "waiting" ELSE "idle"],
    uses <- [c \in Callers |-> IF pc[c] = "request" THEN tok[c].run ELSE 0],
    beyond <- rejected

\* ExecToken implements Credential: behind the mutex, the cache and its leeway the
\* requests see runs that never overlap, nobody but the newest token, and after a
\* rejection, once, a token from a later run (ExecTokenSource.Token, exec.go:78-106;
\* Authorize, exec.go:132-144).
ImplementsCredential == Promise!Spec

\* A token from the cache is still valid when its request reaches the upstream
\* within the leeway (exec.go:51).
LeewayHolds ==
    \A c \in Callers :
        pc[c] = "request" /\ tok[c].cached /\ now <= tok[c].at + Leeway => now < tok[c].exp

\* Every request ends, though all of them queue for the mutex of a slow, hanging or
\* failing helper, unless from some moment on one run is kept for good by a process
\* the helper has left behind (Token, exec.go:78-106; defaultRunner, exec.go:157-168).
CallReturnsOrOrphaned ==
    <>[]orphan \/ \A c \in Callers : pc[c] # "idle" ~> pc[c] = "idle"
=============================================================================
