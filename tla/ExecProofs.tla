----------------------------- MODULE ExecProofs -----------------------------
(***************************************************************************)
(* Theorems about ExecToken, for any number of requests, any lifetimes of  *)
(* tokens and any leeway: the helper runs only for a reason, a rejected    *)
(* request is sent again with a token minted after the rejection, a cached *)
(* token outlives the leeway, and ExecToken implements Credential.         *)
(***************************************************************************)
EXTENDS ExecToken, FiniteSetTheorems, TLAPS

\* Where a request can stand in each of its Token calls.
Phases ==
    \A c \in Callers :
        /\ pc[c] = "idle" => phase[c] = "first"
        /\ pc[c] = "invalidate" => phase[c] = "authorize"
        /\ phase[c] = "authorize" => pc[c] \in {"invalidate", "lock", "run"}

\* The requests that may still run the helper once, twice, three times.
Once == {c \in Callers : pc[c] # "idle" /\ (phase[c] = "retry" => pc[c] = "lock")}
Twice == {c \in Once : phase[c] # "retry" /\ (phase[c] = "authorize" => pc[c] # "run")}
Thrice == {c \in Twice : phase[c] = "first" /\ pc[c] = "lock"}

\* Call's guard leaves a run of the helper for whoever may need one.
Budget == runs + Cardinality(Once) + Cardinality(Twice) + Cardinality(Thrice) <= MaxRuns

\* A reason is there for each run, for each rejection that is not yet acted on,
\* and for the run that is due while nothing usable is cached.
Rejecting == {c \in Callers : pc[c] = "invalidate"}
Due == IF mu = NoCaller /\ ~Usable(cur, now) THEN 1 ELSE 0
Reasons == runs + Cardinality(Rejecting) + Due <= reasons

\* Once a request has discarded the token that was rejected, the cache is empty
\* or filled by a later run, and a run that is under way is a later one.
Discarded(c) == phase[c] # "first" /\ pc[c] \in {"lock", "run"}
Fresh ==
    \A c \in Callers :
        /\ rejected[c] <= runs
        /\ Discarded(c) => /\ cur.run = 0 \/ cur.run > rejected[c]
                           /\ mu # NoCaller => runs > rejected[c]
        /\ pc[c] = "request" /\ phase[c] = "retry" => tok[c].run > rejected[c]

\* A token is taken from the cache before its leeway begins.
Early == \A c \in Callers : pc[c] = "request" /\ tok[c].cached => tok[c].at < tok[c].exp - Leeway

ExecInv == TypeOK /\ Phases /\ Budget /\ Reasons /\ Fresh /\ Early

----------------------------------------------------------------------------

LEMMA ExecInit == Init => ExecInv
<1> SUFFICES ASSUME Init PROVE ExecInv
  OBVIOUS
<1> USE DEF Init, Nil, NoToken
<1>1. TypeOK
  <2>3. /\ now \in 0 .. MaxTime
        /\ cur \in [run : Runs, exp : Int]
        /\ mu \in Callers \cup {NoCaller}
        /\ runs \in Runs
        /\ reasons \in Nat
    BY BoundsAssumption DEF Runs
  <2>1. /\ pc \in [Callers -> {"idle", "lock", "run", "request", "invalidate"}]
        /\ phase \in [Callers -> {"first", "authorize", "retry"}]
        /\ tok \in [Callers -> [run : Runs, exp : Int, at : 0 .. MaxTime, cached : BOOLEAN]]
        /\ rejected \in [Callers -> Runs]
    BY BoundsAssumption DEF Runs
  <2>2. /\ orphan = FALSE
        /\ \A c \in Callers : mu = c <=> pc[c] = "run"
    BY CallersAssumption
  <2>4. orphan \in BOOLEAN /\ (orphan => mu # NoCaller)
    BY <2>2
  <2> HIDE DEF Init
  <2> QED BY <2>1, <2>2, <2>3, <2>4 DEF TypeOK
<1>2. Phases /\ Fresh /\ Early
  BY DEF Phases, Fresh, Discarded, Early
<1>3. Once = {} /\ Twice = {} /\ Thrice = {} /\ Rejecting = {}
  BY DEF Once, Twice, Thrice, Rejecting
<1>4. Budget
  BY <1>3, FS_EmptySet, BoundsAssumption DEF Budget
<1>5. Reasons
  BY <1>3, FS_EmptySet DEF Reasons, Due
<1> QED BY <1>1, <1>2, <1>4, <1>5 DEF ExecInv

\* The sizes of the sets that are counted.
LEMMA Sizes ==
    ASSUME NEW S \in SUBSET Callers
    PROVE  /\ IsFiniteSet(S) /\ Cardinality(S) \in Nat
           /\ \A T \in SUBSET S : Cardinality(T) <= Cardinality(S)
           /\ \A c \in S : Cardinality(S \ {c}) = Cardinality(S) - 1
<1>1. IsFiniteSet(S)
  BY FS_Subset, CallersAssumption
<1> QED BY <1>1, FS_Subset, FS_CardinalityType, FS_RemoveElement

LEMMA InCallers ==
    /\ Once \in SUBSET Callers /\ Twice \in SUBSET Once /\ Thrice \in SUBSET Twice
    /\ Once' \in SUBSET Callers /\ Twice' \in SUBSET Once' /\ Thrice' \in SUBSET Twice'
    /\ Rejecting \in SUBSET Callers /\ Rejecting' \in SUBSET Callers
BY DEF Once, Twice, Thrice, Rejecting

\* The bound on the runs is never what keeps a request from running the helper.
LEMMA RunLeft == ASSUME TypeOK, Budget, NEW c \in Once PROVE runs < MaxRuns
<1>1. Cardinality(Once) \in Nat /\ Cardinality(Once \ {c}) \in Nat
      /\ Cardinality(Once \ {c}) = Cardinality(Once) - 1
      /\ Cardinality(Twice) \in Nat /\ Cardinality(Thrice) \in Nat
  BY InCallers, Sizes
<1>2. runs \in Nat /\ MaxRuns \in Nat
  BY BoundsAssumption DEF TypeOK, Runs
<1> QED BY <1>1, <1>2 DEF Budget

Token == [run : Runs, exp : Int, at : 0 .. MaxTime, cached : BOOLEAN]

\* What Token's return changes, whoever called it.
LEMMA Handed ==
    ASSUME TypeOK, Phases, NEW c \in Callers, NEW token \in Token,
           pc[c] \in {"lock", "run"}, Hand(c, token)
    PROVE  /\ pc' \in [Callers -> {"idle", "lock", "run", "request", "invalidate"}]
           /\ phase' \in [Callers -> {"first", "authorize", "retry"}]
           /\ tok' \in [Callers -> Token]
           /\ pc'[c] \in {"lock", "request"}
           /\ \A d \in Callers : d # c => pc'[d] = pc[d]
           /\ Phases'
<1> USE DEF TypeOK, Phases, Goto, Hand, Token
<1>1. CASE phase[c] = "authorize"
  <2>1. pc' = [pc EXCEPT ![c] = "lock"] /\ phase' = [phase EXCEPT ![c] = "retry"] /\ UNCHANGED tok
    BY <1>1
  <2> QED BY <1>1, <2>1
<1>2. CASE phase[c] # "authorize"
  <2>1. pc' = [pc EXCEPT ![c] = "request"] /\ tok' = [tok EXCEPT ![c] = token] /\ UNCHANGED phase
    BY <1>2
  <2> QED BY <1>2, <2>1
<1> QED BY <1>1, <1>2

LEMMA TypeNext == TypeOK /\ Phases /\ Budget /\ [Next]_vars => TypeOK' /\ Phases'
<1> SUFFICES ASSUME TypeOK, Phases, Budget, [Next]_vars PROVE TypeOK' /\ Phases'
  OBVIOUS
<1> USE DEF TypeOK, Phases, Goto
<1>1. CASE UNCHANGED vars
  BY <1>1 DEF vars, callerVars
<1>2. ASSUME NEW c \in Callers, Call(c) PROVE TypeOK' /\ Phases'
  BY <1>2 DEF Call
<1>3. ASSUME NEW c \in Callers, FromCache(c) PROVE TypeOK' /\ Phases'
  <2>1. [run |-> cur.run, exp |-> cur.exp, at |-> now, cached |-> TRUE]
          \in Token
    BY DEF Token
  <2>2. pc[c] = "lock" /\ Hand(c, [run |-> cur.run, exp |-> cur.exp, at |-> now, cached |-> TRUE])
        /\ UNCHANGED <<now, cur, mu, runs, rejected, reasons, orphan>>
    BY <1>3 DEF FromCache
  <2> HIDE DEF Phases
  <2> QED BY <2>1, <2>2, Handed DEF Token
<1>4. ASSUME NEW c \in Callers, RunHelper(c) PROVE TypeOK' /\ Phases'
  <2>1. runs + 1 \in Runs
    BY <1>4, RunLeft, BoundsAssumption DEF RunHelper, Once, Runs
  <2> QED BY <1>4, <2>1, CallersAssumption DEF RunHelper
<1>5. ASSUME NEW c \in Callers, HelperPrints(c) PROVE TypeOK' /\ Phases'
  <2>1. PICK left \in Lifetimes \cup {Ttl} :
          /\ cur' = Minted(left)
          /\ Hand(c, [run |-> runs, exp |-> now + left, at |-> now, cached |-> FALSE])
    BY <1>5 DEF HelperPrints
  <2>2. now + left \in Int
    BY TimesAssumption, BoundsAssumption
  <2>3. cur' \in [run : Runs, exp : Int]
    BY <2>1, <2>2 DEF Minted
  <2>4. [run |-> runs, exp |-> now + left, at |-> now, cached |-> FALSE]
          \in Token
    BY <2>2 DEF Token
  <2>5. reasons' \in Nat /\ pc[c] = "run" /\ mu' = NoCaller /\ orphan' = FALSE
        /\ UNCHANGED <<now, runs, rejected>>
    BY <1>5 DEF HelperPrints
  <2> HIDE DEF Phases
  <2>6. \A d \in Callers : mu' = d <=> pc'[d] = "run"
    BY <2>1, <2>4, <2>5, Handed, CallersAssumption
  <2> QED BY <2>1, <2>3, <2>4, <2>5, <2>6, Handed DEF Token
<1>6. ASSUME NEW c \in Callers, HelperFails(c) \/ Answered(c) PROVE TypeOK' /\ Phases'
  <2>1. NoToken \in [run : Runs, exp : Int, at : 0 .. MaxTime, cached : BOOLEAN] /\ 0 \in Runs
    BY BoundsAssumption DEF NoToken, Runs
  <2>2. CASE HelperFails(c)
    <3>1. /\ pc[c] = "run" /\ mu' = NoCaller /\ orphan' = FALSE /\ reasons' = reasons + 1
          /\ pc' = [pc EXCEPT ![c] = "idle"] /\ phase' = [phase EXCEPT ![c] = "first"]
          /\ tok' = [tok EXCEPT ![c] = NoToken] /\ rejected' = [rejected EXCEPT ![c] = 0]
          /\ UNCHANGED <<now, cur, runs>>
      BY <2>2 DEF HelperFails, Return
    <3>2. \A d \in Callers : mu' = d <=> pc'[d] = "run"
      BY <3>1, CallersAssumption
    <3>3. Phases'
      BY <3>1
    <3> HIDE DEF Phases
    <3>4. /\ now' \in 0 .. MaxTime /\ cur' \in [run : Runs, exp : Int] /\ runs' \in Runs
          /\ mu' \in Callers \cup {NoCaller} /\ reasons' \in Nat
      BY <3>1
    <3>7. orphan' \in BOOLEAN /\ (orphan' => mu' # NoCaller)
      BY <3>1, Zenon
    <3>5. /\ pc' \in [Callers -> {"idle", "lock", "run", "request", "invalidate"}]
          /\ phase' \in [Callers -> {"first", "authorize", "retry"}]
      BY <3>1
    <3>6. /\ tok' \in [Callers -> [run : Runs, exp : Int, at : 0 .. MaxTime, cached : BOOLEAN]]
          /\ rejected' \in [Callers -> Runs]
      BY <2>1, <3>1
    <3> QED BY <3>2, <3>3, <3>4, <3>5, <3>6, <3>7
  <2>3. CASE Answered(c)
    BY <2>1, <2>3, CallersAssumption DEF Answered, Return
  <2> QED BY <1>6, <2>2, <2>3
<1>7. ASSUME NEW c \in Callers, Rejected(c) PROVE TypeOK' /\ Phases'
  BY <1>7 DEF Rejected
<1>8. ASSUME NEW c \in Callers, Invalidate(c) PROVE TypeOK' /\ Phases'
  BY <1>8, BoundsAssumption DEF Invalidate, Nil, Runs
<1>9. CASE Tick
  BY <1>9, BoundsAssumption DEF Tick, callerVars
<1>10. CASE Finished
  BY <1>10 DEF Finished, vars, callerVars
<1>11. ASSUME NEW c \in Callers, Orphaned(c) PROVE TypeOK' /\ Phases'
  BY <1>11, CallersAssumption DEF Orphaned, callerVars
<1> QED BY <1>1, <1>2, <1>3, <1>4, <1>5, <1>6, <1>7, <1>8, <1>9, <1>10, <1>11 DEF Next

\* A step that runs no helper leaves the budget as it was or frees some of it.
LEMMA BudgetNext == TypeOK /\ Phases /\ Budget /\ [Next]_vars => Budget'
<1> SUFFICES ASSUME TypeOK, Phases, Budget, [Next]_vars PROVE Budget'
  OBVIOUS
<1> USE DEF Goto
<1>1. /\ runs \in Nat /\ MaxRuns \in Nat
      /\ Cardinality(Once) \in Nat /\ Cardinality(Twice) \in Nat /\ Cardinality(Thrice) \in Nat
      /\ Cardinality(Once') \in Nat /\ Cardinality(Twice') \in Nat /\ Cardinality(Thrice') \in Nat
  BY InCallers, Sizes, BoundsAssumption DEF TypeOK, Runs
<1>2. ASSUME Once' \subseteq Once, Twice' \subseteq Twice, Thrice' \subseteq Thrice, runs' = runs
      PROVE  Budget'
  <2>1. /\ Cardinality(Once') <= Cardinality(Once)
        /\ Cardinality(Twice') <= Cardinality(Twice)
        /\ Cardinality(Thrice') <= Cardinality(Thrice)
    BY <1>2, InCallers, Sizes
  <2> QED BY <1>1, <1>2, <2>1 DEF Budget
<1>3. CASE UNCHANGED vars
  BY <1>3, <1>2 DEF vars, callerVars, Once, Twice, Thrice
<1>4. ASSUME NEW c \in Callers, Call(c) PROVE Budget'
  <2> DEFINE Active == {d \in Callers : d = c \/ pc[d] # "idle"}
  <2>1. runs' = runs /\ runs + 3 * Cardinality(Active) <= MaxRuns
    BY <1>4 DEF Call
  <2>2. Once' \subseteq Active /\ Active \in SUBSET Callers
    BY <1>4 DEF Call, Once, TypeOK
  <2>3. Twice' \subseteq Active /\ Thrice' \subseteq Active
    BY <2>2, InCallers
  <2>4. /\ Cardinality(Active) \in Nat /\ Cardinality(Once') <= Cardinality(Active)
        /\ Cardinality(Twice') <= Cardinality(Active)
        /\ Cardinality(Thrice') <= Cardinality(Active)
    BY <2>2, <2>3, Sizes
  <2> QED BY <1>1, <2>1, <2>4 DEF Budget
<1>5. ASSUME NEW c \in Callers, FromCache(c) PROVE Budget'
  <2>1. Once' \subseteq Once
    BY <1>5 DEF FromCache, Hand, Once, TypeOK
  <2>2. Twice' \subseteq Twice
    BY <1>5 DEF FromCache, Hand, Once, Twice, TypeOK
  <2>3. Thrice' \subseteq Thrice
    BY <1>5 DEF FromCache, Hand, Once, Twice, Thrice, TypeOK
  <2> QED BY <1>2, <1>5, <2>1, <2>2, <2>3 DEF FromCache
<1>6. ASSUME NEW c \in Callers, RunHelper(c) PROVE Budget'
  <2>1. pc[c] = "lock" /\ pc' = [pc EXCEPT ![c] = "run"] /\ phase' = phase /\ runs' = runs + 1
    BY <1>6 DEF RunHelper
  <2>2. Once' \subseteq Once /\ Twice' \subseteq Twice /\ Thrice' \subseteq Thrice
    BY <2>1 DEF Once, Twice, Thrice, TypeOK
  <2>3. /\ Cardinality(Once') <= Cardinality(Once)
        /\ Cardinality(Twice') <= Cardinality(Twice)
        /\ Cardinality(Thrice') <= Cardinality(Thrice)
    BY <2>2, InCallers, Sizes
  <2>4. CASE phase[c] = "retry"
    <3>1. c \in Once /\ Once' \in SUBSET (Once \ {c}) /\ Once \in SUBSET Callers
      BY <2>1, <2>2, <2>4, InCallers DEF Once, TypeOK
    <3>2. Cardinality(Once') <= Cardinality(Once) - 1
      BY <3>1, Sizes
    <3> QED BY <1>1, <2>1, <2>3, <3>2 DEF Budget
  <2>5. CASE phase[c] = "authorize"
    <3>1. c \in Twice /\ Twice' \in SUBSET (Twice \ {c}) /\ Twice \in SUBSET Callers
      BY <2>1, <2>2, <2>5, InCallers DEF Once, Twice, TypeOK
    <3>2. Cardinality(Twice') <= Cardinality(Twice) - 1
      BY <3>1, Sizes, ZenonT(30)
    <3> QED BY <1>1, <2>1, <2>3, <3>2 DEF Budget
  <2>6. CASE phase[c] = "first"
    <3>1. c \in Thrice /\ Thrice' \in SUBSET (Thrice \ {c}) /\ Thrice \in SUBSET Callers
      BY <2>1, <2>2, <2>6, InCallers DEF Once, Twice, Thrice, TypeOK
    <3>2. Cardinality(Thrice') <= Cardinality(Thrice) - 1
      BY <3>1, Sizes
    <3> QED BY <1>1, <2>1, <2>3, <3>2 DEF Budget
  <2> QED BY <2>4, <2>5, <2>6 DEF TypeOK
<1>7. ASSUME NEW c \in Callers, HelperPrints(c) PROVE Budget'
  <2>1. PICK token \in [run : {runs}, exp : {now + left : left \in Lifetimes \cup {Ttl}},
                        at : {now}, cached : {FALSE}] : Hand(c, token)
    BY <1>7 DEF HelperPrints
  <2>2. pc[c] = "run" /\ runs' = runs
    BY <1>7 DEF HelperPrints
  <2>3. Once' \subseteq Once
    BY <2>1, <2>2 DEF Hand, Once, TypeOK, Phases
  <2>4. Twice' \subseteq Twice
    BY <2>1, <2>2 DEF Hand, Once, Twice, TypeOK, Phases
  <2>5. Thrice' \subseteq Thrice
    BY <2>1, <2>2 DEF Hand, Once, Twice, Thrice, TypeOK, Phases
  <2> QED BY <1>2, <2>2, <2>3, <2>4, <2>5
<1>8. ASSUME NEW c \in Callers, HelperFails(c) \/ Answered(c) PROVE Budget'
  BY <1>8, <1>2 DEF HelperFails, Answered, Return, Once, Twice, Thrice, TypeOK
<1>9. ASSUME NEW c \in Callers, Rejected(c) PROVE Budget'
  BY <1>9, <1>2 DEF Rejected, Once, Twice, Thrice, TypeOK
<1>10. ASSUME NEW c \in Callers, Invalidate(c) PROVE Budget'
  BY <1>10, <1>2 DEF Invalidate, Once, Twice, Thrice, TypeOK, Phases
<1>11. CASE Tick
  BY <1>11, <1>2 DEF Tick, callerVars, Once, Twice, Thrice
<1>12. CASE Finished
  BY <1>12, <1>3 DEF Finished
<1>13. ASSUME NEW c \in Callers, Orphaned(c) PROVE Budget'
  BY <1>13, <1>2 DEF Orphaned, callerVars, Once, Twice, Thrice
<1> QED BY <1>3, <1>4, <1>5, <1>6, <1>7, <1>8, <1>9, <1>10, <1>11, <1>12, <1>13 DEF Next

\* Every run of the helper uses up a reason.
LEMMA ReasonsNext == TypeOK /\ Reasons /\ [Next]_vars => Reasons'
<1> SUFFICES ASSUME TypeOK, Reasons, [Next]_vars PROVE Reasons'
  OBVIOUS
<1> USE DEF Goto
<1>1. /\ runs \in Nat /\ reasons \in Nat
      /\ Cardinality(Rejecting) \in Nat /\ Cardinality(Rejecting') \in Nat
      /\ Due \in {0, 1} /\ Due' \in {0, 1}
  BY InCallers, Sizes DEF TypeOK, Runs, Due
<1>2. ASSUME UNCHANGED <<Rejecting, runs, Due, reasons>> PROVE Reasons'
  BY <1>2 DEF Reasons
<1>3. CASE UNCHANGED vars
  BY <1>3, <1>2 DEF vars, callerVars, Rejecting, Due, Usable
<1>4. ASSUME NEW c \in Callers, Call(c) \/ FromCache(c) \/ Answered(c) PROVE Reasons'
  <2>1. UNCHANGED <<now, cur, mu, runs, reasons>>
    BY <1>4 DEF Call, FromCache, Answered
  <2>2. Rejecting' = Rejecting
    BY <1>4 DEF Call, FromCache, Answered, Return, Hand, Rejecting, TypeOK
  <2> QED BY <1>2, <2>1, <2>2 DEF Due, Usable
<1>5. ASSUME NEW c \in Callers, RunHelper(c) PROVE Reasons'
  <2>1. Rejecting' = Rejecting /\ runs' = runs + 1 /\ reasons' = reasons
    BY <1>5 DEF RunHelper, Rejecting, TypeOK
  <2>2. Due = 1 /\ Due' = 0
    BY <1>5, CallersAssumption DEF RunHelper, Due
  <2> QED BY <1>1, <2>1, <2>2 DEF Reasons
<1>6. ASSUME NEW c \in Callers, HelperPrints(c) PROVE Reasons'
  <2>1. PICK left \in Lifetimes \cup {Ttl} :
          /\ cur' = Minted(left)
          /\ Hand(c, [run |-> runs, exp |-> now + left, at |-> now, cached |-> FALSE])
          /\ reasons' = IF Usable(Minted(left), now) THEN reasons ELSE reasons + 1
    BY <1>6 DEF HelperPrints
  <2>2. pc[c] = "run" /\ mu' = NoCaller /\ UNCHANGED <<now, runs>>
    BY <1>6 DEF HelperPrints
  <2>3. Rejecting' = Rejecting
    BY <2>1, <2>2 DEF Hand, Rejecting, TypeOK
  <2>4. Due = 0
    BY <2>2, CallersAssumption DEF TypeOK, Due
  <2>5. Due' = IF Usable(Minted(left), now) THEN 0 ELSE 1
    BY <2>1, <2>2 DEF Due, Usable
  <2> QED BY <1>1, <2>1, <2>2, <2>3, <2>4, <2>5 DEF Reasons
<1>7. ASSUME NEW c \in Callers, HelperFails(c) PROVE Reasons'
  <2>1. Rejecting' = Rejecting /\ runs' = runs /\ reasons' = reasons + 1
    BY <1>7 DEF HelperFails, Return, Rejecting, TypeOK
  <2> QED BY <1>1, <2>1 DEF Reasons
<1>8. ASSUME NEW c \in Callers, Rejected(c) PROVE Reasons'
  <2>1. Rejecting' = Rejecting \cup {c} /\ UNCHANGED <<runs, now, cur, mu>> /\ reasons' = reasons + 1
    BY <1>8 DEF Rejected, Rejecting, TypeOK
  <2>2. Cardinality(Rejecting') <= Cardinality(Rejecting) + 1
    BY <1>1, <2>1, InCallers, Sizes, FS_AddElement
  <2>3. Due' = Due
    BY <2>1 DEF Due, Usable
  <2> QED BY <1>1, <2>1, <2>2, <2>3 DEF Reasons
<1>9. ASSUME NEW c \in Callers, Invalidate(c) PROVE Reasons'
  <2>1. c \in Rejecting /\ Rejecting' = Rejecting \ {c} /\ UNCHANGED <<runs, reasons>>
    BY <1>9 DEF Invalidate, Rejecting, TypeOK
  <2>2. Cardinality(Rejecting') = Cardinality(Rejecting) - 1
    BY <2>1, InCallers, Sizes
  <2> QED BY <1>1, <2>1, <2>2 DEF Reasons
<1>10. CASE Tick
  <2>1. Rejecting' = Rejecting /\ UNCHANGED <<runs, cur, mu>> /\ now' = now + 1
    BY <1>10 DEF Tick, callerVars, Rejecting
  <2>2. CASE Usable(cur, now) /\ ~Usable(cur, now + 1)
    <3>1. reasons' = reasons + 1
      BY <1>10, <2>2 DEF Tick
    <3> QED BY <1>1, <2>1, <3>1 DEF Reasons
  <2>3. CASE ~(Usable(cur, now) /\ ~Usable(cur, now + 1))
    <3>1. reasons' = reasons
      BY <1>10, <2>3 DEF Tick
    <3>2. Due' <= Due
      BY <2>1, <2>3 DEF Due, Usable
    <3> QED BY <1>1, <2>1, <3>1, <3>2 DEF Reasons
  <2> QED BY <2>2, <2>3
<1>11. CASE Finished
  BY <1>11, <1>3 DEF Finished
<1>12. ASSUME NEW c \in Callers, Orphaned(c) PROVE Reasons'
  <2>1. UNCHANGED <<now, cur, mu, runs, reasons, pc>>
    BY <1>12 DEF Orphaned, callerVars
  <2> QED BY <1>2, <2>1 DEF Rejecting, Due, Usable
<1> QED BY <1>3, <1>4, <1>5, <1>6, <1>7, <1>8, <1>9, <1>10, <1>11, <1>12 DEF Next

\* A rejection is followed by Invalidate before the request asks for a token again.
LEMMA FreshNext == TypeOK /\ Phases /\ Fresh /\ [Next]_vars => Fresh'
<1> SUFFICES ASSUME TypeOK, Phases, Fresh, [Next]_vars PROVE Fresh'
  OBVIOUS
<1> USE DEF TypeOK, Phases, Fresh, Discarded, Goto, Runs
<1>1. runs \in Nat /\ \A c \in Callers : rejected[c] \in Nat
  OBVIOUS
<1>2. CASE UNCHANGED vars
  BY <1>2 DEF vars, callerVars
<1>3. ASSUME NEW c \in Callers, Call(c) PROVE Fresh'
  BY <1>3 DEF Call
<1>4. ASSUME NEW c \in Callers, FromCache(c) PROVE Fresh'
  <2>1. /\ pc[c] = "lock" /\ mu = NoCaller /\ cur.run # 0
        /\ Hand(c, [run |-> cur.run, exp |-> cur.exp, at |-> now, cached |-> TRUE])
        /\ UNCHANGED <<cur, mu, runs, rejected>>
    BY <1>4 DEF FromCache, Usable
  <2>2. CASE phase[c] = "authorize"
    BY <2>1, <2>2 DEF Hand
  <2>3. CASE phase[c] # "authorize"
    <3>1. /\ pc' = [pc EXCEPT ![c] = "request"] /\ UNCHANGED phase
          /\ tok' = [tok EXCEPT ![c] = [run |-> cur.run, exp |-> cur.exp, at |-> now, cached |-> TRUE]]
      BY <2>1, <2>3 DEF Hand
    <3>2. tok'[c].run = cur.run
      BY <3>1
    <3> QED BY <2>1, <2>3, <3>1, <3>2
  <2> QED BY <2>2, <2>3
<1>5. ASSUME NEW c \in Callers, RunHelper(c) PROVE Fresh'
  <2>1. /\ pc[c] = "lock" /\ pc' = [pc EXCEPT ![c] = "run"] /\ runs' = runs + 1
        /\ UNCHANGED <<cur, phase, tok, rejected>>
    BY <1>5 DEF RunHelper
  <2>2. \A d \in Callers : rejected'[d] < runs' /\ (Discarded(d)' => Discarded(d))
    BY <1>1, <2>1
  <2> QED BY <1>1, <2>1, <2>2
<1>6. ASSUME NEW c \in Callers, HelperPrints(c) PROVE Fresh'
  <2>1. PICK left \in Lifetimes \cup {Ttl} :
          /\ cur' = Minted(left)
          /\ Hand(c, [run |-> runs, exp |-> now + left, at |-> now, cached |-> FALSE])
    BY <1>6 DEF HelperPrints
  <2>2. pc[c] = "run" /\ mu = c /\ mu' = NoCaller /\ cur'.run = runs /\ UNCHANGED <<runs, rejected>>
    BY <1>6, <2>1 DEF HelperPrints, Minted
  <2>3. \A d \in Callers : Discarded(d) => runs > rejected[d]
    BY <2>2, CallersAssumption
  <2>4. CASE phase[c] = "authorize"
    BY <2>1, <2>2, <2>3, <2>4 DEF Hand
  <2>5. CASE phase[c] # "authorize"
    <3>1. /\ pc' = [pc EXCEPT ![c] = "request"] /\ UNCHANGED phase
          /\ tok' = [tok EXCEPT ![c] = [run |-> runs, exp |-> now + left, at |-> now, cached |-> FALSE]]
      BY <2>1, <2>5 DEF Hand
    <3>2. tok'[c].run = runs
      BY <3>1
    <3> QED BY <2>2, <2>3, <2>5, <3>1, <3>2
  <2> QED BY <2>4, <2>5
<1>7. ASSUME NEW c \in Callers, HelperFails(c) \/ Answered(c) PROVE Fresh'
  <2>1. /\ Return(c) /\ UNCHANGED <<cur, runs>> /\ (mu' = mu \/ mu' = NoCaller)
    BY <1>7 DEF HelperFails, Answered
  <2>2. pc'[c] = "idle" /\ phase'[c] = "first" /\ rejected'[c] = 0
    BY <2>1 DEF Return
  <2>3. \A d \in Callers : d # c =>
          pc'[d] = pc[d] /\ phase'[d] = phase[d] /\ rejected'[d] = rejected[d] /\ tok'[d] = tok[d]
    BY <2>1 DEF Return
  <2> QED BY <1>1, <2>1, <2>2, <2>3
<1>8. ASSUME NEW c \in Callers, Rejected(c) PROVE Fresh'
  <2>1. /\ pc' = [pc EXCEPT ![c] = "invalidate"] /\ phase' = [phase EXCEPT ![c] = "authorize"]
        /\ rejected' = [rejected EXCEPT ![c] = runs] /\ UNCHANGED <<cur, mu, runs, tok>>
    BY <1>8 DEF Rejected
  <2> QED BY <1>1, <2>1
<1>9. ASSUME NEW c \in Callers, Invalidate(c) PROVE Fresh'
  <2>1. /\ pc' = [pc EXCEPT ![c] = "lock"] /\ cur'.run = 0 /\ mu' = NoCaller
        /\ UNCHANGED <<runs, phase, tok, rejected>>
    BY <1>9 DEF Invalidate, Nil
  <2> QED BY <2>1
<1>10. CASE Tick
  BY <1>10 DEF Tick, callerVars
<1>11. CASE Finished
  BY <1>11, <1>2 DEF Finished
<1>12. ASSUME NEW c \in Callers, Orphaned(c) PROVE Fresh'
  BY <1>12 DEF Orphaned, callerVars
<1> QED BY <1>2, <1>3, <1>4, <1>5, <1>6, <1>7, <1>8, <1>9, <1>10, <1>11, <1>12 DEF Next

LEMMA EarlyNext == TypeOK /\ Early /\ [Next]_vars => Early'
<1> SUFFICES ASSUME TypeOK, Early, [Next]_vars PROVE Early'
  OBVIOUS
<1> USE DEF TypeOK, Early, Goto
<1>1. CASE UNCHANGED vars
  BY <1>1 DEF vars, callerVars
<1>2. ASSUME NEW c \in Callers, NEW token, Hand(c, token), token.cached => token.at < token.exp - Leeway
      PROVE  Early'
  <2>1. CASE phase[c] = "authorize"
    BY <1>2, <2>1 DEF Hand
  <2>2. CASE phase[c] # "authorize"
    <3>1. pc' = [pc EXCEPT ![c] = "request"] /\ tok' = [tok EXCEPT ![c] = token]
      BY <1>2, <2>2 DEF Hand
    <3> QED BY <1>2, <3>1
  <2> QED BY <2>1, <2>2
<1>3. ASSUME NEW c \in Callers, FromCache(c) PROVE Early'
  <2> DEFINE token == [run |-> cur.run, exp |-> cur.exp, at |-> now, cached |-> TRUE]
  <2>1. Hand(c, token) /\ token.at < token.exp - Leeway
    BY <1>3 DEF FromCache, Usable
  <2> QED BY <1>2, <2>1
<1>4. ASSUME NEW c \in Callers, HelperPrints(c) PROVE Early'
  <2>1. PICK left \in Lifetimes \cup {Ttl} :
          Hand(c, [run |-> runs, exp |-> now + left, at |-> now, cached |-> FALSE])
    BY <1>4 DEF HelperPrints
  <2> QED BY <1>2, <2>1
<1>5. ASSUME NEW c \in Callers,
             Call(c) \/ RunHelper(c) \/ HelperFails(c) \/ Answered(c) \/ Rejected(c) \/ Invalidate(c)
      PROVE  Early'
  <2>1. /\ pc' \in {[pc EXCEPT ![c] = step] : step \in {"idle", "lock", "run", "invalidate"}}
        /\ tok' = tok \/ tok' = [tok EXCEPT ![c] = NoToken]
    BY <1>5 DEF Call, RunHelper, HelperFails, Answered, Rejected, Invalidate, Return
  <2> QED BY <2>1, SMTT(20)
<1>6. CASE Tick \/ Finished
  BY <1>6, <1>1 DEF Tick, Finished, callerVars
<1>7. ASSUME NEW c \in Callers, Orphaned(c) PROVE Early'
  BY <1>7 DEF Orphaned, callerVars
<1> QED BY <1>1, <1>3, <1>4, <1>5, <1>6, <1>7 DEF Next

LEMMA ExecNext == ExecInv /\ [Next]_vars => ExecInv'
BY TypeNext, BudgetNext, ReasonsNext, FreshNext, EarlyNext DEF ExecInv

----------------------------------------------------------------------------

\* The inductive invariant, for every number of requests.
THEOREM ExecInvariance == Spec => []ExecInv
BY ExecInit, ExecNext, PTL DEF Spec

\* Every variable keeps its type, s.mu is held exactly during a run of the helper,
\* and Call's bound leaves a run for every request that may still need one.
THEOREM ExecTypeCorrect == Spec => []TypeOK
<1>1. ExecInv => TypeOK
  BY DEF ExecInv
<1> QED BY ExecInvariance, <1>1, PTL

\* The helper is never run without a reason (exec.go:5-7).
THEOREM NoNeedlessRunsHolds == Spec => []NoNeedlessRuns
<1>1. ExecInv => NoNeedlessRuns
  <2> SUFFICES ASSUME ExecInv PROVE runs <= reasons
    BY DEF NoNeedlessRuns
  <2>1. Cardinality(Rejecting) \in Nat /\ Due \in Nat /\ runs \in Nat /\ reasons \in Nat
    BY InCallers, Sizes DEF ExecInv, TypeOK, Runs, Due
  <2> QED BY <2>1 DEF ExecInv, Reasons
<1> QED BY ExecInvariance, <1>1, PTL

\* A rejected request is sent again with a token from a run that started after
\* the rejection (Authorize, exec.go:132-134).
THEOREM RetryIsFreshHolds == Spec => []RetryIsFresh
<1>1. ExecInv => RetryIsFresh
  BY DEF ExecInv, Fresh, RetryIsFresh
<1> QED BY ExecInvariance, <1>1, PTL

\* A cached token is valid for the leeway after it was handed out (exec.go:51).
THEOREM LeewayHoldsAlways == Spec => []LeewayHolds
<1>1. ExecInv => LeewayHolds
  <2> SUFFICES ASSUME ExecInv, NEW c \in Callers,
                      pc[c] = "request", tok[c].cached, now <= tok[c].at + Leeway
               PROVE  now < tok[c].exp
    BY DEF LeewayHolds
  <2>1. tok[c].at < tok[c].exp - Leeway
    BY DEF ExecInv, Early
  <2>2. tok[c].at \in Int /\ tok[c].exp \in Int /\ now \in Int /\ Leeway \in Int
    BY TimesAssumption, BoundsAssumption DEF ExecInv, TypeOK
  <2> QED BY <2>1, <2>2
<1> QED BY ExecInvariance, <1>1, PTL

----------------------------------------------------------------------------
(* The refinement of Credential.                                           *)

\* What the mapping asks for beyond ExecInv: a run that has not ended has begun,
\* and only a request that is sent again remembers a rejection.
Begun == mu # NoCaller => runs > 0
Unrejected == \A c \in Callers : phase[c] = "first" => rejected[c] = 0

MapInv == ExecInv /\ Begun /\ Unrejected

LEMMA MapInit == Init => MapInv
BY ExecInit DEF MapInv, Begun, Unrejected, Init

LEMMA MapNext == MapInv /\ [Next]_vars => MapInv'
<1> SUFFICES ASSUME MapInv, [Next]_vars PROVE Begun' /\ Unrejected'
  BY ExecNext DEF MapInv
<1>1. TypeOK /\ Phases /\ Begun /\ Unrejected /\ runs \in Nat
  BY DEF MapInv, ExecInv, TypeOK, Runs
<1> USE DEF Begun, Unrejected, TypeOK, Goto
<1>2. CASE UNCHANGED vars
  BY <1>1, <1>2 DEF vars, callerVars
<1>3. ASSUME NEW c \in Callers, Call(c) \/ RunHelper(c) \/ Rejected(c) \/ Invalidate(c)
      PROVE  Begun' /\ Unrejected'
  BY <1>1, <1>3 DEF Call, RunHelper, Rejected, Invalidate
<1>4. ASSUME NEW c \in Callers, FromCache(c) \/ HelperPrints(c) PROVE Begun' /\ Unrejected'
  <2>1. phase' = phase \/ phase' = [phase EXCEPT ![c] = "retry"]
    BY <1>4 DEF FromCache, HelperPrints, Hand
  <2>2. UNCHANGED <<runs, rejected>> /\ (mu' = mu \/ mu' = NoCaller)
    BY <1>4 DEF FromCache, HelperPrints
  <2> QED BY <1>1, <2>1, <2>2
<1>5. ASSUME NEW c \in Callers, HelperFails(c) \/ Answered(c) PROVE Begun' /\ Unrejected'
  BY <1>1, <1>5 DEF HelperFails, Answered, Return
<1>6. CASE Tick \/ Finished
  BY <1>1, <1>2, <1>6 DEF Tick, Finished, callerVars
<1>7. ASSUME NEW c \in Callers, Orphaned(c) PROVE Begun' /\ Unrejected'
  BY <1>1, <1>7 DEF Orphaned, callerVars
<1> QED BY <1>2, <1>3, <1>4, <1>5, <1>6, <1>7 DEF Next

\* The two functions of the mapping, under a name.
Stage == [c \in Callers |-> IF pc[c] = "request" THEN "sent"
                           ELSE IF pc[c] \in Waiting THEN "waiting" ELSE "idle"]
Uses == [c \in Callers |-> IF pc[c] = "request" THEN tok[c].run ELSE 0]

\* What a step of one request does to them.
LEMMA Mapped ==
    ASSUME TypeOK, NEW c \in Callers, NEW step,
           pc' = [pc EXCEPT ![c] = step],
           \A d \in Callers : d # c => tok'[d] = tok[d]
    PROVE  /\ step = "idle" => /\ Stage' = [Stage EXCEPT ![c] = "idle"]
                               /\ Uses' = [Uses EXCEPT ![c] = 0]
           /\ step \in Waiting => /\ Stage' = [Stage EXCEPT ![c] = "waiting"]
                                  /\ Uses' = [Uses EXCEPT ![c] = 0]
           /\ step = "request" => /\ Stage' = [Stage EXCEPT ![c] = "sent"]
                                  /\ Uses' = [Uses EXCEPT ![c] = tok'[c].run]
<1>1. \A d \in Callers : pc'[d] = IF d = c THEN step ELSE pc[d]
  BY DEF TypeOK
<1>2. \A d \in Callers : d # c => Stage'[d] = Stage[d] /\ Uses'[d] = Uses[d]
  BY <1>1 DEF Stage, Uses
<1>3. /\ Stage'[c] = IF step = "request" THEN "sent"
                     ELSE IF step \in Waiting THEN "waiting" ELSE "idle"
      /\ Uses'[c] = IF step = "request" THEN tok'[c].run ELSE 0
  BY <1>1 DEF Stage, Uses
<1>4. Stage' = [Stage EXCEPT ![c] = Stage'[c]] /\ Uses' = [Uses EXCEPT ![c] = Uses'[c]]
  <2> DEFINE stage == Stage'[c]
             uses == Uses'[c]
  <2>1. \A d \in Callers : Stage'[d] = [Stage EXCEPT ![c] = stage][d]
    BY <1>2 DEF Stage
  <2>2. \A d \in Callers : Uses'[d] = [Uses EXCEPT ![c] = uses][d]
    BY <1>2 DEF Uses
  <2> QED BY <2>1, <2>2 DEF Stage, Uses
<1> QED BY <1>3, <1>4 DEF Waiting

\* The new token of the cache, or the one in it, reaches the request that called
\* Token, or Authorize, which drops it.
LEMMA HandMaps ==
    ASSUME MapInv, NEW c \in Callers, NEW token, Hand(c, token), UNCHANGED <<runs, rejected>>,
           pc[c] \in {"lock", "run"}, token.run > 0,
           phase[c] = "retry" => token.run > rejected[c]
    PROVE  \/ UNCHANGED <<Stage, Uses>>
           \/ /\ Stage[c] = "waiting" /\ token.run > rejected[c]
              /\ Stage' = [Stage EXCEPT ![c] = "sent"]
              /\ Uses' = [Uses EXCEPT ![c] = token.run]
<1> USE DEF Goto
<1>1. TypeOK /\ Unrejected
  BY DEF MapInv, ExecInv
<1>2. CASE phase[c] = "authorize"
  <2>1. pc' = [pc EXCEPT ![c] = "lock"] /\ tok' = tok
    BY <1>2 DEF Hand
  <2> QED BY <1>1, <2>1 DEF Stage, Uses, Waiting, TypeOK
<1>3. CASE phase[c] # "authorize"
  <2>1. pc' = [pc EXCEPT ![c] = "request"] /\ tok' = [tok EXCEPT ![c] = token]
    BY <1>3 DEF Hand
  <2>2. tok'[c] = token /\ \A d \in Callers : d # c => tok'[d] = tok[d]
    BY <1>1, <2>1 DEF TypeOK
  <2>3. Stage' = [Stage EXCEPT ![c] = "sent"] /\ Uses' = [Uses EXCEPT ![c] = token.run]
    BY <1>1, <2>1, <2>2, Mapped
  <2>4. Stage[c] = "waiting"
    BY DEF Stage, Waiting
  <2>5. token.run > rejected[c]
    BY <1>1, <1>3 DEF Unrejected, TypeOK
  <2> QED BY <2>3, <2>4, <2>5
<1> QED BY <1>2, <1>3

\* Every step of ExecToken is a step of Credential, or leaves its state alone.
LEMMA StepMaps == MapInv /\ [Next]_vars => [Promise!Next]_(Promise!vars)
<1> SUFFICES ASSUME MapInv, [Next]_vars PROVE [Promise!Next]_(Promise!vars)
  OBVIOUS
<1>1. TypeOK /\ Phases /\ Fresh /\ Begun /\ Unrejected /\ runs \in Nat
  BY DEF MapInv, ExecInv, TypeOK, Runs
<1> USE DEF Goto
<1>2. ASSUME UNCHANGED <<runs, mu, cur, pc, tok, rejected>> PROVE UNCHANGED Promise!vars
  BY <1>2 DEF Promise!vars
<1>3. CASE UNCHANGED vars \/ Tick \/ Finished
  BY <1>2, <1>3 DEF vars, callerVars, Tick, Finished
<1>4. ASSUME NEW c \in Callers, Call(c) PROVE Promise!Ask(c)
  <2>1. pc[c] = "idle" /\ pc' = [pc EXCEPT ![c] = "lock"] /\ UNCHANGED <<cur, mu, runs, tok, rejected>>
    BY <1>4 DEF Call
  <2>2. Stage' = [Stage EXCEPT ![c] = "waiting"] /\ Uses' = [Uses EXCEPT ![c] = 0]
    BY <1>1, <2>1, Mapped DEF Waiting
  <2>3. Stage[c] = "idle" /\ Uses[c] = 0
    BY <2>1 DEF Stage, Uses, Waiting
  <2>4. Uses' = Uses
    BY <2>2, <2>3 DEF Uses
  <2> QED BY <2>1, <2>2, <2>3, <2>4 DEF Promise!Ask, Promise!Enter, Stage, Uses
<1>5. ASSUME NEW c \in Callers, FromCache(c) PROVE Promise!Send(c) \/ UNCHANGED Promise!vars
  <2> DEFINE token == [run |-> cur.run, exp |-> cur.exp, at |-> now, cached |-> TRUE]
  <2>1. /\ pc[c] = "lock" /\ mu = NoCaller /\ cur.run # 0 /\ cur.run \in Nat
        /\ Hand(c, token) /\ UNCHANGED <<cur, mu, runs, rejected>>
    BY <1>1, <1>5 DEF FromCache, Usable, TypeOK, Runs
  <2>2. phase[c] = "retry" => token.run > rejected[c]
    BY <1>1, <2>1 DEF Fresh, Discarded
  <2>3. \/ UNCHANGED <<Stage, Uses>>
        \/ /\ Stage[c] = "waiting" /\ cur.run > rejected[c]
           /\ Stage' = [Stage EXCEPT ![c] = "sent"]
           /\ Uses' = [Uses EXCEPT ![c] = cur.run]
    BY <2>1, <2>2, HandMaps
  <2> QED BY <2>1, <2>3 DEF Promise!Send, Promise!SendWith, Promise!Enter, Promise!vars, Stage, Uses
<1>6. ASSUME NEW c \in Callers, RunHelper(c) PROVE Promise!Run
  <2>1. /\ pc[c] = "lock" /\ mu = NoCaller /\ mu' = c /\ runs' = runs + 1
        /\ pc' = [pc EXCEPT ![c] = "run"] /\ UNCHANGED <<cur, tok, rejected>>
    BY <1>6 DEF RunHelper
  <2>2. Stage[c] = "waiting" /\ UNCHANGED <<Stage, Uses>>
    BY <1>1, <2>1 DEF Stage, Uses, Waiting, TypeOK
  <2>3. mu' # NoCaller
    BY <2>1, CallersAssumption
  <2> QED BY <2>1, <2>2, <2>3 DEF Promise!Run, Stage, Uses
<1>7. ASSUME NEW c \in Callers, HelperPrints(c) PROVE Promise!Mint
  <2>1. PICK left \in Lifetimes \cup {Ttl} :
          /\ cur' = Minted(left)
          /\ Hand(c, [run |-> runs, exp |-> now + left, at |-> now, cached |-> FALSE])
    BY <1>7 DEF HelperPrints
  <2>2. /\ pc[c] = "run" /\ mu # NoCaller /\ mu' = NoCaller /\ cur'.run = runs
        /\ UNCHANGED <<runs, rejected>>
    BY <1>1, <1>7, <2>1, CallersAssumption DEF HelperPrints, Minted, TypeOK
  <2>3. runs > 0 /\ (phase[c] = "retry" => runs > rejected[c])
    BY <1>1, <2>2 DEF Begun, Fresh, Discarded
  <2>4. \/ UNCHANGED <<Stage, Uses>>
        \/ /\ Stage[c] = "waiting" /\ runs > rejected[c]
           /\ Stage' = [Stage EXCEPT ![c] = "sent"]
           /\ Uses' = [Uses EXCEPT ![c] = runs]
    BY <2>1, <2>2, <2>3, HandMaps
  <2> QED BY <2>2, <2>4 DEF Promise!Mint, Promise!SendWith, Promise!Enter, Stage, Uses
<1>8. ASSUME NEW c \in Callers, HelperFails(c) \/ Answered(c) PROVE Promise!Fail(c) \/ Promise!Answer(c)
  <2>1. /\ Return(c) /\ UNCHANGED <<cur, runs>>
        /\ \/ pc[c] = "run" /\ mu = c /\ mu' = NoCaller
           \/ pc[c] = "request" /\ mu' = mu
    BY <1>1, <1>8 DEF HelperFails, Answered, TypeOK
  <2>2. /\ pc' = [pc EXCEPT ![c] = "idle"] /\ rejected' = [rejected EXCEPT ![c] = 0]
        /\ \A d \in Callers : d # c => tok'[d] = tok[d]
    BY <1>1, <2>1 DEF Return, TypeOK
  <2>3. Stage' = [Stage EXCEPT ![c] = "idle"] /\ Uses' = [Uses EXCEPT ![c] = 0]
    BY <1>1, <2>2, Mapped DEF Waiting
  <2>4. Stage[c] = IF pc[c] = "request" THEN "sent" ELSE "waiting"
    BY <2>1 DEF Stage, Waiting
  <2> QED BY <2>1, <2>2, <2>3, <2>4, CallersAssumption
          DEF Promise!Fail, Promise!Answer, Promise!Leave, Promise!Enter, Stage, Uses
<1>9. ASSUME NEW c \in Callers, Rejected(c) PROVE Promise!Reject(c)
  <2>1. /\ pc[c] = "request" /\ phase[c] = "first" /\ pc' = [pc EXCEPT ![c] = "invalidate"]
        /\ rejected' = [rejected EXCEPT ![c] = runs] /\ UNCHANGED <<cur, mu, runs, tok>>
    BY <1>9 DEF Rejected
  <2>2. Stage' = [Stage EXCEPT ![c] = "waiting"] /\ Uses' = [Uses EXCEPT ![c] = 0]
    BY <1>1, <2>1, Mapped DEF Waiting
  <2>3. Stage[c] = "sent" /\ rejected[c] = 0
    BY <1>1, <2>1 DEF Stage, Unrejected
  <2> QED BY <2>1, <2>2, <2>3 DEF Promise!Reject, Promise!Enter, Stage, Uses
<1>10. ASSUME NEW c \in Callers, Invalidate(c) PROVE Promise!Discard
  <2>1. /\ pc[c] = "invalidate" /\ mu = NoCaller /\ cur'.run = 0
        /\ pc' = [pc EXCEPT ![c] = "lock"] /\ UNCHANGED <<mu, runs, tok, rejected>>
    BY <1>10 DEF Invalidate, Nil
  <2>2. UNCHANGED <<Stage, Uses>>
    BY <1>1, <2>1 DEF Stage, Uses, Waiting, TypeOK
  <2> QED BY <2>1, <2>2 DEF Promise!Discard, Stage, Uses
<1>11. ASSUME NEW c \in Callers, Orphaned(c) PROVE UNCHANGED Promise!vars
  BY <1>2, <1>11 DEF Orphaned, callerVars
<1> QED BY <1>3, <1>4, <1>5, <1>6, <1>7, <1>8, <1>9, <1>10, <1>11 DEF Next, Promise!Next

\* ExecToken implements Credential, for any number of requests: Token's mutex, cache
\* and leeway (exec.go:78-106) and Authorize's Invalidate (exec.go:132-144) keep its
\* promise.
THEOREM CredentialKept == Spec => ImplementsCredential
<1>1. Spec => []MapInv
  BY MapInit, MapNext, PTL DEF Spec
<1>2. Init => Promise!Init
  BY CallersAssumption DEF Init, Nil, Promise!Init, Waiting
<1>3. Spec => [][Promise!Next]_(Promise!vars)
  BY <1>1, StepMaps, PTL DEF Spec
<1> QED BY <1>2, <1>3, PTL DEF Spec, ImplementsCredential, Promise!Spec
=============================================================================
