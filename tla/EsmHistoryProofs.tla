--------------------------- MODULE EsmHistoryProofs ---------------------------
(* What the ES module loader has run, and in which order, for every value of *)
(* its constants: the theorems about EsmLoader that relate its records and   *)
(* what is on its stack, which EsmLoaderProofs is about, to what has started *)
(* and what has completed.  History is their inductive invariant.            *)
EXTENDS EsmLoaderProofs

----------------------------------------------------------------------------
(* What has run, and what completed. *)

Done(x) == \E i \in DOMAIN started : started[i] = x
Complete(x) == Evaluated(x) /\ ~hasError(x)
Fin(x) == Graph(x) \subseteq finished

\* A module that may yet run has not.
Once ==
  /\ \A x \in Module : records[x].status = "linked" \/ Pending(x) > 0 => ~Done(x)
  /\ \A x \in Busy : ~Done(x)
  /\ \A x \in List : Evaluated(x) \/ ~Done(x)

\* What has run is on the stack, awaits, has completed or has failed.
Single == \A i, j \in 1 .. Size : calls[i].at = "body" /\ calls[j].at = "body" /\ calls[i].m = calls[j].m => i = j
Apart ==
  /\ \A x \in Module : x \in Bodies \/ x \in suspended \/ x \in finished => Done(x)
  /\ Single
  /\ \A x \in Bodies : x \notin suspended /\ x \notin finished
  /\ \A x \in suspended : x \notin finished

\* What was evaluated without an error has completed, or is about to.
EndsIn ==
  /\ \A x \in Module : Complete(x) => x \in finished \/ (~cyclic(x) /\ x \in Bodies)
  /\ \A x \in Module : records[x].status = "evaluating" /\ ~records[x].asyncEvaluation =>
       x \in finished \/ x \in Busy \/ x \in Bodies
  /\ \A x \in Module : records[x].cycleRoot # None /\ ~records[x].asyncEvaluation => Evaluated(x)

\* What waits for a module runs after that has completed, and began to wait later.
Ordered ==
  /\ \A x \in Module : Order(x) <= asyncOrder
  /\ \A a \in Module : \A x \in Parents(a) :
       /\ ~abandoned /\ Done(x) => Complete(a)
       /\ records[x].status = "evaluating" => Pending(x) > 0
       /\ ~records[a].asyncEvaluation => Complete(a)
       /\ records[x].asyncEvaluation => Order(a) < Order(x)
       /\ Orderly(x) => a \in Graph(x)
RootIn == \A x \in Module : records[x].cycleRoot # None /\ Orderly(x) => records[x].cycleRoot \in Graph(x)

\* The requests of x that the evaluate at k has looked at.
LookedAt(k, x) == {i \in DOMAIN requested(x) : \A j : Visits(j, k) /\ calls[j].m = x => i < calls[j].i}

\* What has been looked at is not linked, and is reached; no visit is between.
Looks(k) ==
  \A x \in Members(k) : \A i \in LookedAt(k, x) :
    LET r == requested(x)[i]
    IN  /\ records[r].status # "linked"
        /\ r \in Members(k) =>
             /\ Low(x) <= Index(r)
             /\ \A j : Visits(j, k) => ~(Index(x) < Index(calls[j].m) /\ Index(calls[j].m) <= Index(r))

\* The graph of r has completed, or x waits for its component.
Learnt(x, r) == Fin(r) \/ (cyclic(r) /\ records[r].cycleRoot # None /\ x \in Parents(records[r].cycleRoot))
Learns(k) ==
  \A x \in Members(k) : Orderly(x) =>
    \A i \in LookedAt(k, x) : requested(x)[i] \in Members(k) \/ Learnt(x, requested(x)[i])
Learned ==
  \A x \in Module : records[x].cycleRoot # None /\ Orderly(x) =>
    \A r \in Requests(x) : (records[r].cycleRoot = records[x].cycleRoot /\ x \in Graph(r)) \/ Learnt(x, r)

\* A component whose root completed has completed, with all it requests.
Settled ==
  \A x \in Module : records[x].cycleRoot # None /\ Orderly(x) /\ Complete(records[x].cycleRoot) => Fin(x)

\* The importers of x, theirs, and so on, hold y.
Upward(x, y) == \A S \in SUBSET Module : x \in S /\ (\A q \in S : Parents(q) \subseteq S) => y \in S

\* The visit at j is about to wait for what x is waited for by.
Handing(j, k, x) ==
  /\ calls[j].i <= Len(requested(calls[j].m))
  /\ LET c == requested(calls[j].m)[calls[j].i]
     IN  /\ c \in Members(k) /\ Index(calls[j].m) < Index(c) /\ Index(c) <= Index(x)
         /\ records[c].asyncEvaluation /\ Upward(x, c)
\* A visit waits for what it has found and has not completed.
Chain(k) ==
  \A x \in Members(k) : \A j : Nearest(j, k, x) /\ calls[j].m # x /\ x \notin finished =>
    (Upward(x, calls[j].m) /\ Pending(calls[j].m) > 0) \/ Handing(j, k, x)
Chained == \A x \in Module : records[x].cycleRoot # None /\ x \notin finished => Upward(x, records[x].cycleRoot)

\* A module fails with what the body of a module of its graph threw.
Errors ==
  \A x \in Module : hasError(x) =>
    LET e == records[x].error
    IN  /\ Done(e) /\ e \notin finished /\ e \notin suspended /\ e \notin Bodies
        /\ Orderly(x) => e \in Graph(x)

\* What an import learns.
Caps ==
  /\ \A x \in Module :
       /\ Cap(x) = "rejected" => hasError(x)
       /\ Orderly(x) /\ Cap(x) = "fulfilled" /\ ~abandoned => Fin(x)
       /\ Orderly(x) /\ Cap(x) # "none" /\ records[x].cycleRoot # None => records[x].cycleRoot = x
       /\ Orderly(x) /\ Cap(x) # "none" /\ records[x].status \in {"linked", "evaluating"} =>
            \E k \in Evaluations : calls[k].m = x
  /\ \A k \in Evaluations : Cap(calls[k].m) # "none"

Way(k) == Looks(k) /\ (~abandoned => Learns(k)) /\ Chain(k)
Histories == Once /\ Apart /\ EndsIn
Ways == \A k \in Evaluations : Way(k)
Components == (~abandoned => Learned /\ Settled) /\ Chained

----------------------------------------------------------------------------
(* What closes is the visit on top, of a module that its evaluate has entered. *)
LEMMA CloseTop ==
  ASSUME Close
  PROVE  /\ InEvaluation /\ ~Idle /\ Top.at = "inner" /\ ~On("body")
         /\ TypeOK /\ Shaped /\ Trees => Top.m \in Members(Base) /\ Top = calls[Size]
<1>1. ~Idle /\ Top.at = "inner"
  BY DEF Close, On
<1>2. InEvaluation /\ ~On("body")
  BY <1>1 DEF InEvaluation, Resumed, On
<1> QED BY <1>1, <1>2, TopVisit

----------------------------------------------------------------------------
(* What no step takes back. *)

Ahead ==
  /\ program' = program /\ tangled \subseteq tangled' /\ finished \subseteq finished' /\ (abandoned => abandoned')
  /\ \A x \in Module :
       /\ records'[x].status = "linked" => records[x].status = "linked"
       /\ records'[x].status = "evaluating" => records[x].status \in {"linked", "evaluating"}
       /\ Evaluated(x) => Evaluated(x)'
       /\ hasError(x) => hasError(x)'
       /\ cyclic(x) /\ Complete(x) => Complete(x)'
       /\ records[x].cycleRoot # None => records'[x].cycleRoot = records[x].cycleRoot
       /\ Parents(x) \subseteq Parents(x)'
       /\ Done(x) => Done(x)'
       /\ Cap(x) # "none" => Cap(x)' # "none"

LEMMA DoneRules ==
  ASSUME TypeOK
  PROVE  /\ started' = started => \A x : Done(x)' <=> Done(x)
         /\ \A m \in Module : started' = Append(started, m) => \A x : Done(x)' <=> Done(x) \/ x = m
<1>1. ASSUME NEW m \in Module, started' = Append(started, m), NEW x
      PROVE  Done(x)' <=> Done(x) \/ x = m
  <2>1. started \in Seq(Module)
    BY DEF TypeOK
  <2>2. PICK n \in Nat : n = Len(started) /\ DOMAIN started = 1 .. n
    BY <2>1, LenProperties
  <2>3. DOMAIN started' = 1 .. n + 1 /\ started'[n + 1] = m /\ \A i \in 1 .. n : started'[i] = started[i]
    BY <1>1, <2>1, <2>2, AppendProperties
  <2> QED BY <2>2, <2>3 DEF Done
<1> QED BY <1>1 DEF Done

LEMMA AheadSame ==
  ASSUME TypeOK, program' = program, tangled \subseteq tangled', finished \subseteq finished',
         abandoned => abandoned',
         started' = started \/ \E m \in Module : started' = Append(started, m), SameState,
         \A x \in Module : records'[x].asyncParentModules = records[x].asyncParentModules,
         \A x \in Module : Cap(x) # "none" => Cap(x)' # "none"
  PROVE  Ahead
<1>1. \A x \in Module : Done(x) => Done(x)'
  BY DoneRules
<1> QED BY <1>1 DEF Ahead, SameState, Evaluated, hasError, Complete, Parents

(* A step that makes modules fail, or one succeed. *)
Ending(F) ==
  /\ F \subseteq Module /\ \A x \in F : ~cyclic(x) \/ ~Evaluated(x)
  /\ \A x \in Module :
       /\ records'[x].status = IF x \in F THEN "evaluated" ELSE records[x].status
       /\ hasError(x) => hasError(x)'
       /\ x \notin F => (hasError(x)' <=> hasError(x))
       /\ records'[x].cycleRoot = records[x].cycleRoot
       /\ records'[x].asyncParentModules = records[x].asyncParentModules
       /\ Cap(x) # "none" => Cap(x)' # "none"
LEMMA AheadEnds ==
  ASSUME TypeOK, Rooted, program' = program, tangled' = tangled, finished \subseteq finished', abandoned' = abandoned,
         started' = started, NEW F, Ending(F)
  PROVE  Ahead
<1>1. \A x \in Module : Done(x) => Done(x)'
  BY DoneRules
<1> QED BY <1>1 DEF Ahead, Evaluated, Complete, Parents, Ending

LEMMA AheadRuntime ==
  ASSUME Inv, program' = program, Runtime
  PROVE  Ahead
<1>1. TypeOK /\ Shaped /\ Rooted /\ Trees /\ Waiters /\ Countable /\ Skeleton
  BY ReadyHolds DEF Inv, Skeleton, Counts, Ready
<1>2. CASE Enter
  <2>1. \A x \in Module : Done(x) => Done(x)'
    BY <1>1, <1>2, DoneRules DEF Enter, bodies
  <2>2. PICK c : c = Callee /\ records[c].status = "linked"
    BY <1>1, <1>2, EnterFacts
  <2>3. \A x \in Module :
         /\ records'[x].status = IF x = c THEN "evaluating" ELSE records[x].status
         /\ records'[x].error = records[x].error
         /\ records'[x].cycleRoot = records[x].cycleRoot
         /\ records'[x].asyncParentModules = records[x].asyncParentModules
         /\ Cap(x)' = Cap(x)
    BY <1>1, <1>2, <2>2, EnterFacts DEF SameWaits, SameCaps
  <2>4. \A x \in Module :
         /\ records'[x].status = "linked" => records[x].status = "linked"
         /\ records'[x].status = "evaluating" => records[x].status \in {"linked", "evaluating"}
         /\ Evaluated(x) => Evaluated(x)'
         /\ hasError(x)' <=> hasError(x)
         /\ records'[x].cycleRoot = records[x].cycleRoot
         /\ Parents(x)' = Parents(x)
    BY <2>2, <2>3 DEF Evaluated, hasError, Parents
  <2>5. finished' = finished /\ tangled' = tangled /\ abandoned' = abandoned
    BY <1>2 DEF Enter, bodies, history
  <2> QED BY <2>1, <2>3, <2>4, <2>5 DEF Ahead, Complete
<1>3. CASE EnterSynthetic
  <2>1. PICK c \in Module : c = Callee /\ ~cyclic(c) /\ started' = Append(started, c)
    BY <1>1, <1>3, EnterSyntheticFacts, CalleeType
  <2>2. \A x \in Module : Done(x) => Done(x)'
    BY <1>1, <2>1, DoneRules
  <2> QED BY <1>1, <1>3, <2>1, <2>2, EnterSyntheticFacts DEF Ahead, EnterSynthetic, history, SameWaits,
     SameCaps, Evaluated, hasError, Complete, Parents
<1>4. CASE Rethrow
  <2>1. PICK F : F = Failed /\ F \subseteq Module /\ \A x \in F : ~cyclic(x) \/ ~Evaluated(x)
    BY <1>1, <1>4, RethrowFacts, FailedRules DEF Evaluated
  <2>2. Ending(F)
    BY <1>1, <1>4, <2>1, RethrowFacts, EsmAssumption DEF SameWaits, hasError, Ending
  <2> QED BY <1>1, <1>4, <2>2, AheadEnds DEF Rethrow, bodies, history
<1>5. CASE Depend
  <2>1. PICK m \in Module, r \in Module : m = Top.m /\ r = Awaited(Callee)
    BY <1>1, <1>5, DependFacts
  <2>2. \A x \in Module : Parents(x) \subseteq Parents(x)'
    <3>2. \A x \in Module : records'[x].asyncParentModules = records[x].asyncParentModules
                            \/ records'[x].asyncParentModules = Append(records[x].asyncParentModules, m)
      BY <1>1, <1>5, <2>1, DependFacts
    <3>3. \A x \in Module : records[x].asyncParentModules \in Seq(Module)
      BY <1>1, RecordsType
    <3>4. ASSUME NEW x \in Module PROVE Parents(x) \subseteq Parents(x)'
      <4>1. PICK q \in Seq(Module) : q = records[x].asyncParentModules
        BY <3>3
      <4>2. PICK a : a = records'[x].asyncParentModules
        OBVIOUS
      <4>3. DOMAIN q \subseteq DOMAIN a /\ \A i \in DOMAIN q : a[i] = q[i]
        BY <3>2, <4>1, <4>2, AppendProperties
      <4> QED BY <4>1, <4>2, <4>3 DEF Parents
    <3> QED BY <3>4
  <2>3. \A x \in Module : Done(x) => Done(x)'
    BY <1>1, <1>5, DoneRules DEF Depend, bodies
  <2> QED BY <1>1, <1>5, <2>2, <2>3, DependFacts DEF Ahead, Depend, bodies, history, SameState, SameCaps,
     Evaluated, hasError, Complete
<1>6. CASE Execute \/ EvaluateAsync
  <2>1. Top.m \in Module
    BY <1>1, <1>6, ExecuteFacts, EvaluateAsyncFacts, LookedFacts
  <2> QED BY <1>1, <1>6, <2>1, ExecuteFacts, EvaluateAsyncFacts, AheadSame
     DEF Execute, EvaluateAsync, history, SameWaits, SameCaps
<1>7. CASE Close /\ Low(Top.m) = Index(Top.m)
  <2>1. \A x \in Module : Done(x) => Done(x)'
    BY <1>1, <1>7, DoneRules DEF Close, bodies
  <2>2. \A x \in Closing : records[x].status = "evaluating" /\ records[x].cycleRoot = None
    BY <1>1, MembersType, Bases, ClosingFacts, <1>7, CloseFacts DEF Closing, Trees, Tree, Numbered, Rooted
  <2>3. PICK C : C = Closing
    OBVIOUS
  <2>4. \A x \in Module :
         /\ records'[x].status = IF x \in C THEN IF records[x].asyncEvaluation THEN "evaluating-async" ELSE "evaluated"
                                ELSE records[x].status
         /\ records'[x].error = records[x].error
         /\ x \notin C => records'[x].cycleRoot = records[x].cycleRoot
         /\ records'[x].asyncParentModules = records[x].asyncParentModules
         /\ Cap(x)' = Cap(x)
    BY <1>1, <1>7, <2>3, ClosingFacts DEF SameWaits, SameCaps
  <2> QED BY <1>1, <1>7, <2>1, <2>2, <2>3, <2>4 DEF Ahead, Close, bodies, history, Evaluated, hasError,
     Complete, Parents
<1>8. CASE Close /\ Low(Top.m) # Index(Top.m)
  <2>1. Top.m \in Members(Base)
    BY <1>1, <1>8, CloseTop
  <2> QED BY <1>1, <1>8, <2>1, CloseFacts, AheadSame DEF Close, bodies, history, SameWaits, SameCaps
<1>9. CASE Conclude
  BY <1>1, <1>9, ConcludeFacts, AheadSame DEF Conclude, bodies, history, SameWaits
<1>10. CASE Gather
  <2>1. /\ SameState
        /\ \A x \in Module : records'[x].asyncParentModules = records[x].asyncParentModules
        /\ SameCaps /\ (abandoned => abandoned')
    <3>1. PICK p : p = Head(Top.todo)
      OBVIOUS
    <3>2. CASE records' = records
      BY <1>1, <1>10, <3>2, SameRecords DEF SameWaits, Gather
    <3>3. p \notin Top.list /\ records[p].cycleRoot # None => Pending(p) > 0
      BY <1>1, <1>10, <3>1 DEF Countable, Gather
    <3>4. /\ SameState /\ SameCaps
          /\ \A x \in Module : records'[x].asyncParentModules = records[x].asyncParentModules
      BY <1>1, <1>10, <3>1, <3>2, <3>3, GatherFacts, SameRecords DEF SameWaits
    <3> QED BY <1>10, <3>4 DEF Gather
  <2> QED BY <1>1, <1>10, <2>1, AheadSame DEF Gather, bodies, SameCaps
<1>11. CASE ExecuteGathered \/ SkipGathered \/ Completed
  <2>1. records' = records /\ (started' = started \/ \E m \in Module : started' = Append(started, m))
    BY <1>1, <1>11, RunGatheredFacts DEF SkipGathered, Completed, bodies
  <2> QED BY <1>1, <1>11, <2>1, AheadSame, SameRecords DEF ExecuteGathered, SkipGathered, Completed, bodies,
     history, SameWaits, SameCaps
<1> QED BY <1>2, <1>3, <1>4, <1>5, <1>6, <1>7, <1>8, <1>9, <1>10, <1>11 DEF Runtime

LEMMA AheadHolds ==
  ASSUME Inv, Next
  PROVE  Ahead
<1>1. TypeOK /\ Shaped /\ Rooted /\ Trees /\ Waiters /\ Skeleton /\ program' = program
  BY ProgramStays DEF Inv, Skeleton, Counts
<1>2. ASSUME NEW m \in Module, Import(m) \/ requireModule(m)
      PROVE  Ahead
  <2>1. evaluate(m) /\ tangled \subseteq tangled'
    BY <1>2 DEF Import, requireModule
  <2> QED BY <1>1, <2>1, evaluateFacts, AheadSame DEF evaluate, bodies, SameWaits
<1>3. ASSUME NEW m \in Module, records' = Rejected(m), finished' = finished, started' = started,
             tangled' = tangled, abandoned' = abandoned
      PROVE  Ahead
  <2>1. PICK F : F = Dependents(m) /\ F \subseteq Module /\ \A x \in F : ~Evaluated(x)
    BY <1>1, DependentRules
  <2>2. Ending(F)
    BY <1>1, <1>3, <2>1, RejectedFacts, EsmAssumption DEF SameWaits, hasError, Ending
  <2> QED BY <1>1, <1>3, <2>2, AheadEnds
<1>4. ASSUME NEW m \in Module, records' = Fulfilled(records, m), ~Evaluated(m), finished \subseteq finished',
             started' = started, tangled' = tangled, abandoned' = abandoned
      PROVE  Ahead
  <2>1. Ending({m})
    BY <1>1, <1>4, FulfilledFacts DEF SameWaits, hasError, Ending
  <2> QED BY <1>1, <1>4, <2>1, AheadEnds
<1>5. ASSUME NEW m \in Module, Settles(m)
      PROVE  Ahead
  BY <1>1, <1>3, <1>4, <1>5, SettledFacts, AheadSame, SameRecords
     DEF Settles, asyncModuleExecutionFulfilled, asyncModuleExecutionRejected, bodies, history, SameWaits,
     SameCaps
<1>6. CASE BodyThrows
  <2>1. CASE Resumed
    BY <1>1, <1>3, <1>6, <2>1, ThrowFacts DEF BodyThrows, bodies, history
  <2>2. CASE ~Resumed
    <3>1. InEvaluation /\ Unwind(Top.m) /\ Top.m \in Module
      BY <1>1, <1>6, <2>2, ThrowFacts
    <3>2. PICK F : F = Failed /\ F \subseteq Module /\ \A x \in F : ~cyclic(x) \/ ~Evaluated(x)
      BY <1>1, <3>1, FailedRules DEF Evaluated
    <3>3. Ending(F)
      BY <1>1, <3>1, <3>2, UnwindFacts, EsmAssumption DEF SameWaits, hasError, Ending
    <3> QED BY <1>1, <1>6, <3>3, AheadEnds DEF BodyThrows, bodies, history
  <2> QED BY <2>1, <2>2
<1>7. CASE BodyReturns \/ BodySuspends
  <2>1. CASE BodyReturns /\ Resumed
    <3>1. Top.m \in Module /\ ~Evaluated(Top.m)
      BY <1>1, <2>1, BodyFacts, ReadyHolds DEF Ready, Inv, Evaluated, BodyReturns
    <3> QED BY <1>1, <1>4, <2>1, <3>1, ReturnFacts DEF BodyReturns, history
  <2>2. CASE BodySuspends \/ ~Resumed
    BY <1>1, <1>7, <2>2, ReturnFacts, SuspendFacts, SameRecords, AheadSame
       DEF BodyReturns, BodySuspends, history, SameWaits, SameCaps
  <2> QED BY <1>7, <2>1, <2>2
<1> QED BY <1>1, <1>2, <1>5, <1>6, <1>7, AheadRuntime DEF Next, Ends

----------------------------------------------------------------------------
(* The bodies on the stack. *)

(* Between the last evaluate and the top there are visits. *)
LEMMA BodyTop ==
  ASSUME TypeOK, Shaped, InEvaluation
  PROVE  \A j \in Base + 1 .. Size - 1 : calls[j].at = "inner"
<1>1. PICK b \in Nat, s \in Nat : b = Base /\ s = Size /\ b \in 1 .. s /\ DOMAIN calls = 1 .. s
  BY Bases, CallsType
<1>2. \A j \in b + 1 .. s : calls[j].at # "evaluate"
  BY <1>1, Bases
<1>3. ASSUME NEW j \in b + 1 .. s - 1
      PROVE  calls[j].at = "inner"
  <2>1. PICK n \in Nat : n = j + 1 /\ n \in DOMAIN calls /\ n > 1 /\ n - 1 = j /\ n \in b + 1 .. s
        /\ j \in DOMAIN calls /\ j # 1
    BY <1>1
  <2>2. Follows(n) /\ calls[n].at # "evaluate" /\ calls[n - 1].at # "evaluate" /\ calls[n - 1].at # "completion"
    BY <1>1, <1>2, <2>1 DEF Shaped, ShapedAt
  <2> QED BY <2>1, <2>2 DEF Follows
<1> QED BY <1>1, <1>3

LEMMA BodiesKept ==
  ASSUME TypeOK, Single, calls' \in Seq(Call), NEW q, Keeps(q), NEW s, s = Size,
         \A j \in q + 1 .. s - 1 : calls[j].at # "body",
         Size' = q \/ (Size' = q + 1 /\ (calls'[q + 1].at = "body" => calls'[q + 1].m \in Module \ Bodies))
  PROVE  /\ Single'
         /\ \A x \in Module : x \in Bodies' <=>
              \/ x \in Bodies /\ ~(q < s /\ Top.at = "body" /\ x = Top.m)
              \/ Size' = q + 1 /\ calls'[q + 1].at = "body" /\ x = calls'[q + 1].m
         /\ Bodies \subseteq Module /\ Bodies' \subseteq Module
<1>1. PICK f : f = calls
  OBVIOUS
<1>2. PICK g : g = calls'
  OBVIOUS
<1>3. PICK t \in Nat : t = Size' /\ (t = q \/ t = q + 1)
  BY LenProperties DEF Size
<1>4. /\ s \in Nat /\ q \in Nat /\ q <= s
      /\ \A j \in 1 .. q : g[j].at = f[j].at /\ g[j].m = f[j].m
      /\ Top = f[s]
      /\ \A j \in q + 1 .. s - 1 : f[j].at # "body"
  BY <1>1, <1>2, CallsType DEF Keeps, Size, Top
<1>5. \A i, j \in 1 .. s : f[i].at = "body" /\ f[j].at = "body" /\ f[i].m = f[j].m => i = j
  BY <1>1 DEF Single
<1>6. \A x \in Module : x \in Bodies <=> \E j \in 1 .. s : f[j].at = "body" /\ f[j].m = x
  BY <1>1 DEF Bodies
<1>7. \A x \in Module : x \in Bodies' <=> \E j \in 1 .. t : g[j].at = "body" /\ g[j].m = x
  BY <1>2, <1>3 DEF Bodies
<1>8. t = q + 1 /\ g[t].at = "body" => g[t].m \in Module /\ \A j \in 1 .. s : ~(f[j].at = "body" /\ f[j].m = g[t].m)
  BY <1>2, <1>3, <1>4, <1>6
<1>9. \A i, j \in 1 .. t : g[i].at = "body" /\ g[j].at = "body" /\ g[i].m = g[j].m => i = j
  <2>1. ASSUME NEW i \in 1 .. t, NEW j \in 1 .. t, g[i].at = "body", g[j].at = "body", g[i].m = g[j].m, i < j
        PROVE  FALSE
    <3>1. i \in 1 .. q /\ i \in 1 .. s /\ f[i].at = "body" /\ f[i].m = g[i].m
      BY <1>3, <1>4, <2>1
    <3>2. CASE j \in 1 .. q
      BY <1>4, <1>5, <2>1, <3>1, <3>2
    <3> QED BY <1>3, <1>4, <1>8, <2>1, <3>1, <3>2
  <2>2. \A i, j \in 1 .. t : i < j \/ j < i \/ i = j
    BY <1>3
  <2> QED BY <2>1, <2>2
<1>10. ASSUME NEW x \in Module
       PROVE  x \in Bodies' <=> \/ x \in Bodies /\ ~(q < s /\ Top.at = "body" /\ x = Top.m)
                                \/ t = q + 1 /\ g[q + 1].at = "body" /\ x = g[q + 1].m
  <2>1. ASSUME NEW j \in 1 .. t, g[j].at = "body", g[j].m = x, j \in 1 .. q
        PROVE  x \in Bodies /\ ~(q < s /\ Top.at = "body" /\ x = Top.m)
    <3>1. j \in 1 .. s /\ f[j].at = "body" /\ f[j].m = x
      BY <1>4, <2>1
    <3>2. q < s => s \in 1 .. s /\ s # j
      BY <1>4, <2>1
    <3> QED BY <1>4, <1>5, <1>6, <3>1, <3>2
  <2>2. ASSUME NEW j \in 1 .. s, f[j].at = "body", f[j].m = x, ~(q < s /\ Top.at = "body" /\ x = Top.m)
        PROVE  x \in Bodies'
    <3>1. j \in 1 .. q /\ j \in 1 .. t
      BY <1>3, <1>4, <2>2
    <3> QED BY <1>4, <1>7, <2>2, <3>1
  <2>3. t = q + 1 => t \in 1 .. t
    BY <1>3, <1>4
  <2>4. \A j \in 1 .. t : j \in 1 .. q \/ (t = q + 1 /\ j = q + 1)
    BY <1>3, <1>4
  <2> QED BY <1>6, <1>7, <2>1, <2>2, <2>3, <2>4
<1> QED BY <1>2, <1>3, <1>9, <1>10 DEF Single, Bodies

(* A step that neither starts nor ends a body. *)
LEMMA BodiesStay ==
  ASSUME Inv, Single, program' = program,
         \/ \E m \in Module : Import(m) \/ requireModule(m) \/ Settles(m)
         \/ Enter \/ Rethrow \/ Depend \/ (EvaluateAsync /\ Pending(Top.m) > 0) \/ Close \/ Conclude
         \/ Gather \/ SkipGathered \/ Completed
  PROVE  Single' /\ Bodies' = Bodies
<1>1. TypeOK /\ Shaped /\ Rooted /\ Trees /\ Skeleton /\ Countable
  BY ReadyHolds DEF Inv, Skeleton, Ready
<1>2. PICK s \in Nat : s = Size
  BY <1>1, CallsType
<1>3. ASSUME calls' \in Seq(Call), Keeps(s), Size' = s \/ (Size' = s + 1 /\ calls'[s + 1].at # "body")
      PROVE  Single' /\ Bodies' = Bodies
  <2>1. \A x \in Module : x \in Bodies' <=> x \in Bodies
    BY <1>1, <1>2, <1>3, BodiesKept
  <2> QED BY <1>1, <1>2, <1>3, <2>1, BodiesKept DEF Bodies
<1>4. ASSUME calls' \in Seq(Call), NEW q, Keeps(q), Size' = q, ~On("body"),
             \A j \in q + 1 .. s - 1 : calls[j].at # "body"
      PROVE  Single' /\ Bodies' = Bodies
  <2>1. q < s => s > 0 /\ Top.at # "body"
    BY <1>1, <1>2, <1>4, CallsType DEF On, Keeps
  <2>2. q # q + 1
    BY <1>4, CallsType DEF Keeps
  <2>3. /\ Single' /\ Bodies \subseteq Module /\ Bodies' \subseteq Module
        /\ \A x \in Module : x \in Bodies' <=>
             \/ x \in Bodies /\ ~(q < s /\ Top.at = "body" /\ x = Top.m)
             \/ Size' = q + 1 /\ calls'[q + 1].at = "body" /\ x = calls'[q + 1].m
    BY <1>1, <1>2, <1>4, BodiesKept
  <2>4. \A x \in Module : x \in Bodies' <=> x \in Bodies
    BY <1>4, <2>1, <2>2, <2>3
  <2> QED BY <2>3, <2>4
<1>5. ASSUME NEW m \in Module, Import(m) \/ requireModule(m)
      PROVE  Single' /\ Bodies' = Bodies
  <2>1. evaluate(m)
    BY <1>5 DEF Import, requireModule
  <2>2. PICK f \in Call : f = Frame("evaluate", Root(m)) /\ f.at = "evaluate" /\ Grows(f) /\ Typed
    BY <1>1, <2>1, evaluateFacts, FrameType
  <2> QED BY <1>1, <1>2, <1>3, <2>2, KeepsRules DEF Grows, Typed
<1>6. CASE Enter
  BY <1>1, <1>2, <1>3, <1>6, ShapedEnter, EnterFacts, CalleeType, FrameType DEF Typed
<1>7. CASE Rethrow
  <2>1. InEvaluation /\ Cuts(Base) /\ Typed /\ ~On("body")
    BY <1>1, <1>7, RethrowFacts DEF Looking, On
  <2>2. PICK b \in Nat : b = Base /\ b \in 1 .. s /\ b - 1 \in Nat
    BY <1>1, <1>2, <2>1, Bases
  <2>3. \A j \in b .. s - 1 : calls[j].at # "body"
    BY <1>1, <1>2, <2>1, <2>2, BodyTop, Bases DEF Evaluations
  <2> QED BY <1>1, <1>2, <1>4, <2>1, <2>2, <2>3, KeepsRules DEF Typed
<1>8. CASE Depend
  BY <1>1, <1>2, <1>3, <1>8, ShapedDepend, DependFacts DEF Typed, Turns
<1>9. CASE EvaluateAsync /\ Pending(Top.m) > 0
  BY <1>1, <1>2, <1>3, <1>9, ShapedRuns, EvaluateAsyncFacts DEF Typed, Turns
<1>10. CASE Close
  <2>1. Top.m \in Members(Base) /\ ~On("body")
    BY <1>1, <1>10, CloseTop
  <2>2. Typed /\ Keeps(s - 1) /\ s > 0
    BY <1>1, <1>2, <1>10, <2>1, CloseFacts, ShapedClose, CallsType
  <2>3. Size' = s - 1
    BY <1>1, <1>2, <1>10, <2>1, CloseFacts DEF Shrinks
  <2> QED BY <1>2, <1>4, <2>1, <2>2, <2>3 DEF Typed
<1>11. CASE Conclude \/ Completed
  <2>1. Shrinks /\ Typed /\ ~On("body")
    BY <1>1, <1>11, ConcludeFacts, CompletedFacts DEF On
  <2> QED BY <1>1, <1>2, <1>4, <2>1, KeepsRules DEF Typed
<1>12. CASE Gather \/ SkipGathered
  <2>1. Typed /\ Bodies = {} /\ Size' < 2 /\ (Size' = 1 => calls'[1].at = "completion")
    <3>1. /\ On("completion") /\ Size = 1 /\ Top \in Call /\ Top.at = "completion" /\ Bodies = {}
      BY <1>1, <1>12, CompletionFacts, StackSmall DEF Gather, SkipGathered, Gathered
    <3>2. CASE SkipGathered
      BY <1>1, <3>1, <3>2, SkipFacts DEF Turns
    <3>3. CASE Gather
      <4>1. PICK p : p = Head(Top.todo)
        OBVIOUS
      <4>2. p \notin Top.list /\ records[p].cycleRoot # None => Pending(p) > 0
        BY <1>1, <3>3, <4>1 DEF Countable, Gather
      <4>3. Typed /\ (Shrinks \/ \E f \in Call : f.at = "completion" /\ Turns(f))
        BY <1>1, <3>1, <3>3, <4>1, <4>2, GatherFacts DEF Turns, Call
      <4> QED BY <3>1, <4>3 DEF Turns, Shrinks
    <3> QED BY <1>12, <3>2, <3>3
  <2>2. Size' \in Nat
    BY <2>1, LenProperties DEF Typed, Size
  <2> QED BY <2>1, <2>2 DEF Bodies, Single
<1>13. ASSUME NEW m \in Module, Settles(m)
       PROVE  Single' /\ Bodies' = Bodies
  <2>1. Idle /\ Size = 0 /\ Size' < 2 /\ (Size' = 1 => calls'[1].at = "completion") /\ calls' \in Seq(Call)
    <3>1. Idle /\ Size = 0 /\ calls \in Seq(Call)
      BY <1>1, <1>13, CallsType DEF Settles, asyncModuleExecutionRejected, asyncModuleExecutionFulfilled
    <3>2. calls' = calls \/ (Size' = 1 /\ calls'[1].at = "completion" /\ calls' \in Seq(Call))
      BY <1>1, <1>13, SettledFacts DEF Settles, asyncModuleExecutionRejected, Typed
    <3>3. CASE calls' = calls
      BY <3>1, <3>3 DEF Size
    <3> QED BY <3>1, <3>2, <3>3
  <2>2. Size' \in Nat
    BY <2>1, LenProperties DEF Size
  <2> QED BY <2>1, <2>2 DEF Bodies, Single
<1> QED BY <1>5, <1>6, <1>7, <1>8, <1>9, <1>10, <1>11, <1>12, <1>13

(* A step that starts the body of m. *)
Starts(m) ==
  \/ EnterSynthetic /\ m = Callee
  \/ Execute /\ m = Top.m
  \/ EvaluateAsync /\ Pending(Top.m) = 0 /\ m = Top.m
  \/ ExecuteGathered /\ m = First
LEMMA BodiesStart ==
  ASSUME Inv, Single, program' = program, NEW m \in Module, m \notin Bodies, Starts(m)
  PROVE  Single' /\ Bodies' = Bodies \cup {m} /\ started' = Append(started, m)
<1>1. TypeOK /\ Shaped /\ Rooted /\ Trees /\ Skeleton
  BY DEF Inv, Skeleton
<1>2. PICK s \in Nat : s = Size
  BY <1>1, CallsType
<1>3. PICK f \in Call : f = Frame("body", m) /\ f.at = "body" /\ f.m = m
  BY FrameType
<1>4. ASSUME calls' \in Seq(Call), Keeps(s), Size' = s + 1, calls'[s + 1] = f
      PROVE  Single' /\ Bodies' = Bodies \cup {m}
  <2>1. \A x \in Module : x \in Bodies' <=> x \in Bodies \/ x = m
    BY <1>1, <1>2, <1>3, <1>4, BodiesKept
  <2> QED BY <1>1, <1>2, <1>3, <1>4, <2>1, BodiesKept DEF Bodies
<1>5. CASE EnterSynthetic /\ m = Callee
  BY <1>1, <1>2, <1>3, <1>4, <1>5, EnterSyntheticFacts, KeepsRules DEF Typed, Grows
<1>6. CASE (Execute \/ (EvaluateAsync /\ Pending(Top.m) = 0)) /\ m = Top.m
  <2>1. Looked /\ Typed /\ Runs(Step(Top), f) /\ started' = Append(started, m)
    BY <1>1, <1>3, <1>6, ExecuteFacts, EvaluateAsyncFacts
  <2> QED BY <1>1, <1>2, <1>3, <1>4, <1>6, <2>1, ShapedRuns DEF Typed, Runs
<1>7. CASE ExecuteGathered /\ m = First
  <2>1. Typed /\ Runs(Left, f) /\ started' = Append(started, m) /\ Left.at = Top.at /\ Left.m = Top.m
    BY <1>1, <1>3, <1>7, RunGatheredFacts DEF On
  <2> QED BY <1>1, <1>2, <1>3, <1>4, <2>1, KeepsRules DEF Typed, Runs
<1> QED BY <1>5, <1>6, <1>7 DEF Starts

(* A step that ends the body on top. *)
LEMMA BodiesEnd ==
  ASSUME Inv, Single, program' = program, Ends
  PROVE  Single' /\ Bodies' = Bodies \ {Top.m} /\ Top.m \in Bodies /\ started' = started
<1>1. TypeOK /\ Shaped /\ Rooted /\ Trees /\ Skeleton
  BY DEF Inv, Skeleton
<1>2. PICK s \in Nat : s = Size
  BY <1>1, CallsType
<1>3. On("body") /\ s > 1 /\ Top = calls[s] /\ Top.at = "body" /\ Top.m \in Module
  BY <1>1, <1>2, BodyFacts DEF Ends, BodyReturns, BodySuspends, BodyThrows
<1>4. Top.m \in Bodies
  BY <1>2, <1>3 DEF Bodies
<1>5. ASSUME calls' \in Seq(Call), NEW q, Keeps(q), Size' = q, q < s, \A j \in q + 1 .. s - 1 : calls[j].at # "body"
      PROVE  Single' /\ Bodies' = Bodies \ {Top.m}
  <2>1. q \in Nat /\ q # q + 1
    BY <1>5 DEF Keeps
  <2>2. \A x \in Module : x \in Bodies' <=> x \in Bodies /\ x # Top.m
    BY <1>1, <1>2, <1>3, <1>5, <2>1, BodiesKept
  <2> QED BY <1>1, <1>2, <1>3, <1>5, <2>1, <2>2, BodiesKept DEF Bodies
<1>6. started' = started
  BY DEF Ends, BodyReturns, BodySuspends, BodyThrows, bodies
<1>7. CASE Shrinks /\ Typed
  BY <1>1, <1>2, <1>3, <1>4, <1>5, <1>6, <1>7, KeepsRules DEF Typed
<1>8. CASE InEvaluation /\ Unwind(Top.m) /\ Typed /\ BodyThrows
  <2>1. PICK b \in Nat : b = Base /\ b \in 1 .. s /\ b - 1 \in Nat
    BY <1>1, <1>2, <1>8, Bases
  <2>2. Cuts(b)
    BY <1>1, <1>3, <1>8, <2>1, UnwindFacts
  <2>3. \A j \in b .. s - 1 : calls[j].at # "body"
    BY <1>1, <1>2, <1>8, <2>1, BodyTop, Bases DEF Evaluations
  <2>4. Keeps(b - 1) /\ Size' = b - 1 /\ calls' \in Seq(Call)
    BY <1>1, <1>8, <2>2, KeepsRules DEF Typed
  <2> QED BY <1>4, <1>5, <1>6, <2>1, <2>3, <2>4
<1> QED BY <1>1, <1>7, <1>8, ReturnFacts, SuspendFacts, ThrowFacts DEF Ends

----------------------------------------------------------------------------
(* A module in evaluation has no body on the stack but the one on top. *)
LEMMA BodyBelow ==
  ASSUME TypeOK, Skeleton, Marks, InEvaluation, NEW x \in Members(Base), x \in Bodies
  PROVE  On("body") /\ Top.m = x
<1>1. Shaped /\ Trees
  BY DEF Skeleton
<1>2. PICK b \in Nat, s \in Nat : b = Base /\ s = Size /\ b \in 1 .. s /\ DOMAIN calls = 1 .. s /\ b \in Evaluations
  BY <1>1, Bases, CallsType
<1>3. cyclic(x) /\ records[x].status = "evaluating" /\ x \in Module
  BY <1>1, <1>2, MembersType DEF Trees, Tree, Numbered
<1>4. PICK j \in 1 .. s : calls[j].at = "body" /\ calls[j].m = x
  BY <1>2 DEF Bodies
<1>5. ASSUME j < b
      PROVE  FALSE
  <2>1. PICK n \in Nat : n = j - 1 /\ n \in 1 .. s /\ j > 1 /\ n < b
    BY <1>1, <1>2, <1>4, <1>5 DEF Shaped, ShapedAt
  <2>2. Follows(j)
    BY <1>1, <1>2, <2>1 DEF Shaped, ShapedAt
  <2>3. CASE calls[n].at = "inner" /\ calls[n].m = x
    <3>1. PICK k \in Evaluations : Visits(n, k) /\ x \in Members(k)
      BY <1>1, <1>2, <2>1, <2>3, OwnVisit
    <3>2. k # b
      BY <1>2, <2>1, <3>1, CallsType DEF Visits, In
    <3> QED BY <1>1, <1>2, <3>1, <3>2 DEF Trees
  <2>4. CASE calls[n].at = "completion"
    <3>1. n = 1 /\ j = 2
      BY <1>1, <1>2, <2>1, <2>4 DEF Shaped, ShapedAt
    <3>2. x \in Running
      BY <1>2, <1>3, <1>4, <2>4, <3>1, CallsType DEF Running, Completing
    <3> QED BY <1>3, <3>2 DEF Marks
  <2> QED BY <1>3, <1>4, <2>1, <2>2, <2>3, <2>4 DEF Follows
<1>6. j # b
  BY <1>2, <1>4 DEF Evaluations
<1>7. j = s
  BY <1>1, <1>2, <1>4, <1>5, <1>6, BodyTop
<1> QED BY <1>2, <1>4, <1>7, CallsType DEF On

----------------------------------------------------------------------------
(* What a step leaves of the modules that may yet run. *)
Stays ==
  /\ \A x \in Busy' : x \in Busy \/ records[x].status = "linked"
  /\ \A x \in Busy : x \in Busy' \/ records'[x].status # "evaluating" \/ records'[x].asyncEvaluation
  /\ \A x \in List' : x \in List \/ Pending(x) > 0
  /\ \A x \in Module : Pending(x)' > 0 => Pending(x) > 0 \/ x \in Busy

LEMMA StaysQuiet ==
  ASSUME TypeOK, SameWaits, Busy' \subseteq Busy, Busy \subseteq Busy', List' = List
  PROVE  Stays
BY DEF Stays, SameWaits

LEMMA StaysRuntime ==
  ASSUME Inv, Inv', program' = program,
         \/ \E m \in Module : Import(m) \/ requireModule(m)
         \/ Enter \/ Rethrow \/ Depend \/ (EvaluateAsync /\ Pending(Top.m) > 0) \/ Close \/ Conclude
  PROVE  Stays
<1>1. TypeOK /\ Shaped /\ Rooted /\ Trees /\ Skeleton /\ Waiters
  BY DEF Inv, Skeleton, Counts
<1>2. ASSUME NEW m \in Module, Import(m) \/ requireModule(m)
      PROVE  Stays
  <2>1. evaluate(m) /\ (Idle \/ On("body"))
    BY <1>2 DEF Import, requireModule
  <2> QED BY <1>1, <2>1, evaluateFacts, StackEvaluate, StaysQuiet DEF SameCompletion
<1>3. CASE Enter
  BY <1>1, <1>3, EnterFacts, StackEnter DEF Stays, SameCompletion, SameWaits
<1>4. CASE Rethrow
  <2>1. /\ InEvaluation /\ Cuts(Base) /\ Typed /\ SameWaits
        /\ \A x \in Failed : records'[x].status = "evaluated"
    BY <1>1, <1>4, RethrowFacts, FailedRules
  <2>2. Members(Base) \subseteq Failed
    BY <1>1, <2>1, FailedRules
  <2> QED BY <1>1, <2>1, <2>2, StackCut DEF Stays, SameCompletion, SameWaits, Typed
<1>5. CASE Depend
  <2>1. PICK f \in Call : f = Step(Top) /\ Turns(f) /\ f.at = Top.at /\ f.m = Top.m /\ f.i = Top.i + 1
    BY <1>1, <1>5, DependFacts, CalleeType, StepType
  <2>2. /\ Typed /\ InEvaluation /\ Top.at = "inner" /\ Top.m \in Module /\ Top.i \in 1 .. Len(requested(Top.m))
        /\ Size \in Nat /\ Size > 0 /\ Top = calls[Size]
    BY <1>1, <1>5, DependFacts, CalleeType
  <2>3. Len(requested(Top.m)) \in Nat
    BY <1>1, <2>2, ProgramType
  <2>4. Busy' = Busy /\ List' = List
    BY <1>1, <2>1, <2>2, <2>3, StackTurn DEF Typed, SameCompletion
  <2>5. Top.m \in Busy
    BY <2>2, <2>3 DEF Busy
  <2>6. \A x \in Module : Pending(x)' = Pending(x) \/ x = Top.m
    BY <1>1, <1>5, DependFacts
  <2> QED BY <2>4, <2>5, <2>6 DEF Stays
<1>6. CASE EvaluateAsync /\ Pending(Top.m) > 0
  BY <1>1, <1>6, EvaluateAsyncFacts, StackRuns, LookedFacts DEF Stays, SameCompletion, SameWaits, Typed
<1>7. CASE Close /\ Low(Top.m) = Index(Top.m)
  BY <1>1, <1>7, ClosingFacts, StackClose, StaysQuiet DEF SameCompletion
<1>8. CASE Close /\ Low(Top.m) # Index(Top.m)
  <2>1. Top.m \in Members(Base)
    BY <1>1, <1>8, CloseTop
  <2> QED BY <1>1, <1>8, <2>1, CloseFacts, StackPop, StaysQuiet DEF SameCompletion, Typed
<1>9. CASE Conclude
  BY <1>1, <1>9, ConcludeFacts, StackPop, StaysQuiet, CalleeType DEF SameCompletion, Typed, On
<1> QED BY <1>2, <1>3, <1>4, <1>5, <1>6, <1>7, <1>8, <1>9

LEMMA StaysCompletion ==
  ASSUME Inv, Inv', program' = program, Gather \/ SkipGathered \/ Completed \/ \E m \in Module : Settles(m)
  PROVE  Stays
<1>1. TypeOK /\ Shaped /\ Rooted /\ Trees /\ Skeleton /\ Countable
  BY ReadyHolds DEF Inv, Skeleton, Ready
<1>2. ASSUME NEW m \in Module, Settles(m)
      PROVE  Stays
  <2>1. Busy' = {} /\ Busy = {} /\ List' = {} /\ SameWaits
    <3>1. Idle /\ Size = 0 /\ Busy = {} /\ List = {}
      BY <1>1, <1>2, CallsType, StackSmall DEF Settles, asyncModuleExecutionRejected,
         asyncModuleExecutionFulfilled
    <3>2. calls' = calls => Size' = 0 /\ calls' \in Seq(Call)
      BY <1>1, <3>1, CallsType DEF Size
    <3>3. calls' = calls \/ (calls' \in Seq(Call) /\ Alone(calls'[1]) /\ calls'[1].list = {})
      BY <1>1, <1>2, SettledFacts DEF Settles, asyncModuleExecutionRejected, Typed, Alone
    <3>4. SameWaits
      BY <1>1, <1>2, SettledFacts, SameRecords, FulfilledFacts, RejectedFacts
         DEF Settles, asyncModuleExecutionRejected
    <3> QED BY <3>1, <3>2, <3>3, <3>4, StackNext
  <2> QED BY <2>1 DEF Stays, SameWaits
<1>3. CASE SkipGathered \/ Completed
  <2>1. Busy' = {} /\ Busy = {} /\ List' \subseteq List /\ records' = records
    <3>1. On("completion") /\ Size = 1 /\ Busy = {} /\ List = Top.list
      BY <1>1, <1>3, StackSmall, CompletionFacts DEF SkipGathered, Completed, Gathered
    <3>2. Typed /\ records' = records
          /\ (Shrinks \/ (Turns(Left) /\ Left.at = "completion" /\ Left.list \subseteq Top.list))
      BY <1>1, <1>3, SkipFacts, CompletedFacts
    <3>3. Size' = 0 \/ (Alone(Left) /\ Left.list \subseteq Top.list)
      BY <3>1, <3>2 DEF Turns, Alone, Shrinks
    <3> QED BY <3>1, <3>2, <3>3, StackNext DEF Typed
  <2> QED BY <1>1, <2>1, SameRecords DEF Stays, SameWaits
<1>4. CASE Gather
  <2>1. PICK p : p = Head(Top.todo)
    OBVIOUS
  <2>2. On("completion") /\ Size = 1 /\ Top \in Call /\ Top.at = "completion" /\ Busy = {} /\ List = Top.list
        /\ Todo = Top.todo /\ Top.todo # <<>>
    BY <1>1, <1>4, StackSmall, CompletionFacts DEF Gather
  <2>3. p \in Module /\ Pending(p) > 0 /\ Pending(p) \in Nat
    BY <1>1, <1>4, <2>1, <2>2, GatherHead, RecordsType DEF Inv
  <2>4. PICK f : /\ Typed /\ (Shrinks \/ (Turns(f) /\ f.at = "completion" /\ f.list \subseteq Top.list \cup {p}))
                 /\ \A x \in Module : Pending(x)' = Pending(x) \/ x = p
    <3>1. CASE records' = records
      <4>1. Typed /\ (Shrinks \/ \E f \in Call : Turns(f) /\ f.at = "completion" /\ f.list \subseteq Top.list \cup {p})
        BY <1>1, <1>4, <2>1, <2>2, <2>3, GatherFacts DEF Turns, Call
      <4> QED BY <1>1, <3>1, <4>1, SameRecords DEF SameWaits
    <3>2. CASE records' # records
      <4>1. Typed /\ (\E f \in Call : Turns(f) /\ f.at = "completion" /\ f.list \subseteq Top.list \cup {p})
            /\ \A x \in Module : Pending(x)' = IF x = p THEN Pending(x) - 1 ELSE Pending(x)
        BY <1>1, <1>4, <2>1, <2>2, <2>3, <3>2, GatherFacts DEF Turns, Call
      <4> QED BY <4>1
    <3> QED BY <3>1, <3>2
  <2>5. Size' = 0 \/ Alone(f)
    BY <2>2, <2>4 DEF Turns, Alone, Shrinks
  <2>6. Busy' = {} /\ \A x \in List' : x \in List \/ x = p
    <3>1. f.list \subseteq Top.list \cup {p} \/ Size' = 0
      BY <2>2, <2>4 DEF Shrinks
    <3> QED BY <2>2, <2>4, <2>5, <3>1, StackNext DEF Typed
  <2> QED BY <2>2, <2>3, <2>4, <2>6 DEF Stays
<1> QED BY <1>2, <1>3, <1>4

LEMMA StaysEnds ==
  ASSUME Inv, Inv', program' = program, Ends
  PROVE  Stays
<1>1. TypeOK /\ Shaped /\ Rooted /\ Trees /\ Skeleton /\ Skeleton' /\ Waiters
  BY DEF Inv, Skeleton, Counts
<1>2. On("body")
  BY DEF Ends, BodyReturns, BodySuspends, BodyThrows
<1>3. CASE Resumed
  <2>1. Shrinks /\ Typed /\ SameWaits
    BY <1>1, <1>3, ReturnFacts, SuspendFacts, ThrowFacts, FulfilledFacts, RejectedFacts, SameRecords,
       BodyFacts DEF Ends
  <2>2. Busy = {} /\ Busy' = {} /\ List' = List
    BY <1>1, <1>2, <1>3, <2>1, ResumedEnds, StackSmall DEF Typed, Quiet
  <2> QED BY <1>1, <2>1, <2>2, StaysQuiet
<1>4. CASE ~Resumed /\ BodyThrows
  <2>1. InEvaluation /\ Unwind(Top.m) /\ Top.m \in Module
    BY <1>1, <1>4, ThrowFacts
  <2>2. /\ Cuts(Base) /\ Typed /\ SameWaits
        /\ \A x \in Failed : records'[x].status = "evaluated"
        /\ Members(Base) \subseteq Failed
    BY <1>1, <2>1, UnwindFacts, FailedRules
  <2> QED BY <1>1, <2>1, <2>2, StackCut DEF Stays, SameCompletion, SameWaits, Typed
<1>5. CASE ~Resumed /\ ~BodyThrows
  <2>1. Shrinks /\ Typed /\ SameWaits /\ InEvaluation /\ Top.at = "body"
    BY <1>1, <1>2, <1>5, ReturnFacts, SuspendFacts, SameRecords, BodyFacts DEF Ends
  <2> QED BY <1>1, <2>1, StackPop, StaysQuiet DEF SameCompletion, Typed
<1> QED BY <1>3, <1>4, <1>5

----------------------------------------------------------------------------
(* A body that starts has not run. *)
LEMMA StartsFresh ==
  ASSUME Inv, Inv', program' = program, Once, NEW m, Starts(m)
  PROVE  /\ m \in Module /\ ~Done(m) /\ Busy' \subseteq Busy /\ m \notin Busy'
         /\ \A x \in Busy : x \in Busy' \/ x = m
         /\ List' \subseteq List /\ (m \in List' => Evaluated(m)') /\ SameWaits /\ Pending(m) = 0
         /\ records'[m].status # "linked" /\ suspended' = suspended /\ finished' = finished
<1>1. TypeOK /\ Shaped /\ Rooted /\ Trees /\ Skeleton /\ Fresh /\ Marks
  BY DEF Inv, Skeleton, Counts
<1>2. CASE EnterSynthetic /\ m = Callee
  <2>1. /\ m \in Module /\ ~cyclic(m) /\ ~Evaluated(m) /\ InEvaluation /\ Typed /\ SameWaits
        /\ Grows(Frame("body", m)) /\ Frame("body", m) \in Call /\ Frame("body", m).at = "body"
           /\ Frame("body", m).m = m
        /\ Evaluated(m)' /\ records'[m].status = "evaluated"
    BY <1>1, <1>2, EnterSyntheticFacts, CalleeType, FrameType DEF Evaluated
  <2>2. Busy' = Busy /\ List' = List
    BY <1>1, <2>1, StackPush DEF Typed, SameCompletion
  <2>3. records[m].status = "linked"
    BY <1>1, <2>1 DEF Rooted, Evaluated
  <2>4. m \notin Busy
    BY <1>1, <2>1, CallsType DEF Busy, Shaped, ShapedAt
  <2> QED BY <1>1, <1>2, <2>1, <2>2, <2>3, <2>4 DEF Once, Fresh, EnterSynthetic
<1>3. CASE (Execute \/ (EvaluateAsync /\ Pending(Top.m) = 0)) /\ m = Top.m
  <2>1. Looked /\ Typed /\ Runs(Step(Top), Frame("body", m)) /\ SameWaits /\ m \in Module /\ Pending(m) = 0
        /\ SameState
    BY <1>1, <1>3, ExecuteFacts, EvaluateAsyncFacts, LookedFacts
  <2>2. Busy' = Busy \ {m} /\ m \in Busy /\ List' = List
    BY <1>1, <1>3, <2>1, StackRuns DEF Typed, SameCompletion
  <2>3. InEvaluation /\ Top.at = "inner"
    BY <2>1, <1>1, LookedFacts
  <2>4. records[m].status = "evaluating"
    BY <1>1, <1>3, <2>3, TopVisit DEF Trees, Tree, Numbered
  <2>5. m \notin List
    BY <1>1, <2>1, <2>4 DEF Marks, Rooted
  <2> QED BY <1>3, <2>1, <2>2, <2>4, <2>5 DEF Once, Execute, EvaluateAsync, SameState
<1>4. CASE ExecuteGathered /\ m = First
  <2>1. On("completion") /\ m \in Module /\ m \in Top.list /\ ~Evaluated(m) /\ Typed /\ records' = records
        /\ Runs(Left, Frame("body", m)) /\ Left.at = "completion" /\ Left.list = Top.list \ {m} /\ Size = 1
    BY <1>1, <1>4, RunGatheredFacts, FirstFacts, CompletionFacts
  <2>2. Both(Left, m)
    BY <2>1, FrameType DEF Runs, Both
  <2>3. Busy = {} /\ List = Top.list /\ Busy' = {} /\ List' = Top.list \ {m}
    BY <1>1, <2>1, <2>2, StackSmall, StackNext DEF Typed
  <2>4. Pending(m) = 0 /\ records[m].status # "linked" /\ ~Done(m)
    BY <1>1, <2>1, <2>3 DEF Marks, Rooted, Once
  <2> QED BY <1>1, <1>4, <2>1, <2>3, <2>4, SameRecords DEF ExecuteGathered
<1> QED BY <1>2, <1>3, <1>4 DEF Starts

LEMMA HistoriesStarts ==
  ASSUME Inv, Inv', Ahead, Histories, NEW m, Starts(m)
  PROVE  Once' /\ Apart' /\ m \in Module /\ ~Done(m) /\ started' = Append(started, m) /\ Bodies' = Bodies \cup {m}
<1>1. program' = program /\ TypeOK /\ TypeOK'
  BY DEF Ahead, Inv
<1>2. /\ m \in Module /\ ~Done(m) /\ Busy' \subseteq Busy /\ m \notin Busy'
      /\ List' \subseteq List /\ (m \in List' => Evaluated(m)') /\ SameWaits /\ Pending(m) = 0
      /\ records'[m].status # "linked" /\ suspended' = suspended /\ finished' = finished
  BY <1>1, StartsFresh DEF Histories
<1>3. m \notin Bodies
  BY <1>2 DEF Histories, Apart
<1>4. Single' /\ Bodies' = Bodies \cup {m} /\ started' = Append(started, m)
  BY <1>1, <1>2, <1>3, BodiesStart DEF Histories, Apart
<1>5. \A x : Done(x)' <=> Done(x) \/ x = m
  BY <1>1, <1>2, <1>4, DoneRules
<1>6. Once'
  <2>1. \A x \in Module : (records'[x].status = "linked" => records[x].status = "linked")
        /\ Pending(x)' = Pending(x) /\ (Evaluated(x) => Evaluated(x)')
    BY <1>2 DEF Ahead, SameWaits
  <2>2. Busy \subseteq Module /\ List \subseteq Module
    BY <1>1, CompletionType DEF Busy
  <2> QED BY <1>2, <1>5, <2>1, <2>2 DEF Histories, Once
<1>7. Apart'
  BY <1>2, <1>4, <1>5 DEF Histories, Apart
<1> QED BY <1>2, <1>4, <1>6, <1>7

LEMMA OnceKept ==
  ASSUME TypeOK, TypeOK', Ahead, Once, started' = started, Stays
  PROVE  Once'
<1>1. \A x : Done(x)' <=> Done(x)
  BY DoneRules
<1>2. Busy \subseteq Module /\ Busy' \subseteq Module
  BY DEF Busy
<1>3. List \subseteq Module
  BY CompletionType
<1>4. List' \subseteq Module
  <2>1. calls' \in Seq(Call)
    BY DEF TypeOK, Call
  <2>2. ~(calls' = <<>>) => calls'[1] \in Call
    BY <2>1
  <2> QED BY <2>2 DEF List, Completing, Idle, Call
<1> QED BY <1>1, <1>2, <1>3, <1>4 DEF Once, Stays, Ahead

(* A body that ends, and what settles. *)
LEMMA ApartKept ==
  ASSUME TypeOK, Ahead, Apart, started' = started, Single', Bodies' \subseteq Bodies,
         suspended' \subseteq Module, finished' \subseteq Module,
         \A x \in suspended' : x \in suspended \/ (x \in Bodies /\ x \notin Bodies'),
         \A x \in finished' : x \in finished \/ (x \notin suspended' /\ x \notin Bodies' /\ x \in Bodies \cup suspended)
  PROVE  Apart'
<1>1. \A x : Done(x)' <=> Done(x)
  BY DoneRules
<1> QED BY <1>1 DEF Apart

LEMMA OnceApartStep ==
  ASSUME Inv, Inv', Next, Ahead, Histories
  PROVE  Once' /\ Apart'
<1>1. program' = program /\ TypeOK /\ TypeOK' /\ Single /\ Shaped /\ Once /\ Apart
  BY DEF Ahead, Inv, Histories, Apart, Skeleton
<1>2. CASE \E m : Starts(m)
  BY <1>2, HistoriesStarts
<1>3. CASE \/ \E m \in Module : Import(m) \/ requireModule(m)
           \/ Enter \/ Rethrow \/ Depend \/ (EvaluateAsync /\ Pending(Top.m) > 0) \/ Close \/ Conclude
           \/ Gather \/ SkipGathered \/ Completed
  <2>1. started' = started /\ suspended' = suspended /\ finished' = finished
    BY <1>1, <1>3, EvaluateAsyncFacts DEF Import, requireModule, evaluate, Enter, Rethrow, Depend,
       EvaluateAsync, Close, Conclude, Gather, SkipGathered, Completed, bodies
  <2>2. Single' /\ Bodies' = Bodies /\ Stays
    BY <1>1, <1>3, BodiesStay, StaysRuntime, StaysCompletion
  <2> QED BY <1>1, <2>1, <2>2, OnceKept, ApartKept DEF TypeOK
<1>4. ASSUME NEW m \in Module, Settles(m)
      PROVE  Once' /\ Apart'
  <2>1. /\ started' = started /\ m \in suspended /\ suspended' = suspended \ {m}
        /\ finished' = finished \/ finished' = finished \cup {m}
        /\ Bodies = {}
    BY <1>1, <1>4, StackSmall DEF Settles, asyncModuleExecutionRejected, asyncModuleExecutionFulfilled
  <2>2. Single' /\ Bodies' = Bodies /\ Stays
    BY <1>1, <1>4, BodiesStay, StaysCompletion
  <2> QED BY <1>1, <2>1, <2>2, OnceKept, ApartKept DEF TypeOK
<1>5. CASE Ends
  <2>1. Single' /\ Bodies' = Bodies \ {Top.m} /\ Top.m \in Bodies /\ started' = started /\ Stays
    BY <1>1, <1>5, BodiesEnd, StaysEnds
  <2>2. /\ finished' = finished \/ (finished' = finished \cup {Top.m} /\ suspended' = suspended)
        /\ suspended' = suspended \/ (suspended' = suspended \cup {Top.m} /\ finished' = finished)
    BY <1>5 DEF Ends, BodyReturns, BodySuspends, BodyThrows, bodies
  <2>3. Top.m \notin suspended /\ Top.m \notin finished
    BY <1>1, <2>1 DEF Apart
  <2> QED BY <1>1, <2>1, <2>2, <2>3, OnceKept, ApartKept DEF TypeOK
<1>6. EvaluateAsync => Pending(Top.m) > 0 \/ Pending(Top.m) = 0
  BY <1>1, RecordsType, EvaluateAsyncFacts, LookedFacts
<1> QED BY <1>2, <1>3, <1>4, <1>5, <1>6 DEF Next, Runtime, Starts

----------------------------------------------------------------------------
LEMMA EndsKept ==
  ASSUME TypeOK, Ahead, EndsIn,
         \A x \in Module : Complete(x)' => Complete(x) \/ x \in finished' \/ (~cyclic(x) /\ x \in Bodies'),
         \A x \in Bodies : x \in Bodies' \/ x \in finished' \/ hasError(x)'
                             \/ (cyclic(x) /\ (records'[x].status # "evaluating" \/ records'[x].asyncEvaluation)),
         \A x \in Busy : x \in Busy' \/ x \in Bodies' \/ records'[x].status # "evaluating" \/ records'[x].asyncEvaluation,
         \A x \in Module :
           /\ records'[x].status = "evaluating" /\ ~records'[x].asyncEvaluation =>
                (records[x].status = "evaluating" /\ ~records[x].asyncEvaluation) \/ x \in Busy'
           /\ records'[x].cycleRoot # None /\ ~records'[x].asyncEvaluation =>
                Evaluated(x)' \/ (records[x].cycleRoot # None /\ ~records[x].asyncEvaluation),
         \A x \in Module : hasError(x)' => Evaluated(x)'
  PROVE  EndsIn'
<1>1. \A x : cyclic(x)' = cyclic(x)
  BY ProgramKept DEF Ahead
<1> QED BY <1>1 DEF EndsIn, Ahead, Complete, Evaluated

----------------------------------------------------------------------------
(* What a step does to the records. *)
Still == SameState /\ SameIndex /\ SameAsync /\ SameWaits
Closes == Close /\ Low(Top.m) = Index(Top.m)
\* An exception e of the last evaluate
Throws(e) == /\ InEvaluation /\ Unwind(e) /\ suspended' = suspended /\ finished' = finished
             /\ \/ Rethrow /\ e = ErrorOf(Callee)
                \/ BodyThrows /\ ~Resumed /\ e = Top.m
\* A module that awaited completes or fails.
Succeeds(m) ==
  /\ Quiet /\ records[m].status = "evaluating-async" /\ Pending(m) = 0
  /\ records' = Fulfilled(records, m) /\ m \in finished' /\ m \in Bodies \cup suspended
Fails(m) ==
  /\ Quiet /\ Pending(m) = 0 /\ records' = Rejected(m)
  /\ m \in Bodies \cup suspended /\ m \notin Bodies' /\ finished' = finished
                 /\ (m \in Bodies \/ m \notin suspended') /\ suspended' \subseteq suspended
\* A completion counts for p.
CountsFor(p) == /\ Gather /\ Quiet /\ SameState /\ SameIndex /\ SameAsync
                /\ \A x \in Module : /\ Pending(x)' = IF x = p THEN Pending(x) - 1 ELSE Pending(x)
                                     /\ records'[x].asyncParentModules = records[x].asyncParentModules

LEMMA KindsSettle ==
  ASSUME Inv, Inv', NEW m \in Module, Settles(m)
  PROVE  Still \/ Succeeds(m) \/ Fails(m)
<1>1. TypeOK /\ Shaped /\ Rooted /\ Skeleton /\ Skeleton' /\ Marks /\ Ready
  BY ReadyHolds DEF Inv, Skeleton, Counts
<1>2. Idle /\ m \in suspended /\ Pending(m) = 0 /\ (Evaluated(m) \/ records[m].status = "evaluating-async")
  BY <1>1 DEF Settles, asyncModuleExecutionRejected, asyncModuleExecutionFulfilled, Marks, Ready
<1>3. calls' \in Seq(Call) /\ (Size' = 0 \/ \E f : Alone(f))
  <2>1. calls' = calls => calls' \in Seq(Call) /\ Size' = 0
    BY <1>1, <1>2, CallsType DEF Size
  <2>2. calls' # calls => calls' \in Seq(Call) /\ Alone(calls'[1])
    BY <1>1, SettledFacts DEF Settles, asyncModuleExecutionRejected, Typed, Alone
  <2> QED BY <2>1, <2>2
<1>4. Quiet
  BY <1>1, <1>2, <1>3, QuietSteps
<1>5. CASE asyncModuleExecutionRejected(m)
  <2>1. Bodies' = {}
    BY <1>3, StackNext
  <2> QED BY <1>2, <1>4, <1>5, <2>1 DEF asyncModuleExecutionRejected, Fails
<1>6. CASE asyncModuleExecutionFulfilled(m)
  BY <1>1, <1>2, <1>4, <1>6, SettledFacts, SameRecords DEF Succeeds, Still
<1> QED BY <1>5, <1>6 DEF Settles

LEMMA KindsGather ==
  ASSUME Inv, Inv', Gather
  PROVE  Still \/ \E p \in Module : CountsFor(p)
<1>1. TypeOK /\ Shaped /\ Rooted /\ Skeleton /\ Skeleton'
  BY DEF Inv, Skeleton
<1>2. PICK p : p = Head(Top.todo)
  OBVIOUS
<1>3. On("completion") /\ Size = 1 /\ Top.todo # <<>> /\ Todo = Top.todo /\ p \in Module /\ Pending(p) > 0
  BY <1>1, <1>2, CompletionFacts, GatherHead DEF Gather, Inv
<1>4. CASE records' = records
  BY <1>1, <1>4, SameRecords DEF Still
<1>5. CASE records' # records
  <2>1. /\ Typed /\ SameState /\ SameIndex /\ SameAsync
        /\ \A x \in Module : /\ Pending(x)' = IF x = p THEN Pending(x) - 1 ELSE Pending(x)
                             /\ records'[x].asyncParentModules = records[x].asyncParentModules
    BY <1>1, <1>2, <1>3, <1>5, GatherFacts
  <2>2. \E f \in Call : Turns(f) /\ f.at = "completion"
    BY <1>1, <1>2, <1>3, <1>5, GatherFacts, CompletionFacts DEF Turns, Call
  <2>3. \E f : Alone(f)
    BY <1>3, <2>2 DEF Turns, Alone
  <2>4. Quiet
    BY <1>1, <1>3, <2>1, <2>3, QuietSteps DEF Typed
  <2> QED BY <1>3, <2>1, <2>4 DEF CountsFor
<1> QED BY <1>4, <1>5

LEMMA KindsEnds ==
  ASSUME Inv, Inv', Ends
  PROVE  Still \/ (\E m \in Module : Succeeds(m) \/ Fails(m)) \/ \E e \in Module : Throws(e)
<1>1. TypeOK /\ Shaped /\ Rooted /\ Skeleton /\ Skeleton' /\ Marks
  BY DEF Inv, Skeleton, Counts
<1>2. On("body") /\ Top.m \in Module
  BY <1>1, BodyFacts DEF Ends, BodyReturns, BodySuspends, BodyThrows
<1>3. CASE Resumed
  <2>1. records[Top.m].status = "evaluating-async" /\ Pending(Top.m) = 0 /\ Top.m \in Bodies
    BY <1>1, <1>2, <1>3, StackSmall DEF Marks
  <2>2. Typed /\ Shrinks
    BY <1>1, <1>3, ReturnFacts, SuspendFacts, ThrowFacts DEF Ends
  <2>3. Quiet /\ Bodies' = {}
    BY <1>1, <1>2, <1>3, <2>2, ResumedEnds DEF Typed
  <2>4. CASE BodyReturns
    BY <1>1, <1>2, <1>3, <2>1, <2>3, <2>4 DEF BodyReturns, Succeeds
  <2>5. CASE BodySuspends
    BY <1>1, <2>5, SuspendFacts, SameRecords DEF Still
  <2>6. CASE BodyThrows
    BY <1>1, <1>2, <1>3, <2>1, <2>3, <2>6 DEF BodyThrows, Fails, bodies
  <2> QED BY <2>4, <2>5, <2>6 DEF Ends
<1>4. CASE ~Resumed
  <2>1. CASE BodyThrows
    BY <1>1, <1>2, <1>4, <2>1, ThrowFacts DEF Throws, BodyThrows, bodies
  <2>2. CASE ~BodyThrows
    BY <1>1, <1>4, <2>2, ReturnFacts, SuspendFacts, SameRecords DEF Still, Ends
  <2> QED BY <2>1, <2>2
<1> QED BY <1>3, <1>4

LEMMA Kinds ==
  ASSUME Inv, Inv', Next
  PROVE  \/ Still \/ Enter \/ EnterSynthetic \/ Depend \/ EvaluateAsync \/ Closes
         \/ \E m \in Module : Throws(m) \/ Succeeds(m) \/ Fails(m) \/ CountsFor(m)
<1>1. TypeOK /\ Shaped /\ Rooted /\ Trees /\ Skeleton /\ program' = program
  BY ProgramStays DEF Inv, Skeleton
<1>2. ASSUME NEW m \in Module, Import(m) \/ requireModule(m)
      PROVE  Still
  BY <1>1, <1>2, evaluateFacts DEF Import, requireModule, Still
<1>3. CASE Rethrow
  <2>1. ErrorOf(Callee) \in Module /\ InEvaluation
    BY <1>1, <1>3, RethrowFacts
  <2> QED BY <1>3, <2>1 DEF Throws, Rethrow, bodies
<1>4. CASE Execute \/ ExecuteGathered \/ SkipGathered \/ Completed
  BY <1>1, <1>4, ExecuteFacts, RunGatheredFacts, SkipFacts, CompletedFacts, SameRecords DEF Still
<1>5. CASE Conclude
  BY <1>1, <1>5, ConcludeFacts DEF Still
<1>6. CASE Close /\ Low(Top.m) # Index(Top.m)
  <2>1. Top.m \in Members(Base)
    BY <1>1, <1>6, CloseTop
  <2> QED BY <1>1, <1>6, <2>1, CloseFacts DEF Still
<1>7. ASSUME NEW m \in Module, Settles(m)
      PROVE  Still \/ Succeeds(m) \/ Fails(m)
  BY <1>7, KindsSettle
<1>8. CASE Ends
  BY <1>8, KindsEnds
<1>9. CASE Gather
  BY <1>9, KindsGather
<1> QED BY <1>2, <1>3, <1>4, <1>5, <1>6, <1>7, <1>8, <1>9 DEF Next, Runtime, Closes

----------------------------------------------------------------------------
(* The body on top of a visit is that of the visit, or of a CommonJS module. *)
LEMMA BodyOwner ==
  ASSUME TypeOK, Skeleton, On("body"), ~Resumed
  PROVE  cyclic(Top.m) => Top.m \in Members(Base) /\ calls[Size - 1].at = "inner" /\ calls[Size - 1].m = Top.m
                          /\ Visits(Size - 1, Base)
<1>1. TypeOK /\ Shaped /\ Trees /\ InEvaluation /\ Size \in Nat /\ Size > 1 /\ Top = calls[Size]
      /\ Top.at = "body" /\ Top.m \in Module
  BY BodyFacts DEF Skeleton
<1>2. ASSUME cyclic(Top.m)
      PROVE  calls[Size - 1].at = "inner" /\ calls[Size - 1].m = Top.m
  <2>1. Follows(Size)
    BY <1>1, CallsType DEF Shaped, ShapedAt
  <2>2. calls[Size - 1].at # "completion"
    BY <1>1 DEF InEvaluation, Resumed, Size, On
  <2> QED BY <1>1, <1>2, <2>1, <2>2 DEF Follows
<1>3. ASSUME cyclic(Top.m)
      PROVE  Visits(Size - 1, Base)
  <2>1. Base \in Evaluations /\ Base \in 1 .. Size /\ Base # Size - 1 /\ Base # Size
    BY <1>1, <1>2, <1>3, Regions DEF Evaluations
  <2>2. Size - 1 \in Base + 1 .. Size
    BY <1>1, <2>1
  <2> QED BY <1>1, <1>2, <1>3, <2>2, Regions DEF Visits
<1>4. ASSUME cyclic(Top.m)
      PROVE  Top.m \in Members(Base)
  BY <1>1, <1>2, <1>3, <1>4, Regions DEF Trees, Tree, Visited
<1> QED BY <1>2, <1>3, <1>4

LEMMA EndsBusy ==
  ASSUME Inv, Inv', Next, Ahead, Histories
  PROVE  \A x \in Busy : x \in Busy' \/ x \in Bodies' \/ records'[x].status # "evaluating" \/ records'[x].asyncEvaluation
<1>1. program' = program /\ TypeOK /\ Once
  BY DEF Ahead, Inv, Histories
<1>2. CASE \E m : Starts(m)
  BY <1>1, <1>2, StartsFresh, HistoriesStarts
<1>3. CASE Stays
  BY <1>3 DEF Stays
<1>4. CASE ~ \E m : Starts(m)
  <2>1. EvaluateAsync => Pending(Top.m) > 0 \/ Pending(Top.m) = 0
    BY <1>1, RecordsType, EvaluateAsyncFacts, LookedFacts
  <2>2. Stays
    BY <1>1, <1>4, <2>1, StaysRuntime, StaysCompletion, StaysEnds DEF Next, Runtime, Starts
  <2> QED BY <1>3, <2>2
<1> QED BY <1>2, <1>4

LEMMA EndsBodies ==
  ASSUME Inv, Inv', Next, Ahead, Histories
  PROVE  \A x \in Bodies : x \in Bodies' \/ x \in finished' \/ hasError(x)'
                             \/ (cyclic(x) /\ (records'[x].status # "evaluating" \/ records'[x].asyncEvaluation))
<1>1. program' = program /\ TypeOK /\ Single /\ Shaped /\ Skeleton /\ Marks
  BY DEF Ahead, Inv, Histories, Apart, Skeleton, Counts
<1>2. CASE \E m : Starts(m)
  BY <1>2, HistoriesStarts
<1>3. CASE ~(\E m : Starts(m)) /\ ~Ends
  <2>1. EvaluateAsync => Pending(Top.m) > 0 \/ Pending(Top.m) = 0
    BY <1>1, RecordsType, EvaluateAsyncFacts, LookedFacts
  <2>2. Bodies' = Bodies
    BY <1>1, <1>3, <2>1, BodiesStay DEF Next, Runtime, Starts
  <2> QED BY <2>2
<1>4. CASE Ends
  <2>1. Bodies' = Bodies \ {Top.m} /\ Top.m \in Bodies
    BY <1>1, <1>4, BodiesEnd
  <2>2. On("body") /\ Top.m \in Module
    BY <1>1, BodyFacts, <1>4 DEF Ends, BodyReturns, BodySuspends, BodyThrows
  <2>3. CASE BodyReturns
    BY <2>1, <2>3 DEF BodyReturns
  <2>4. CASE BodySuspends
    <3>1. hasTLA(Top.m) /\ records' = records
      BY <2>4 DEF BodySuspends
    <3>2. cyclic(Top.m) /\ records[Top.m].asyncEvaluation
      BY <1>1, <2>1, <2>2, <3>1, ProgramType DEF Marks
    <3> QED BY <2>1, <3>1, <3>2
  <2>5. CASE BodyThrows /\ Resumed
    <3>1. records[Top.m].status = "evaluating-async" /\ cyclic(Top.m)
      BY <1>1, <2>2, <2>5, StackSmall, BodyFacts DEF Marks
    <3>2. records' = Rejected(Top.m)
      BY <2>5 DEF BodyThrows
    <3>3. records'[Top.m].status # "evaluating"
      BY <1>1, <2>2, <3>1, <3>2, RejectedFacts
    <3> QED BY <2>1, <3>1, <3>3
  <2>6. CASE BodyThrows /\ ~Resumed
    <3>1. InEvaluation /\ Unwind(Top.m)
      BY <1>1, <2>6, ThrowFacts
    <3>2. Top.m \in Failed
      BY <1>1, <2>2, <2>6, BodyOwner DEF Failed
    <3>3. \A x \in Module : x = Top.m => hasError(x)'
      BY <1>1, <2>2, <3>1, <3>2, UnwindFacts, EsmAssumption DEF hasError
    <3> QED BY <2>1, <2>2, <3>3
  <2> QED BY <1>4, <2>3, <2>4, <2>5, <2>6 DEF Ends
<1> QED BY <1>2, <1>3, <1>4

(* What becomes evaluated without an error has completed. *)
LEMMA EndsComplete ==
  ASSUME Inv, Inv', Next, Ahead, Histories
  PROVE  \A x \in Module :
           /\ Complete(x)' => Complete(x) \/ x \in finished' \/ (~cyclic(x) /\ x \in Bodies')
           /\ records'[x].status = "evaluating" /\ ~records'[x].asyncEvaluation =>
                (records[x].status = "evaluating" /\ ~records[x].asyncEvaluation) \/ x \in Busy'
           /\ records'[x].cycleRoot # None /\ ~records'[x].asyncEvaluation =>
                Evaluated(x)' \/ (records[x].cycleRoot # None /\ ~records[x].asyncEvaluation)
<1>1. program' = program /\ TypeOK /\ Single /\ Shaped /\ Rooted /\ Trees /\ Skeleton /\ Marks /\ EndsIn
  BY DEF Ahead, Inv, Histories, Apart, Skeleton, Counts
<1>2. CASE SameState /\ \A x \in Module : records[x].asyncEvaluation => records'[x].asyncEvaluation
  BY <1>2 DEF SameState, Complete, Evaluated, hasError
<1>3. CASE Still \/ Depend \/ EvaluateAsync \/ \E m \in Module : CountsFor(m)
  <2>1. SameState /\ \A x \in Module : records[x].asyncEvaluation => records'[x].asyncEvaluation
    BY <1>1, <1>3, DependFacts, EvaluateAsyncFacts DEF Still, CountsFor, SameAsync
  <2> QED BY <1>2, <2>1
<1>4. CASE Enter
  <2>1. Callee \in Busy'
    BY <1>1, <1>4, StackEnter, EnterFacts
  <2> QED BY <1>1, <1>4, <2>1, EnterFacts, Zenon DEF Complete, Evaluated, hasError, SameAsync
<1>5. CASE EnterSynthetic
  <2>1. Callee \in Bodies' /\ Callee \in Module
    BY <1>1, <1>5, CalleeType, HistoriesStarts, EnterSyntheticFacts DEF Starts
  <2> QED BY <1>1, <1>5, <2>1, EnterSyntheticFacts, Zenon DEF Complete, Evaluated, hasError, SameAsync
<1>6. CASE Closes
  <2>1. \A x \in Closing : ~records[x].asyncEvaluation => x \in finished'
    <3>1. SUFFICES ASSUME NEW x \in Closing, ~records[x].asyncEvaluation
                   PROVE  x \in finished
      BY DEF Ahead
    <3>2. InEvaluation /\ x \in Members(Base) /\ x \in Module /\ ~On("body") /\ Base \in 1 .. Size
      BY <1>1, <1>6, CloseTop, TopVisit, Regions, MembersType DEF Closes, Closing
    <3>3. x \notin Bodies
      BY <1>1, <3>2, BodyBelow
    <3>4. x \notin Busy
      BY <1>1, <1>6, ClosingQuiet DEF Closes
    <3>5. records[x].status = "evaluating"
      BY <1>1, <3>2, Regions DEF Trees, Tree, Numbered
    <3> QED BY <1>1, <3>1, <3>2, <3>3, <3>4, <3>5 DEF EndsIn
  <2>2. \A x \in Module : records'[x].asyncEvaluation = records[x].asyncEvaluation
    BY <1>1, <1>6, ClosingFacts DEF Closes, SameAsync
  <2>3. \A x \in Module : x \notin Closing =>
          records'[x].status = records[x].status /\ records'[x].error = records[x].error
          /\ records'[x].cycleRoot = records[x].cycleRoot
    BY <1>1, <1>6, ClosingFacts DEF Closes
  <2>4. \A x \in Module : x \in Closing =>
          records'[x].status = IF records[x].asyncEvaluation THEN "evaluating-async" ELSE "evaluated"
    BY <1>1, <1>6, ClosingFacts DEF Closes
  <2>5. \A x \in Module : x \notin Closing \/ x \in Closing
    OBVIOUS
  <2> QED BY <2>1, <2>2, <2>3, <2>4, <2>5 DEF Complete, Evaluated, hasError
<1>7. ASSUME NEW m \in Module, Throws(m)
      PROVE  \A x \in Module :
               /\ Complete(x)' => Complete(x)
               /\ records'[x].status = "evaluating" => records[x].status = "evaluating"
               /\ records'[x].asyncEvaluation = records[x].asyncEvaluation
               /\ records'[x].cycleRoot # None => records[x].cycleRoot # None
  <2>1. \A x \in Module :
              /\ records'[x].status = IF x \in Failed THEN "evaluated" ELSE records[x].status
              /\ records'[x].error = IF x \in Failed THEN m ELSE records[x].error
              /\ records'[x].cycleRoot = records[x].cycleRoot
              /\ records'[x].asyncEvaluation = records[x].asyncEvaluation
    BY <1>1, <1>7, UnwindFacts DEF Throws, SameAsync
  <2> QED BY <2>1, EsmAssumption DEF Complete, Evaluated, hasError
<1>8. ASSUME NEW m \in Module, Fails(m)
      PROVE  \A x \in Module :
               /\ Complete(x)' => Complete(x)
               /\ records'[x].status = "evaluating" => records[x].status = "evaluating"
               /\ records'[x].asyncEvaluation = records[x].asyncEvaluation
               /\ records'[x].cycleRoot # None => records[x].cycleRoot # None
  <2>1. \A x \in Module :
              /\ records'[x].status = IF x \in Dependents(m) THEN "evaluated" ELSE records[x].status
              /\ records'[x].error = IF x \in Dependents(m) THEN m ELSE records[x].error
              /\ records'[x].cycleRoot = records[x].cycleRoot
              /\ records'[x].asyncEvaluation = records[x].asyncEvaluation
    BY <1>1, <1>8, RejectedFacts DEF Fails, SameAsync
  <2> QED BY <2>1, EsmAssumption DEF Complete, Evaluated, hasError
<1>9. ASSUME NEW m \in Module, Succeeds(m)
      PROVE  \A x \in Module :
               /\ Complete(x)' => Complete(x) \/ x \in finished'
               /\ records'[x].status # "evaluating"
               /\ records'[x].cycleRoot # None
                  /\ ~records'[x].asyncEvaluation => Evaluated(x)' \/ (records[x].cycleRoot # None /\ ~records[x].asyncEvaluation)
  <2>1. \A x \in Module :
              /\ records'[x].status = IF x = m THEN "evaluated" ELSE records[x].status
              /\ records'[x].error = records[x].error
              /\ records'[x].cycleRoot = records[x].cycleRoot
              /\ records'[x].asyncEvaluation = (x # m /\ records[x].asyncEvaluation)
    BY <1>1, <1>9, FulfilledFacts DEF Succeeds
  <2>2. m \in finished' /\ \A x \in Module : records'[x].status # "evaluating"
    BY <1>9 DEF Succeeds, Quiet
  <2> QED BY <2>1, <2>2 DEF Complete, Evaluated, hasError
<1> QED BY <1>3, <1>4, <1>5, <1>6, <1>7, <1>8, <1>9, Kinds

LEMMA HistoriesStep ==
  ASSUME Inv, Inv', Next, Ahead, Histories
  PROVE  Histories'
<1>1. TypeOK /\ EndsIn /\ \A x \in Module : hasError(x)' => Evaluated(x)'
  BY DEF Inv, Histories, Skeleton, Rooted
<1>2. EndsIn'
  BY <1>1, EndsBusy, EndsBodies, EndsComplete, EndsKept
<1> QED BY <1>2, OnceApartStep DEF Histories

----------------------------------------------------------------------------
(* What a step does to what waits. *)
LEMMA WaitsStep ==
  ASSUME Inv, Inv', Next
  PROVE  \A a \in Module :
           /\ \A x \in Parents(a)' : x \in Parents(a) \/ (Depend /\ x = Top.m /\ a = Awaited(Callee) /\ records[a].asyncEvaluation)
           /\ ~EvaluateAsync => Order(a)' = Order(a) /\ asyncOrder' = asyncOrder
              /\ (records'[a].asyncEvaluation => records[a].asyncEvaluation)
           /\ records[a].asyncEvaluation => records'[a].asyncEvaluation \/ Succeeds(a)
           /\ records'[a].status = "evaluating" => Pending(a)' >= Pending(a)
<1>1. TypeOK /\ Shaped /\ Rooted /\ Trees /\ Skeleton
  BY DEF Inv, Skeleton
<1>2. ~EvaluateAsync => asyncOrder' = asyncOrder
  BY DEF Next, Runtime, Ends, Settles, Import, requireModule, evaluate, Enter, EnterSynthetic, Rethrow, Depend,
     Execute, Close,
         Conclude, BodyReturns, BodySuspends, BodyThrows, asyncModuleExecutionRejected,
         asyncModuleExecutionFulfilled, Gather,
         ExecuteGathered, SkipGathered, Completed
<1>a. \A a \in Module : Pending(a) \in Nat /\ Order(a) \in Nat
  BY <1>1, RecordsType
<1>3. ASSUME SameAsync, SameWaits
      PROVE  \A a \in Module : Parents(a)' = Parents(a) /\ Pending(a)' >= Pending(a) /\ Order(a)' = Order(a)
                               /\ records'[a].asyncEvaluation = records[a].asyncEvaluation
  BY <1>3, <1>a DEF SameAsync, SameWaits, Parents
<1>4. CASE Still \/ Enter \/ EnterSynthetic \/ Closes \/ \E m \in Module : Throws(m) \/ Fails(m)
  <2>1. SameAsync /\ SameWaits
    BY <1>1, <1>4, EnterFacts, EnterSyntheticFacts, ClosingFacts, UnwindFacts, RejectedFacts
       DEF Still, Closes, Throws, Fails
  <2> QED BY <1>2, <1>3, <2>1, <1>4 DEF EvaluateAsync, Enter, EnterSynthetic, Closes, Close
<1>5. CASE Depend
  <2>1. PICK m, r : m = Top.m /\ r = Awaited(Callee)
    OBVIOUS
  <2>2. /\ m \in Module /\ r \in Module /\ SameAsync
        /\ \A x \in Module :
             /\ Pending(x)' = IF x = m /\ records[r].asyncEvaluation THEN Pending(x) + 1 ELSE Pending(x)
             /\ records'[x].asyncParentModules =
                  IF x = r /\ records[r].asyncEvaluation THEN Append(records[x].asyncParentModules, m)
                  ELSE records[x].asyncParentModules
    BY <1>1, <1>5, <2>1, DependFacts
  <2>3. \A a \in Module : \A x \in Parents(a)' : x \in Parents(a) \/ (x = m /\ a = r /\ records[a].asyncEvaluation)
    <3>1. SUFFICES ASSUME NEW a \in Module, NEW x \in Parents(a)'
                   PROVE  x \in Parents(a) \/ (x = m /\ a = r /\ records[a].asyncEvaluation)
      OBVIOUS
    <3>2. records[a].asyncParentModules \in Seq(Module)
      BY <1>1, RecordsType
    <3>3. CASE a = r /\ records[r].asyncEvaluation
      <4>1. records'[a].asyncParentModules = Append(records[a].asyncParentModules, m)
        BY <2>2, <3>3
      <4> QED BY <3>2, <3>3, <4>1, <2>2 DEF Parents
    <3>4. CASE ~(a = r /\ records[r].asyncEvaluation)
      BY <2>2, <3>4 DEF Parents
    <3> QED BY <3>3, <3>4
  <2>4. ~EvaluateAsync
    BY <1>1, <1>5, DependFacts, CalleeType, LookedFacts, EvaluateAsyncFacts, ProgramType
  <2> QED BY <1>2, <1>5, <1>a, <2>1, <2>2, <2>3, <2>4 DEF SameAsync
<1>6. CASE EvaluateAsync
  <2>1. SameWaits /\ \A x \in Module : records[x].asyncEvaluation => records'[x].asyncEvaluation
    BY <1>1, <1>6, EvaluateAsyncFacts
  <2> QED BY <1>6, <1>a, <2>1 DEF SameWaits, Parents
<1>7. ASSUME NEW m \in Module, Succeeds(m)
      PROVE  /\ SameWaits /\ \A x \in Module : /\ records'[x].asyncEvaluation = (x # m /\ records[x].asyncEvaluation)
                                               /\ Order(x)' = Order(x)
  BY <1>1, <1>7, FulfilledFacts DEF Succeeds
<1>8. CASE \E m \in Module : Succeeds(m)
  <2>1. PICK m \in Module : Succeeds(m)
    BY <1>8
  <2>2. \A a \in Module : Parents(a)' = Parents(a) /\ Pending(a)' >= Pending(a)
    BY <1>a, <1>7, <2>1 DEF SameWaits, Parents
  <2> QED BY <1>2, <1>7, <2>1, <2>2, Zenon
<1>9. CASE \E m \in Module : CountsFor(m)
  <2>1. SameAsync /\ \A x \in Module : records'[x].asyncParentModules = records[x].asyncParentModules
        /\ records'[x].status # "evaluating"
    BY <1>9 DEF CountsFor, Quiet
  <2> QED BY <1>2, <2>1 DEF SameAsync, Parents
<1> QED BY <1>4, <1>5, <1>6, <1>8, <1>9, Kinds

LEMMA OwesZero ==
  ASSUME TypeOK, NEW p \in Module, Owes(Par, Held, {p}) = 0, NEW a \in Held
  PROVE  p \notin Parents(a)
<1>1. Par \in ParentLists /\ Held \in SUBSET Module /\ IsFiniteSet(Module)
  BY ParType
<1>2. IsFiniteSet(Owed(Par, Held, {p}))
  BY <1>1, OwedFinite
<1>3. Owed(Par, Held, {p}) = {}
  BY <1>2, FS_EmptySet DEF Owes
<1>4. a \in Module /\ records[a].asyncParentModules \in Seq(Module)
  BY <1>1, RecordsType
<1>5. Places(Par[a], {p}) \subseteq Nat
  BY <1>4, ParPlaces, PlacesNat
<1>6. Places(Par[a], {p}) = {}
  <2>1. ASSUME NEW i \in Places(Par[a], {p})
        PROVE  FALSE
    <3>1. <<a, i>> \in Held \X Nat /\ <<a, i>>[1] = a /\ <<a, i>>[2] = i
      BY <1>5, <2>1
    <3>2. <<a, i>> \in Owed(Par, Held, {p})
      BY <2>1, <3>1 DEF Owed
    <3> QED BY <1>3, <3>2
  <2> QED BY <2>1
<1> QED BY <1>4, <1>6, ParPlaces

(* What a module that is gathered waits for has completed when it is run. *)
LEMMA GatheredWaits ==
  ASSUME Inv, Ordered, ExecuteGathered, ~abandoned, NEW a \in Module, First \in Parents(a)
  PROVE  Complete(a)
<1>1. TypeOK /\ Shaped /\ Rooted /\ Skeleton /\ Marks /\ Fresh /\ Waiters /\ Enough /\ Gathering
  BY DEF Inv, Skeleton, Counts
<1>2. PICK f : f = First
  OBVIOUS
<1>3. /\ On("completion") /\ Top.list # {} /\ f \in Top.list /\ f \in Module /\ ~Evaluated(f)
      /\ \A q \in Top.list : Order(f) <= Order(q)
  BY <1>1, <1>2, RunGatheredFacts, FirstFacts
<1>4. List = Top.list /\ Running = {}
  BY <1>1, <1>3, StackSmall
<1>5. Pending(f) = 0 /\ records[f].cycleRoot # None
  BY <1>1, <1>3, <1>4 DEF Marks
<1>6. records[f].status = "evaluating-async" /\ records[f].asyncEvaluation
  BY <1>1, <1>3, <1>5 DEF Rooted, Marks, Evaluated
<1>7. Owes(Par, Held, {f}) = 0
  <2>1. PICK u, v : u = Owes(Par, Held, {f}) /\ v = Num(Todo, {f})
    OBVIOUS
  <2>2. u \in Nat /\ v \in Nat
    BY <1>1, <1>3, <2>1, CountTypes
  <2>3. Pending(f) >= u + v
    BY <1>1, <1>3, <2>1 DEF Enough
  <2> QED BY <1>5, <2>1, <2>2, <2>3
<1>8. ~Holding(a)
  BY <1>1, <1>2, <1>3, <1>7, OwesZero DEF Held
<1>9. CASE ~records[a].asyncEvaluation
  BY <1>2, <1>9 DEF Ordered
<1>10. CASE records[a].asyncEvaluation
  <2>1. ~hasError(a)
    BY <1>1, <1>2, <1>3 DEF Waiters
  <2>2. records[a].status # "linked" /\ records[a].status # "evaluating" /\ ~Evaluated(a)
    BY <1>1, <1>8, <1>10, <2>1 DEF Fresh, Marks
  <2>3. records[a] \in RecordType
    BY <1>1, RecordsType
  <2>4. records[a].status = "evaluating-async"
    BY <2>2, <2>3 DEF RecordType, Evaluated
  <2>5. a \in List
    BY <1>1, <1>4, <1>8, <1>10, <2>1, <2>4 DEF Rooted, Gathering
  <2>6. Order(f) <= Order(a) /\ Order(a) < Order(f)
    BY <1>2, <1>3, <1>4, <1>6, <2>5 DEF Ordered
  <2> QED BY <1>1, <1>3, <2>6, RecordsType
<1> QED BY <1>9, <1>10

LEMMA RootInStep ==
  ASSUME Inv, Inv', Next, Ahead, RootIn
  PROVE  RootIn'
<1>1. TypeOK /\ Shaped /\ Rooted /\ Trees /\ Skeleton /\ program' = program
  BY DEF Inv, Skeleton, Ahead
<1>2. \A x \in Module : (Orderly(x)' => Orderly(x)) /\ Graph(x)' = Graph(x)
  BY <1>1, OrderlyRules, ProgramKept DEF Ahead
<1>3. CASE \A x \in Module : records'[x].cycleRoot = records[x].cycleRoot
  BY <1>2, <1>3 DEF RootIn
<1>4. CASE Closes
  BY <1>1, <1>2, <1>4, ClosingFacts DEF RootIn, Closes, Clean
<1>5. CASE ~Closes
  <2>1. \A x \in Module : records'[x].cycleRoot = records[x].cycleRoot
    BY <1>1, <1>5, Kinds, EnterFacts, EnterSyntheticFacts, DependFacts, EvaluateAsyncFacts, UnwindFacts,
       FulfilledFacts, RejectedFacts
       DEF Still, SameState, Throws, Succeeds, Fails, CountsFor
  <2> QED BY <1>3, <2>1
<1> QED BY <1>4, <1>5

----------------------------------------------------------------------------
(* A module that starts does not wait for one that has not completed. *)
LEMMA StartsWaits ==
  ASSUME Inv, Ordered, NEW m, Starts(m), ~abandoned, NEW a \in Module, m \in Parents(a)
  PROVE  Complete(a)
<1>1. TypeOK /\ Shaped /\ Rooted /\ Trees /\ Skeleton /\ Waiters
  BY DEF Inv, Skeleton, Counts
<1>2. CASE EnterSynthetic /\ m = Callee
  <2>1. m \in Module /\ ~cyclic(m) /\ ~Evaluated(m)
    BY <1>1, <1>2, EnterSyntheticFacts, CalleeType
  <2> QED BY <1>1, <2>1 DEF Rooted, Waiters, Evaluated
<1>3. CASE Looked /\ Pending(m) = 0 /\ m = Top.m
  <2>1. m \in Members(Base) /\ m \in Module /\ Base \in Evaluations
    BY <1>1, <1>3, LookedFacts, TopVisit
  <2>2. records[m].status = "evaluating"
    BY <1>1, <2>1 DEF Trees, Tree, Numbered
  <2> QED BY <1>3, <2>1, <2>2 DEF Ordered
<1>4. CASE ExecuteGathered /\ m = First
  BY <1>4, GatheredWaits
<1> QED BY <1>1, <1>2, <1>3, <1>4, ExecuteFacts, EvaluateAsyncFacts DEF Starts

(* What a module that waits for another keeps. *)
LEMMA OldPair ==
  ASSUME Inv, Inv', Next, Ahead, Histories, Ordered, NEW a \in Module, NEW x \in Parents(a)
  PROVE  /\ ~abandoned' /\ Done(x)' => Complete(a)'
         /\ records'[x].status = "evaluating" => Pending(x)' > 0
         /\ ~records'[a].asyncEvaluation => Complete(a)'
         /\ records'[x].asyncEvaluation => Order(a)' < Order(x)'
         /\ Orderly(x)' => a \in Graph(x)'
<1>1. TypeOK /\ Shaped /\ Rooted /\ Trees /\ Skeleton /\ Waiters /\ Fresh /\ program' = program
  BY DEF Inv, Skeleton, Counts, Ahead
<1>2. x \in Module /\ cyclic(a) /\ records[x].status # "linked"
  BY <1>1, ParentsType DEF Waiters
<1>3. Complete(a) => Complete(a)'
  BY <1>2 DEF Ahead
<1>4. ~abandoned' /\ Done(x)' => Complete(a)'
  <2>1. CASE \E m : Starts(m)
    <3>1. PICK m : Starts(m)
      BY <2>1
    <3>2. Done(x)' <=> Done(x) \/ x = m
      BY <1>1, <3>1, HistoriesStarts, DoneRules
    <3>3. ~abandoned' => ~abandoned
      BY DEF Ahead
    <3> QED BY <1>1, <1>3, <3>1, <3>2, <3>3, StartsWaits DEF Ordered
  <2>2. CASE started' = started
    <3>1. (Done(x)' <=> Done(x)) /\ (~abandoned' => ~abandoned)
      BY <1>1, <2>2, DoneRules DEF Ahead
    <3> QED BY <1>3, <3>1 DEF Ordered
  <2>3. started' = started \/ \E m : Starts(m)
    <3>1. EvaluateAsync => Pending(Top.m) > 0 \/ Pending(Top.m) = 0
      BY <1>1, RecordsType, EvaluateAsyncFacts, LookedFacts
    <3>2. CASE EvaluateAsync
      BY <1>1, <3>1, <3>2, EvaluateAsyncFacts DEF Starts
    <3>3. CASE EnterSynthetic \/ Execute \/ ExecuteGathered
      BY <3>3 DEF Starts
    <3>4. CASE ~(EvaluateAsync \/ EnterSynthetic \/ Execute \/ ExecuteGathered)
      BY <3>4 DEF Next, Runtime, Ends, Settles, Import, requireModule, evaluate, Enter, Rethrow, Depend, Close,
         bodies, history,
         Conclude, BodyReturns, BodySuspends, BodyThrows, asyncModuleExecutionRejected,
         asyncModuleExecutionFulfilled, Gather,
         SkipGathered, Completed
    <3> QED BY <3>2, <3>3, <3>4
  <2> QED BY <2>1, <2>2, <2>3
<1>5. records'[x].status = "evaluating" => Pending(x)' > 0
  <2>1. records'[x].status = "evaluating" => records[x].status = "evaluating"
    BY <1>2 DEF Ahead
  <2>2. Pending(x) \in Nat /\ Pending(x)' \in Nat
    <3>1. Pending(x) \in Nat
      BY <1>1, <1>2, RecordsType
    <3>2. Pending(x)' \in Nat
      BY <1>2 DEF Inv, TypeOK, Pending
    <3> QED BY <3>1, <3>2
  <2> QED BY <1>2, <2>1, <2>2, WaitsStep DEF Ordered
<1>6. ~records'[a].asyncEvaluation => Complete(a)'
  <2>1. CASE ~records[a].asyncEvaluation
    BY <1>3, <2>1 DEF Ordered
  <2>2. CASE Succeeds(a)
    <3>1. ~hasError(a)
      BY <1>1, <2>2 DEF Succeeds, Rooted, Evaluated
    <3> QED BY <1>1, <2>2, <3>1, FulfilledFacts DEF Succeeds, Complete, Evaluated, hasError
  <2> QED BY <2>1, <2>2, WaitsStep
<1>7. records'[x].asyncEvaluation => Order(a)' < Order(x)'
  <2>1. CASE EvaluateAsync
    <3>1. PICK m : m = Top.m
      OBVIOUS
    <3>2. /\ m \in Module
          /\ \A y \in Module :
              /\ records'[y].asyncEvaluation = (y = m \/ records[y].asyncEvaluation)
              /\ Order(y)' = IF y = m THEN asyncOrder + 1 ELSE Order(y)
      BY <1>1, <2>1, <3>1, EvaluateAsyncFacts, LookedFacts
    <3>3. m \in Busy
      BY <1>1, <2>1, <3>1, EvaluateAsyncFacts, LookedFacts, ProgramType DEF Busy
    <3>4. a # m
      BY <1>1, <3>2, <3>3, ParentsType DEF Fresh
    <3>5. Order(a) <= asyncOrder /\ Order(a) \in Nat /\ Order(x) \in Nat /\ asyncOrder \in Nat
      BY <1>1, <1>2, RecordsType DEF Ordered, TypeOK
    <3>6. Order(a)' = Order(a)
      BY <3>2, <3>4
    <3>7. CASE x = m
      <4>1. Order(x)' = asyncOrder + 1
        BY <1>2, <3>2, <3>7
      <4> QED BY <3>5, <3>6, <4>1
    <3>8. CASE x # m
      <4>1. Order(x)' = Order(x) /\ (records'[x].asyncEvaluation => records[x].asyncEvaluation)
        BY <1>2, <3>2, <3>8
      <4> QED BY <3>6, <4>1 DEF Ordered
    <3> QED BY <3>7, <3>8
  <2>2. CASE ~EvaluateAsync
    BY <1>2, <2>2, WaitsStep DEF Ordered
  <2> QED BY <2>1, <2>2
<1>8. Orderly(x)' => a \in Graph(x)'
  BY <1>1, <1>2, OrderlyRules, ProgramKept DEF Ordered, Ahead
<1> QED BY <1>4, <1>5, <1>6, <1>7, <1>8

(* What a module that begins to wait for another satisfies. *)
LEMMA NewPair ==
  ASSUME Inv, Inv', Next, Ahead, Histories, RootIn, NEW a \in Module, NEW x,
         Depend, x = Top.m, a = Awaited(Callee), records[a].asyncEvaluation
  PROVE  /\ ~Done(x)'
         /\ records'[x].status = "evaluating" => Pending(x)' > 0
         /\ records'[a].asyncEvaluation
         /\ ~records'[x].asyncEvaluation
         /\ Orderly(x)' => a \in Graph(x)'
<1>1. TypeOK /\ Shaped /\ Rooted /\ Trees /\ Skeleton /\ Waiters /\ Fresh /\ program' = program
  BY DEF Inv, Skeleton, Counts, Ahead
<1>2. /\ Looking /\ Top.at = "inner" /\ x \in Module /\ SameAsync
      /\ \A y \in Module : Pending(y)' = IF y = x THEN Pending(y) + 1 ELSE Pending(y)
  BY <1>1, DependFacts
<1>3. x \in Busy /\ Callee \in Requests(x) /\ Callee \in Module
  <2>1. Top = calls[Size] /\ Size \in Nat /\ Size > 0 /\ Top.i \in 1 .. Len(requested(Top.m))
        /\ Callee \in Requests(x) /\ Callee \in Module
    BY <1>1, <1>2, CalleeType
  <2>2. Len(requested(x)) \in Nat
    BY <1>1, <1>2, ProgramType
  <2>3. calls[Size].at = "inner" /\ calls[Size].m = x /\ calls[Size].i <= Len(requested(x)) + 1
    BY <1>2, <2>1, <2>2
  <2> QED BY <1>2, <2>1, <2>3 DEF Busy
<1>4. ~Done(x)'
  <2>1. started' = started
    BY DEF Depend, bodies
  <2> QED BY <1>1, <1>3, <2>1, DoneRules DEF Histories, Once
<1>5. Pending(x)' > 0
  BY <1>1, <1>2, RecordsType
<1>6. records'[a].asyncEvaluation /\ ~records'[x].asyncEvaluation
  BY <1>1, <1>2, <1>3 DEF SameAsync, Fresh
<1>7. ASSUME Orderly(x)'
      PROVE  a \in Graph(x)'
  <2>1. Orderly(x) /\ Graph(x)' = Graph(x)
    BY <1>1, <1>2, <1>7, OrderlyRules, ProgramKept DEF Ahead
  <2>2. Callee \in Graph(x) /\ Graph(Callee) \subseteq Graph(x)
    BY <1>1, <1>2, <1>3, GraphRules
  <2>3. Orderly(Callee)
    BY <1>1, <1>2, <2>1, <2>2, OrderlyRules DEF Ahead
  <2>4. a \in Graph(Callee)
    BY <1>1, <1>3, <2>3, EsmAssumption, GraphRules DEF Awaited, RootIn
  <2> QED BY <2>1, <2>2, <2>4
<1> QED BY <1>4, <1>5, <1>6, <1>7

LEMMA OrderedStep ==
  ASSUME Inv, Inv', Next, Ahead, Histories, Ordered, RootIn
  PROVE  Ordered'
<1>1. TypeOK
  BY DEF Inv
<1>2. \A x \in Module : Order(x)' <= asyncOrder'
  <2>1. \A x \in Module : Order(x) \in Nat /\ Order(x) <= asyncOrder /\ asyncOrder \in Nat
    BY <1>1, RecordsType DEF Ordered, TypeOK
  <2>2. CASE EvaluateAsync
    <3>1. PICK m : \A x \in Module : Order(x)' = IF x = m THEN asyncOrder + 1 ELSE Order(x)
      BY <1>1, <2>2, EvaluateAsyncFacts
    <3>2. asyncOrder' = asyncOrder + 1
      BY <2>2 DEF EvaluateAsync
    <3> QED BY <2>1, <3>1, <3>2
  <2> QED BY <2>1, <2>2, WaitsStep
<1>3. ASSUME NEW a \in Module, NEW x \in Parents(a)'
      PROVE  /\ ~abandoned' /\ Done(x)' => Complete(a)'
             /\ records'[x].status = "evaluating" => Pending(x)' > 0
             /\ ~records'[a].asyncEvaluation => Complete(a)'
             /\ records'[x].asyncEvaluation => Order(a)' < Order(x)'
             /\ Orderly(x)' => a \in Graph(x)'
  <2>1. CASE x \in Parents(a)
    BY <2>1, OldPair
  <2>2. CASE x \notin Parents(a)
    <3>1. Depend /\ x = Top.m /\ a = Awaited(Callee) /\ records[a].asyncEvaluation
      BY <1>3, <2>2, WaitsStep
    <3> QED BY <3>1, NewPair
  <2> QED BY <2>1, <2>2
<1> QED BY <1>2, <1>3 DEF Ordered

----------------------------------------------------------------------------
(* What a step leaves of what is being evaluated. *)
AsIs(k) == \A x \in Members(k) : Index(x)' = Index(x) /\ Low(x)' = Low(x) /\ records'[x].status = records[x].status

LEMMA AsIsStep ==
  ASSUME Inv, Inv', Next, NEW k \in Evaluations,
         k # Base \/ ~(Enter \/ Depend \/ Closes \/ \E e \in Module : Throws(e))
  PROVE  AsIs(k)
<1>1. TypeOK /\ Shaped /\ Rooted /\ Trees /\ Skeleton
  BY DEF Inv, Skeleton
<1>2. \A x \in Members(k) : x \in Module /\ cyclic(x) /\ records[x].status = "evaluating"
  <2>1. k \in 1 .. Size
    BY <1>1, CallsType DEF Evaluations
  <2> QED BY <1>1, <2>1, MembersType DEF Trees, Tree, Numbered
<1>3. CASE SameState /\ SameIndex
  BY <1>2, <1>3 DEF AsIs, SameState, SameIndex
<1>4. CASE Enter
  BY <1>1, <1>2, <1>4, EnterFacts DEF AsIs
<1>5. CASE EnterSynthetic
  BY <1>1, <1>2, <1>5, EnterSyntheticFacts DEF AsIs, SameIndex
<1>6. CASE InEvaluation /\ k # Base
  <2>1. \A x \in Members(k) : x \notin Members(Base)
    BY <1>1, <1>6, Regions DEF Trees
  <2>2. CASE Depend
    <3>1. Top.m \in Members(Base)
      BY <1>1, <1>6, <2>2, DependFacts, TopVisit
    <3> QED BY <1>1, <1>2, <2>1, <2>2, <3>1, DependFacts DEF AsIs, SameState
  <2>3. CASE Closes
    BY <1>1, <1>2, <2>1, <2>3, ClosingFacts DEF AsIs, Closes, SameIndex
  <2>4. ASSUME NEW e \in Module, Throws(e)
        PROVE  AsIs(k)
    <3>1. Unwind(e) /\ \A x \in Failed : ~cyclic(x) \/ x \in Members(Base)
      BY <1>1, <1>6, <2>4, FailedRules DEF Throws, Inv, Counts
    <3> QED BY <1>1, <1>2, <1>6, <2>1, <3>1, UnwindFacts DEF AsIs, SameIndex
  <2>5. CASE EvaluateAsync
    BY <1>1, <1>3, <2>5, EvaluateAsyncFacts
  <2> QED BY <1>3, <1>4, <1>5, <2>2, <2>3, <2>4, <2>5, Kinds DEF Still, Succeeds, Fails, CountsFor, Quiet
<1>7. CASE Depend \/ Closes \/ \E e \in Module : Throws(e)
  <2>1. InEvaluation
    BY <1>1, <1>7, DependFacts, CalleeType DEF Closes, Close, Throws, On, InEvaluation, Resumed
  <2> QED BY <1>4, <1>6, <1>7, <2>1
<1>8. CASE EvaluateAsync
  BY <1>1, <1>3, <1>8, EvaluateAsyncFacts
<1> QED BY <1>3, <1>4, <1>5, <1>7, <1>8, Kinds DEF Still, Succeeds, Fails, CountsFor, Quiet

LEMMA Lower ==
  ASSUME TypeOK, Shaped, InEvaluation, Ahead, calls' \in Seq(Call), NEW b, b = Base, Size' >= b - 1,
         \A j \in 1 .. b - 1 : calls'[j] = calls[j], Size' >= b => calls'[b].at = "evaluate",
         NEW k \in Evaluations, k # b, AsIs(k)
  PROVE  Untouched(k) /\ k \in Evaluations'
<1>1. /\ b \in Evaluations /\ b \in 1 .. Size /\ Size \in Nat /\ k \in 1 .. Size /\ k < b
      /\ \A j, l : In(j, l) => j \in 1 .. Size /\ l \in 1 .. Size
      /\ \A j, l : In(j, l) /\ l # b => j < b
  BY Regions
<1>2. Size' \in Nat /\ DOMAIN calls' = 1 .. Size'
  BY LenProperties DEF Size
<1>3. PICK q : q = b - 1
  OBVIOUS
<1>4. q \in Nat /\ q \in 1 .. Size /\ k \in 1 .. q /\ Keeps(q)
  BY <1>1, <1>2, <1>3 DEF Keeps
<1>5. /\ \A j \in 1 .. q : In(j, k)' <=> In(j, k)
      /\ \A j \in 1 .. q : Visits(j, k)' <=> Visits(j, k)
      /\ k \in Evaluations'
  BY <1>4, Prefix
<1>6. \A j : In(j, k)' => j \in 1 .. q
  <2> SUFFICES ASSUME NEW j, In(j, k)', j \notin 1 .. q
               PROVE  FALSE
    OBVIOUS
  <2>1. j \in 1 .. Size' /\ k < j /\ \A i \in k + 1 .. j : calls'[i].at # "evaluate"
    BY <1>2 DEF In
  <2>2. b \in k + 1 .. j /\ Size' >= b
    BY <1>1, <1>2, <1>3, <1>4, <2>1
  <2> QED BY <2>1, <2>2
<1>7. \A j : In(j, k) => j \in 1 .. q
  BY <1>1, <1>3
<1>8. \A j : (In(j, k)' <=> In(j, k)) /\ (Visits(j, k)' <=> Visits(j, k))
  BY <1>5, <1>6, <1>7 DEF Visits
<1>9. calls[k].m \in Module
  BY <1>1, MembersType
<1>10. records'[calls[k].m].status = "linked" => records[calls[k].m].status = "linked"
  BY <1>9 DEF Ahead
<1>11. calls'[k] = calls[k] /\ \A j : In(j, k) => calls'[j] = calls[j]
  BY <1>3, <1>4, <1>7
<1> QED BY <1>5, <1>8, <1>10, <1>11 DEF Untouched, AsIs, Visits

\* The step leaves the stack below the last evaluate.
Leaves == LET b == Base IN
  /\ calls' \in Seq(Call) /\ Size' >= b - 1 /\ (\A j \in 1 .. b - 1 : calls'[j] = calls[j])
  /\ (Size' >= b => calls'[b].at = "evaluate")

LEMMA LeavesStep ==
  ASSUME Inv, Inv', Next, InEvaluation
  PROVE  Leaves
<1>1. TypeOK /\ Shaped /\ Rooted /\ Trees /\ Skeleton /\ program' = program
  BY ProgramStays DEF Inv, Skeleton
<1>2. PICK b, s : b = Base /\ s = Size
  OBVIOUS
<1>3. b \in Evaluations /\ b \in 1 .. s /\ s \in Nat /\ calls[b].at = "evaluate" /\ (Top.at # "evaluate" => b < s)
      /\ Top = calls[s]
  BY <1>1, <1>2, Regions, CallsType, Bases DEF Evaluations, InEvaluation
<1>4. CASE calls' \in Seq(Call) /\ \E f : Grows(f)
  BY <1>2, <1>3, <1>4 DEF Grows, Leaves
<1>5. CASE calls' \in Seq(Call) /\ Shrinks
  BY <1>2, <1>3, <1>5 DEF Shrinks, Leaves
<1>6. CASE calls' \in Seq(Call) /\ Top.at = "inner" /\ ((\E f : Turns(f)) \/ \E f, g : Runs(f, g))
  BY <1>2, <1>3, <1>6 DEF Turns, Runs, Leaves
<1>7. CASE calls' \in Seq(Call) /\ Cuts(b)
  BY <1>2, <1>3, <1>7 DEF Cuts, Leaves
<1>8. CASE Enter
  BY <1>1, <1>2, <1>3, <1>8, EnterFacts DEF Leaves, Typed
<1>9. CASE Closes
  BY <1>1, <1>2, <1>3, <1>9, ClosingFacts DEF Leaves, Typed, Closes
<1>10. CASE Close /\ Low(Top.m) # Index(Top.m)
  <2>1. Top.m \in Members(Base)
    BY <1>1, <1>10, CloseTop
  <2> QED BY <1>1, <1>5, <1>10, <2>1, CloseFacts DEF Typed
<1>11. CASE \E m \in Module : Import(m) \/ requireModule(m)
  BY <1>1, <1>4, <1>11, evaluateFacts DEF Import, requireModule, Typed
<1>12. CASE EnterSynthetic \/ Depend \/ Execute \/ EvaluateAsync \/ Conclude
  BY <1>1, <1>4, <1>5, <1>6, <1>12, EnterSyntheticFacts, DependFacts, ExecuteFacts, EvaluateAsyncFacts,
     ConcludeFacts, LookedFacts DEF Typed
<1>13. CASE Rethrow
  BY <1>1, <1>2, <1>7, <1>13, RethrowFacts DEF Typed
<1>14. CASE Ends
  <2>1. ~Resumed
    BY DEF InEvaluation
  <2> QED BY <1>1, <1>2, <1>5, <1>7, <1>14, <2>1, ReturnFacts, SuspendFacts, ThrowFacts, UnwindFacts
     DEF Ends, Typed
<1>15. ~(Gather \/ ExecuteGathered \/ SkipGathered \/ Completed \/ \E m \in Module : Settles(m))
  BY DEF InEvaluation, Gather, ExecuteGathered, SkipGathered, Completed, Gathered, On, Settles,
     asyncModuleExecutionRejected, asyncModuleExecutionFulfilled
<1> QED BY <1>8, <1>9, <1>10, <1>11, <1>12, <1>13, <1>14, <1>15 DEF Next, Runtime, Closes

LEMMA LowerStep ==
  ASSUME Inv, Inv', Next, Ahead, InEvaluation, NEW k \in Evaluations, k # Base
  PROVE  Untouched(k) /\ k \in Evaluations'
<1>1. TypeOK /\ Shaped
  BY DEF Inv, Skeleton
<1>2. AsIs(k) /\ Leaves
  BY AsIsStep, LeavesStep
<1> QED BY <1>1, <1>2, Lower DEF Leaves

----------------------------------------------------------------------------
\* Calls are popped, and at most one is pushed.
Pushed(q) ==
  /\ calls' \in Seq(Call) /\ Keeps(q)
  /\ (Size' = q \/ (Size' = q + 1 /\ (calls'[q + 1].at # "evaluate" \/ calls'[q + 1].todo = <<>>)))

LEMMA PushedStep ==
  ASSUME Inv, Inv', Next
  PROVE  \E q : Pushed(q)
<1>1. TypeOK /\ Shaped /\ Rooted /\ Trees /\ Skeleton /\ program' = program /\ Countable
  BY ProgramStays, ReadyHolds DEF Inv, Skeleton, Ready
<1>2. ASSUME NEW m \in Module, Import(m) \/ requireModule(m)
      PROVE  \E q : Pushed(q)
  <2>1. Typed /\ Grows(Frame("evaluate", Root(m))) /\ Root(m) \in Module
    BY <1>1, <1>2, evaluateFacts DEF Import, requireModule
  <2>2. calls'[Size + 1].todo = <<>>
    BY <2>1, FrameType DEF Grows
  <2> QED BY <1>1, <2>1, <2>2, KeepsRules DEF Typed, Pushed
<1>3. CASE Enter
  <2>1. calls'[Size + 1].at = "inner" /\ Size' = Size + 1 /\ Typed
    BY <1>1, <1>3, EnterFacts, FrameType, CalleeType
  <2> QED BY <1>1, <1>3, <2>1, ShapedEnter DEF Typed, Pushed
<1>4. CASE EnterSynthetic
  <2>1. Typed /\ Grows(Frame("body", Callee)) /\ Callee \in Module
    BY <1>1, <1>4, EnterSyntheticFacts, CalleeType
  <2>2. calls'[Size + 1].at = "body"
    BY <2>1, FrameType DEF Grows
  <2> QED BY <1>1, <2>1, <2>2, KeepsRules DEF Typed, Pushed
<1>5. ASSUME Typed, Shrinks \/ \E k : Cuts(k)
      PROVE  \E q : Pushed(q)
  BY <1>1, <1>5, KeepsRules DEF Typed, Pushed
<1>6. CASE Rethrow \/ Conclude \/ Completed \/ Ends
  BY <1>1, <1>5, <1>6, RethrowFacts, ConcludeFacts, CompletedFacts, ReturnFacts, SuspendFacts, ThrowFacts,
     UnwindFacts DEF Ends
<1>7. CASE Close
  <2>1. Top.m \in Members(Base)
    BY <1>1, <1>7, CloseTop
  <2>2. Keeps(Size - 1) /\ Typed /\ Size' = Size - 1
    BY <1>1, <1>7, <2>1, ShapedClose, CloseFacts DEF Shrinks
  <2> QED BY <2>2 DEF Typed, Pushed
<1>8. ASSUME Typed, NEW f \in Call, f.at = Top.at, f.m = Top.m, Turns(f) \/ \E g : Runs(f, g) /\ g.at = "body"
      PROVE  \E q : Pushed(q)
  <2>1. CASE Turns(f)
    BY <1>1, <1>8, <2>1, KeepsRules DEF Typed, Pushed
  <2>2. CASE ~Turns(f)
    <3>1. PICK g : Runs(f, g) /\ g.at = "body"
      BY <1>8, <2>2
    <3>2. calls'[Size + 1].at = "body"
      BY <3>1 DEF Runs
    <3> QED BY <1>1, <1>8, <3>1, <3>2, KeepsRules DEF Typed, Pushed
  <2> QED BY <2>1, <2>2
<1>9. CASE Depend
  BY <1>1, <1>8, <1>9, DependFacts, CalleeType, StepType
<1>10. CASE Execute \/ EvaluateAsync
  <2>1. Top.m \in Module /\ Frame("body", Top.m).at = "body"
    BY <1>1, <1>10, LookedFacts, ExecuteFacts, EvaluateAsyncFacts, FrameType
  <2> QED BY <1>1, <1>8, <1>10, <2>1, LookedFacts, ExecuteFacts, EvaluateAsyncFacts, StepType
<1>11. CASE Gather
  <2>1. On("completion") /\ Top \in Call /\ Top.todo # <<>> /\ Todo = Top.todo /\ Head(Top.todo) \in Module
        /\ Pending(Head(Top.todo)) > 0
    BY <1>1, <1>11, CompletionFacts, GatherHead DEF Gather, Inv
  <2>2. Typed /\ (Shrinks \/ \E f \in Call : f.at = Top.at /\ f.m = Top.m /\ Turns(f))
    BY <1>1, <1>11, <2>1, GatherFacts DEF Turns, Call
  <2> QED BY <1>5, <1>8, <2>2
<1>12. CASE ExecuteGathered \/ SkipGathered
  <2>1. Top.m \in Module /\ Top.at = "completion" /\ Left.at = "completion" /\ Left.m = Top.m /\ Typed
    BY <1>1, <1>12, RunGatheredFacts, SkipFacts, CompletionFacts
  <2>2. First \in Module => Frame("body", First).at = "body"
    BY FrameType
  <2>3. Left \in Call /\ (Turns(Left) \/ \E g : Runs(Left, g) /\ g.at = "body")
    BY <1>1, <1>12, <2>2, RunGatheredFacts, SkipFacts DEF Turns, Runs
  <2> QED BY <1>8, <2>1, <2>3
<1>13. ASSUME NEW m \in Module, Settles(m)
       PROVE  \E q : Pushed(q)
  <2>1. Size = 0
    BY <1>1, <1>13, CallsType DEF Settles, asyncModuleExecutionRejected, asyncModuleExecutionFulfilled
  <2>2. calls' = calls \/ (Typed /\ Size' = 1 /\ calls'[1].at = "completion")
    BY <1>1, <1>13, SettledFacts DEF Settles, asyncModuleExecutionRejected
  <2>3. calls' \in Seq(Call) /\ (Size' = 0 \/ (Size' = 1 /\ calls'[1].at = "completion"))
    BY <1>1, <2>1, <2>2, CallsType DEF Typed, Size
  <2>4. Keeps(0)
    BY <2>1, <2>3 DEF Keeps
  <2>5. 0 + 1 = 1
    OBVIOUS
  <2> QED BY <2>3, <2>4, <2>5 DEF Pushed
<1> QED BY <1>2, <1>3, <1>4, <1>6, <1>7, <1>9, <1>10, <1>11, <1>12, <1>13 DEF Next, Runtime

LEMMA NewEvaluations ==
  ASSUME Inv, Inv', Next, NEW k \in Evaluations', k \notin Evaluations
  PROVE  Members(k)' = {}
<1>1. TypeOK
  BY DEF Inv
<1>2. PICK q : Pushed(q)
  BY PushedStep
<1>3. /\ Size' \in Nat /\ DOMAIN calls' = 1 .. Size' /\ q \in Nat
      /\ \A l \in 1 .. q : l \in Evaluations' <=> l \in Evaluations
  BY <1>1, <1>2, Prefix DEF Pushed, Keeps
<1>4. k \in 1 .. Size' /\ calls'[k].at = "evaluate"
  BY <1>3 DEF Evaluations
<1>5. k = q + 1 /\ calls'[k].todo = <<>>
  BY <1>2, <1>3, <1>4 DEF Pushed
<1> QED BY <1>5 DEF Members

\* Of the calls down to the last evaluate at b, only the one at q goes on.
Calm(b, q) ==
  /\ Keeps(q) /\ b <= q /\ (\A j \in 1 .. q - 1 : calls'[j] = calls[j]) /\ calls'[b] = calls[b]
  /\ \A j \in q + 1 .. Size : calls[j].at # "inner"
  /\ (Size' = q \/ (Size' = q + 1 /\ Size = q /\ calls'[q + 1].at # "inner"))
  /\ (calls[q].at = "inner" => calls'[q].i = calls[q].i \/ calls[q].i > Len(requested(calls[q].m)))

LEMMA CalmRule ==
  ASSUME Inv, Inv', Ahead, calls' \in Seq(Call), NEW b \in Evaluations, b \in Evaluations', AsIs(b), NEW q, Calm(b, q)
  PROVE  Untouched(b)
<1>1. TypeOK /\ Trees' /\ program' = program
  BY DEF Inv, Skeleton, Ahead
<1>2. b \in 1 .. Size /\ calls[b].m \in Module /\ q \in Nat
  <2>1. b \in 1 .. Size
    BY <1>1, CallsType DEF Evaluations
  <2> QED BY <1>1, <2>1, MembersType DEF Calm, Keeps
<1>3. records'[calls[b].m].status = "linked" => records[calls[b].m].status = "linked"
  BY <1>2 DEF Ahead
<1>4. \A j \in q + 1 .. Size : ~Visits(j, b)
  BY DEF Visits, Calm
<1>5. In(q + 1, b)' => calls'[q + 1].m \in Graph(calls[b].m)
  <2>1. In(q + 1, b)' => calls'[q + 1].m \in Graph(calls[b].m)'
    BY <1>1 DEF Trees, Tree, Under
  <2>2. \A x : Graph(x)' = Graph(x)
    BY <1>1, ProgramKept
  <2>3. calls'[b] = calls[b]
    BY DEF Calm
  <2>4. Graph(calls[b].m)' = Graph(calls[b].m)
    BY <2>2, <2>3
  <2> QED BY <2>1, <2>4
<1>6. Visits(q, b) => calls'[q].i = calls[q].i \/ calls[q].i > Len(requested(calls[q].m))
  BY DEF Visits, Calm
<1>7. /\ Keeps(q) /\ b <= q /\ calls'[b].i = calls[b].i /\ calls'[b].todo = calls[b].todo
      /\ (Size' = q \/ (Size' = q + 1 /\ Size = q /\ calls'[q + 1].at # "inner" /\ (In(q + 1, b)' => calls'[q + 1].m \in Graph(calls[b].m))))
  BY <1>5 DEF Calm
<1>8. \A x \in Members(b) : Index(x)' = Index(x) /\ Low(x)' = Low(x) /\ records'[x].status = records[x].status
  BY DEF AsIs
<1> QED BY <1>1, <1>3, <1>4, <1>6, <1>7, <1>8, UntouchedBy

(* A step that leaves what the last evaluate is evaluating. *)
LEMMA BaseStep ==
  ASSUME Inv, Inv', Next, Ahead, InEvaluation, Base \in Evaluations', ~(Enter \/ Depend \/ Close)
  PROVE  Untouched(Base)
<1>1. TypeOK /\ Shaped /\ Rooted /\ Trees /\ Skeleton /\ program' = program /\ Trees'
  BY ProgramStays DEF Inv, Skeleton
<1>2. PICK b, s : b = Base /\ s = Size
  OBVIOUS
<1>3. b \in Evaluations /\ b \in 1 .. s /\ s \in Nat /\ s > 0 /\ (Top.at # "evaluate" => b < s)
      /\ (Top.at = "evaluate" => b = s) /\ Top = calls[s] /\ Top \in Call /\ calls[b].m \in Module
  <2>1. b \in Evaluations /\ b \in 1 .. s /\ s \in Nat /\ calls[b].m \in Module
    BY <1>1, <1>2, Regions, MembersType
  <2>2. s > 0 /\ Top = calls[s] /\ Top \in Call
    BY <1>1, <1>2, CallsType DEF InEvaluation
  <2>3. (Top.at # "evaluate" => b < s) /\ (Top.at = "evaluate" => b = s)
    BY <1>1, <1>2, Bases DEF In
  <2> QED BY <2>1, <2>2, <2>3
<1>4. b \in 1 .. Size' /\ calls' \in Seq(Call)
  <2>1. calls' \in Seq(Call)
    BY PushedStep DEF Pushed
  <2>2. DOMAIN calls' = 1 .. Size'
    BY <2>1, LenProperties DEF Size
  <2> QED BY <1>2, <2>1, <2>2 DEF Evaluations
<1>5. ~\E e \in Module : Throws(e)
  <2> SUFFICES ASSUME NEW e \in Module, Throws(e)
               PROVE  FALSE
    OBVIOUS
  <2>1. Size' = b - 1
    BY <1>1, <1>2, UnwindFacts DEF Throws, Cuts
  <2> QED BY <1>3, <1>4, <2>1
<1>6. AsIs(b)
  BY <1>2, <1>3, <1>5, AsIsStep DEF Closes
<1>7. b \in Evaluations'
  BY <1>2
<1>8. \A q : Calm(b, q) => Untouched(b)
  BY <1>3, <1>4, <1>6, <1>7, CalmRule
<1>9. CASE \E f : Grows(f) /\ f.at # "inner"
  <2>1. PICK f : Grows(f) /\ f.at # "inner"
    BY <1>9
  <2>2. Keeps(s) /\ Size' = s + 1 /\ (\A j \in 1 .. s : calls'[j] = calls[j]) /\ calls'[s + 1].at # "inner"
    BY <1>1, <1>2, <2>1, KeepsRules DEF Grows
  <2>3. Calm(b, s)
    BY <1>2, <1>3, <2>2 DEF Calm
  <2> QED BY <1>2, <1>8, <2>3
<1>10. CASE Shrinks /\ Top.at = "body"
  <2>1. PICK q : q = s - 1
    OBVIOUS
  <2>2. Keeps(q) /\ Size' = q /\ \A j \in 1 .. q : calls'[j] = calls[j]
    BY <1>1, <1>2, <1>10, <2>1, KeepsRules DEF Shrinks
  <2>3. b <= q /\ q \in 1 .. q /\ calls'[b] = calls[b] /\ calls'[q] = calls[q]
        /\ \A j \in q + 1 .. s : calls[j].at # "inner"
    BY <1>3, <1>10, <2>1, <2>2
  <2>4. Calm(b, q)
    BY <1>2, <2>2, <2>3 DEF Calm
  <2> QED BY <1>2, <1>8, <2>4
<1>11. CASE Execute \/ EvaluateAsync
  <2>1. Looked /\ Step(Top).at = "inner" /\ Step(Top).m = Top.m /\ Frame("body", Top.m).at = "body"
        /\ (Turns(Step(Top)) \/ Runs(Step(Top), Frame("body", Top.m)))
    BY <1>1, <1>11, ExecuteFacts, EvaluateAsyncFacts, LookedFacts, FrameType, StepType
  <2>2. Top.at = "inner" /\ Top.i > Len(requested(Top.m))
    BY <1>1, <2>1, LookedFacts, ProgramType
  <2>3. Keeps(s) /\ (Size' = s \/ (Size' = s + 1 /\ calls'[s + 1].at # "inner"))
        /\ \A j \in 1 .. s - 1 : calls'[j] = calls[j]
    BY <1>1, <1>2, <1>4, <2>1, ShapedRuns DEF Turns, Runs
  <2>4. b <= s /\ calls'[b] = calls[b] /\ \A j \in s + 1 .. s : calls[j].at # "inner"
    BY <1>3, <2>2, <2>3
  <2>5. Calm(b, s)
    BY <1>2, <1>3, <2>2, <2>3, <2>4 DEF Calm
  <2> QED BY <1>2, <1>8, <2>5
<1>12. CASE \E m \in Module : Import(m) \/ requireModule(m)
  BY <1>1, <1>9, <1>12, evaluateFacts, FrameType DEF Import, requireModule
<1>13. CASE EnterSynthetic
  BY <1>1, <1>9, <1>13, EnterSyntheticFacts, CalleeType, FrameType
<1>14. ~Conclude
  BY <1>1, <1>2, <1>3, <1>4, ConcludeFacts DEF Shrinks, On
<1>15. ~Rethrow
  BY <1>1, <1>5, RethrowFacts DEF Throws, Rethrow, bodies
<1>16. CASE Ends
  <2>1. ~Resumed /\ ~BodyThrows
    BY <1>1, <1>5, ThrowFacts DEF InEvaluation, Throws, BodyThrows, bodies
  <2> QED BY <1>1, <1>10, <1>16, <2>1, ReturnFacts, SuspendFacts, BodyFacts DEF Ends
<1>17. ~(Gather \/ ExecuteGathered \/ SkipGathered \/ Completed \/ \E m \in Module : Settles(m))
  BY DEF InEvaluation, Gather, ExecuteGathered, SkipGathered, Completed, Gathered, On, Settles,
     asyncModuleExecutionRejected, asyncModuleExecutionFulfilled
<1> QED BY <1>2, <1>11, <1>12, <1>13, <1>14, <1>15, <1>16, <1>17 DEF Next, Runtime

----------------------------------------------------------------------------
(* More importers wait, and more has completed. *)
LEMMA UpwardKept ==
  ASSUME TypeOK, Ahead, NEW x \in Module, NEW y, Upward(x, y)
  PROVE  Upward(x, y)'
<1> SUFFICES ASSUME NEW S \in SUBSET Module, x \in S, \A q \in S : Parents(q)' \subseteq S
             PROVE  y \in S
  BY DEF Upward
<1>1. \A q \in S : Parents(q) \subseteq S
  BY DEF Ahead
<1> QED BY <1>1 DEF Upward

LEMMA LearntKept ==
  ASSUME TypeOK, Ahead, NEW x \in Module, NEW r \in Module, Learnt(x, r)
  PROVE  Learnt(x, r)'
<1>1. program' = program /\ finished \subseteq finished'
  BY DEF Ahead
<1>2. Graph(r)' = Graph(r) /\ cyclic(r)' = cyclic(r)
  BY <1>1, ProgramKept
<1>3. Fin(r) => Fin(r)'
  BY <1>1, <1>2 DEF Fin
<1>4. ASSUME cyclic(r), records[r].cycleRoot # None, x \in Parents(records[r].cycleRoot)
      PROVE  Learnt(x, r)'
  <2>1. PICK y : y = records[r].cycleRoot
    OBVIOUS
  <2>2. y \in Module
    BY <1>4, <2>1, RecordsType
  <2>3. x \in Parents(y)' /\ records'[r].cycleRoot = y
    BY <1>4, <2>1, <2>2 DEF Ahead
  <2> QED BY <1>2, <1>4, <2>1, <2>3 DEF Learnt
<1> QED BY <1>3, <1>4 DEF Learnt

(* What an evaluate has found and learnt stays so while it is left alone. *)
LEMMA LookedKept ==
  ASSUME TypeOK, program' = program, NEW k, Untouched(k), NEW x \in Module
  PROVE  LookedAt(k, x)' \subseteq LookedAt(k, x)
<1> SUFFICES ASSUME NEW i \in LookedAt(k, x)'
             PROVE  i \in LookedAt(k, x)
  OBVIOUS
<1>1. requested(x)' = requested(x)
  BY ProgramKept
<1>2. i \in DOMAIN requested(x) /\ \A j : Visits(j, k)' /\ calls'[j].m = x => i < calls'[j].i
  BY <1>1 DEF LookedAt
<1>3. i \in 1 .. Len(requested(x)) /\ Len(requested(x)) \in Nat
  BY <1>2, ProgramType
<1> SUFFICES ASSUME NEW j, Visits(j, k), calls[j].m = x
             PROVE  i < calls[j].i
  BY <1>2 DEF LookedAt
<1>4. Visits(j, k)' /\ calls'[j].m = x
  BY DEF Untouched, Visits
<1>5. calls[j].i \in Nat
  BY CallsType, CallFields DEF Visits, In
<1>6. CASE calls'[j].i = calls[j].i
  BY <1>2, <1>4, <1>6
<1>7. CASE calls[j].i > Len(requested(x))
  BY <1>3, <1>5, <1>7
<1> QED BY <1>6, <1>7 DEF Untouched

LEMMA WayKept ==
  ASSUME Inv, Inv', Next, Ahead, NEW k \in Evaluations, Way(k), Untouched(k)
  PROVE  Way(k)'
<1>1. /\ TypeOK /\ program' = program /\ Tree(k) /\ k \in 1 .. Size /\ Members(k) \subseteq Module
         /\ Members(k)' = Members(k)
      /\ tangled \subseteq tangled'
  <2>1. TypeOK /\ program' = program /\ Tree(k) /\ tangled \subseteq tangled'
    BY DEF Inv, Skeleton, Trees, Ahead
  <2>2. k \in 1 .. Size
    BY <2>1, CallsType DEF Evaluations
  <2> QED BY <2>1, <2>2, MembersType DEF Untouched, Members
<1>2. /\ \A x : requested(x)' = requested(x) /\ cyclic(x)' = cyclic(x)
      /\ \A x \in Module : \A i \in DOMAIN requested(x) : requested(x)[i] \in Module
  BY <1>1, ProgramKept, ProgramType
<1>3. \A x \in Module : LookedAt(k, x)' \subseteq LookedAt(k, x)
  BY <1>1, LookedKept
<1>4. \A x \in Module : \A i \in LookedAt(k, x) : i \in DOMAIN requested(x)
  BY DEF LookedAt
<1>5. \A j : Visits(j, k)' <=> Visits(j, k)
  BY DEF Untouched
<1>6. \A j : Visits(j, k) => calls'[j].m = calls[j].m /\ calls[j].m \in Members(k)
  BY <1>1, <1>5 DEF Untouched, Visits, Tree, Visited
<1>7. \A x \in Members(k) : Index(x)' = Index(x) /\ Low(x)' = Low(x) /\ records[x].status = "evaluating"
      /\ records'[x].status = "evaluating"
  BY <1>1 DEF Untouched, Tree, Numbered
<1>8. Looks(k)'
  <2> SUFFICES ASSUME NEW x \in Members(k), NEW i \in LookedAt(k, x)'
               PROVE  LET r == requested(x)[i]
                      IN  /\ records'[r].status # "linked"
                          /\ r \in Members(k) =>
                             /\ records'[x].dfsAncestorIndex <= records'[r].dfsIndex
                             /\ \A j : Visits(j, k) => ~(/\ records'[x].dfsIndex < records'[calls'[j].m].dfsIndex
                                                         /\ records'[calls'[j].m].dfsIndex <= records'[r].dfsIndex)
    <3>1. \A x_1 : \A i_1 : (requested(x_1)[i_1])' = requested(x_1)[i_1]
      BY <1>2
    <3> QED BY <1>1, <1>5, <3>1 DEF Looks, Index, Low
  <2>1. PICK r : r = requested(x)[i]
    OBVIOUS
  <2>2. x \in Module /\ i \in LookedAt(k, x)
    BY <1>1, <1>3
  <2>3. r \in Module
    BY <1>2, <1>4, <2>1, <2>2
  <2>4. /\ records[r].status # "linked"
        /\ r \in Members(k) =>
                             /\ Low(x) <= Index(r)
                             /\ \A j : Visits(j, k) => ~(Index(x) < Index(calls[j].m) /\ Index(calls[j].m) <= Index(r))
    BY <2>1, <2>2 DEF Way, Looks
  <2>5. records'[r].status # "linked"
    BY <2>3, <2>4 DEF Ahead
  <2>6. \A j : Visits(j, k) => records'[calls'[j].m].dfsIndex = records[calls[j].m].dfsIndex
    BY <1>6, <1>7 DEF Index
  <2> QED BY <1>7, <2>1, <2>4, <2>5, <2>6 DEF Index, Low
<1>9. ~abandoned' => Learns(k)'
  <2> SUFFICES ASSUME ~abandoned', NEW x \in Members(k), Orderly(x)', NEW i \in LookedAt(k, x)'
               PROVE  requested(x)[i] \in Members(k) \/ Learnt(x, requested(x)[i])'
    BY <1>1, <1>2 DEF Learns
  <2>1. PICK r : r = requested(x)[i]
    OBVIOUS
  <2>2. x \in Module /\ i \in LookedAt(k, x)
    BY <1>1, <1>3
  <2>3. r \in Module
    BY <1>2, <1>4, <2>1, <2>2
  <2>4. ~abandoned /\ Orderly(x)
    BY <1>1, <2>2, OrderlyRules DEF Ahead
  <2>5. r \in Members(k) \/ Learnt(x, r)
    BY <2>1, <2>2, <2>4 DEF Way, Learns
  <2>6. Learnt(x, r) => Learnt(x, r)'
    BY <1>1, <2>2, <2>3, LearntKept
  <2>7. requested(x)[i]' = r
    BY <1>2, <2>1
  <2> QED BY <2>1, <2>5, <2>6, <2>7
<1>10. Chain(k)'
  <2> SUFFICES ASSUME NEW x \in Members(k), NEW j, Nearest(j, k, x)', calls'[j].m # x, x \notin finished'
               PROVE  (Upward(x, calls[j].m)' /\ Pending(calls[j].m)' > 0) \/ Handing(j, k, x)'
    BY <1>1 DEF Chain
  <2>1. PICK m : m = calls[j].m
    OBVIOUS
  <2>2. Visits(j, k) /\ calls'[j].m = m /\ m \in Members(k) /\ m \in Module /\ x \in Module /\ m # x
    BY <1>1, <1>5, <1>6, <2>1 DEF Nearest
  <2>3. Nearest(j, k, x)
    <3>1. Index(calls[j].m) <= Index(x)
      BY <1>6, <1>7, <2>2 DEF Nearest
    <3>2. ASSUME NEW n, Visits(n, k), j < n
          PROVE  Index(x) < Index(calls[n].m)
      BY <1>5, <1>6, <1>7, <3>2 DEF Nearest
    <3> QED BY <2>2, <3>1, <3>2 DEF Nearest
  <2>4. (Upward(x, m) /\ Pending(m) > 0) \/ Handing(j, k, x)
    BY <2>1, <2>2, <2>3 DEF Way, Chain, Ahead
  <2>5. CASE Upward(x, m) /\ Pending(m) > 0
    <3>1. Upward(x, m)'
      BY <1>1, <2>2, <2>5, UpwardKept
    <3>2. Pending(m)' >= Pending(m) /\ Pending(m) \in Nat /\ Pending(m)' \in Nat
      <4>1. records'[m].status = "evaluating"
        BY <1>7, <2>2
      <4>2. TypeOK'
        BY DEF Inv
      <4>3. records' \in [Module -> RecordType]
        BY <4>2 DEF TypeOK, RecordType
      <4> QED BY <1>1, <2>2, <4>1, <4>3, WaitsStep, RecordsType DEF RecordType, Pending
    <3>3. Pending(m)' > 0
      BY <2>5, <3>2
    <3>4. Pending(calls[j].m)' > 0
      BY <2>2, <3>3 DEF Pending
    <3>5. Upward(x, calls[j].m)'
      BY <2>2, <3>1 DEF Upward
    <3> QED BY <3>4, <3>5
  <2>6. CASE Handing(j, k, x)
    <3>1. PICK c : c = requested(m)[calls[j].i]
      OBVIOUS
    <3>2. /\ calls[j].i <= Len(requested(m)) /\ c \in Members(k) /\ c \in Module /\ Index(m) < Index(c)
             /\ Index(c) <= Index(x)
          /\ records[c].asyncEvaluation /\ Upward(x, c)
      BY <1>1, <2>1, <2>6, <3>1 DEF Handing
    <3>3. calls'[j].i = calls[j].i
      <4>1. calls[j].i \in Nat /\ Len(requested(m)) \in Nat
        BY <1>1, <2>2, CallsType, CallFields, ProgramType DEF Visits, In
      <4> QED BY <2>1, <2>2, <3>2, <4>1 DEF Untouched
    <3>4. records'[c].asyncEvaluation
      <4>1. ~Succeeds(c)
        BY DEF Succeeds, Quiet
      <4> QED BY <3>2, <4>1, WaitsStep
    <3>5. Upward(x, c)'
      BY <1>1, <2>2, <3>2, UpwardKept
    <3>6. Index(m)' = Index(m) /\ Index(c)' = Index(c) /\ Index(x)' = Index(x)
      BY <1>7, <2>2, <3>2
    <3>7. requested(m)' = requested(m)
      BY <1>2
    <3>8. /\ calls'[j].i <= Len(requested(m)') /\ c \in Members(k)' /\ c = requested(m)'[calls'[j].i]
          /\ Index(m)' < Index(c)' /\ Index(c)' <= Index(x)'
      BY <1>1, <3>1, <3>2, <3>3, <3>6, <3>7
    <3> QED BY <2>2, <3>4, <3>5, <3>8 DEF Handing
  <2> QED BY <2>4, <2>5, <2>6
<1> QED BY <1>8, <1>9, <1>10 DEF Way

----------------------------------------------------------------------------
(* An evaluate that is not the last, or that a step leaves alone, keeps what it learnt. *)
LEMMA WaysRest ==
  ASSUME Inv, Inv', Next, Ahead, Ways, NEW k \in Evaluations',
         ~(InEvaluation /\ k = Base /\ (Enter \/ Depend \/ Close))
  PROVE  Way(k)'
<1>1. TypeOK /\ Shaped
  BY DEF Inv, Skeleton
<1>2. CASE k \notin Evaluations
  <2>1. Members(k)' = {}
    BY <1>2, NewEvaluations
  <2> QED BY <2>1 DEF Way, Looks, Learns, Chain
<1>3. CASE k \in Evaluations
  <2>1. InEvaluation
    <3>1. ~Idle /\ ~On("completion") /\ ~(On("body") /\ Resumed)
      BY <1>1, <1>3, NoEvaluations
    <3> QED BY <3>1 DEF InEvaluation, Resumed, On
  <2>2. Untouched(k)
    BY <1>3, <2>1, LowerStep, BaseStep
  <2> QED BY <1>3, <2>2, WayKept DEF Ways
<1> QED BY <1>2, <1>3

----------------------------------------------------------------------------
\* The step visits c for the evaluate at b: its index is the next one, n.
Entering(b, c, n, s) ==
  /\ b \in Nat /\ c \in Module /\ n \in Nat /\ s \in Nat /\ s = Size /\ b = Base /\ b \in Evaluations /\ b \in 1 .. s
  /\ records[c].status = "linked"
  /\ \A x \in Module : records'[x].status = IF x = c THEN "evaluating" ELSE records[x].status
  /\ Members(b)' = Members(b) \cup {c} /\ Members(b) \subseteq Module /\ c \notin Members(b)
  /\ Index(c)' = n /\ Low(c)' = n
  /\ \A x \in Members(b) : Index(x)' = Index(x) /\ Low(x)' = Low(x) /\ Index(x) < n /\ Index(x) \in Nat
     /\ Low(x) \in Nat
  /\ \A j : Visits(j, b)' <=> Visits(j, b) \/ j = s + 1
  /\ calls'[s + 1].at = "inner" /\ calls'[s + 1].m = c /\ calls'[s + 1].i = 1
  /\ \A j : Visits(j, b) => /\ j \in 1 .. s /\ j # b /\ calls'[j] = calls[j] /\ calls[j].m \in Members(b)
  /\ \A x \in Members(b) : \A j : Nearest(j, b, x)' => Nearest(j, b, x)
  /\ \A j : Nearest(j, b, c)' => j = s + 1
  /\ \A x \in Members(b) : records[x].status = "evaluating" /\ x # c

LEMMA EnterSetup ==
  ASSUME TypeOK, Shaped, Trees, program' = program, tangled' = tangled, Enter
  PROVE  \E b, c, n, s : Entering(b, c, n, s)
<1>1. PICK b \in Nat, c \in Module, n \in Nat, s \in Nat :
        b = Base /\ c = Callee /\ n = calls[Base].i /\ s = Size
  <2>1. Looking
    BY EnterFacts
  <2>2. Callee \in Module /\ Size \in Nat /\ Base \in 1 .. Size
    BY <2>1, CalleeType, Bases
  <2>3. calls[Base] \in Call /\ Base \in Nat
    BY <2>2, CallsType
  <2>4. calls[Base].i \in Nat
    BY <2>3, CallFields
  <2> QED BY <2>2, <2>3, <2>4
<1>2. /\ Looking /\ cyclic(c) /\ records[c].status = "linked" /\ calls' \in Seq(Call)
      /\ Size' = s + 1 /\ calls'[s + 1] = Frame("inner", c)
      /\ \A j \in 1 .. s : j # b => calls'[j] = calls[j]
      /\ calls'[b].at = "evaluate" /\ calls'[b].m = calls[b].m
      /\ calls'[b].i = n + 1 /\ calls'[b].todo = Append(calls[b].todo, c)
      /\ \A x \in Module :
           /\ records'[x].status = IF x = c THEN "evaluating" ELSE records[x].status
           /\ Index(x)' = IF x = c THEN n ELSE Index(x)
           /\ Low(x)' = IF x = c THEN n ELSE Low(x)
  BY <1>1, EnterFacts DEF Typed
<1>3. /\ b \in Evaluations /\ b \in 1 .. s /\ InEvaluation
      /\ \A k \in Evaluations : k <= b /\ k \in 1 .. s
      /\ \A j, k : In(j, k) => j \in 1 .. s /\ k \in 1 .. s
      /\ \A j, k : In(j, k) /\ k # b => j < b
      /\ \A j \in b + 1 .. s : In(j, b)
  BY <1>1, <1>2, CalleeType, Regions
<1>4. /\ Top = calls[s] /\ Top.m \in Module
      /\ Top.at = "evaluate" => c = Top.m /\ s = b
      /\ Top.at # "evaluate" => /\ Top.at = "inner" /\ c \in Requests(Top.m) /\ b < s
  BY <1>1, <1>2, CalleeType, Bases DEF In
<1>5. Keeps(s) /\ DOMAIN calls' = 1 .. s + 1 /\ DOMAIN calls = 1 .. s
  <2>1. Keeps(Size)
    BY ShapedEnter
  <2> QED BY <1>1, <1>2, <2>1, CallsType, LenProperties DEF Size, Keeps
<1>6. /\ \A j \in 1 .. s : \A k : In(j, k)' <=> In(j, k)
      /\ \A j \in 1 .. s : \A k : Visits(j, k)' <=> Visits(j, k)
      /\ \A k \in 1 .. s : k \in Evaluations' <=> k \in Evaluations
  BY <1>2, <1>5, Prefix
<1>7. calls'[s + 1].at = "inner" /\ calls'[s + 1].m = c /\ calls'[s + 1].i = 1
  BY <1>2, FrameType
<1>8. Evaluations' = Evaluations
  BY <1>3, <1>5, <1>6, <1>7 DEF Evaluations
<1>9. /\ \A k : In(s + 1, k)' <=> k = b
      /\ \A k : Visits(s + 1, k)' <=> k = b
  <2>1. \A j \in b + 1 .. s : calls'[j].at # "evaluate"
    BY <1>1, <1>2, <1>3, Bases
  <2>2. In(s + 1, b)'
    BY <1>3, <1>5, <1>7, <1>8, <2>1 DEF In
  <2>3. \A k : In(s + 1, k)' => k = b
    <3> SUFFICES ASSUME NEW k, In(s + 1, k)', k # b PROVE FALSE
      OBVIOUS
    <3>1. k \in Evaluations /\ k < b
      BY <1>3, <1>8 DEF In
    <3>2. b \in k + 1 .. s + 1 /\ calls'[b].at = "evaluate"
      BY <1>2, <1>3, <3>1
    <3> QED BY <3>2 DEF In
  <2> QED BY <1>7, <2>2, <2>3 DEF Visits
<1>10. \A j, k : In(j, k)' => j \in 1 .. s + 1
  BY <1>5 DEF In
<1>100. /\ calls[b].todo \in Seq(Module) /\ Len(calls[b].todo) \in Nat
        /\ DOMAIN calls[b].todo = 1 .. Len(calls[b].todo) /\ Members(b) \subseteq Module
        /\ \A i \in 1 .. Len(calls[b].todo) : calls[b].todo[i] \in Members(b)
        /\ DOMAIN calls'[b].todo = 1 .. Len(calls[b].todo) + 1
        /\ calls'[b].todo[Len(calls[b].todo) + 1] = c
        /\ \A i \in 1 .. Len(calls[b].todo) : calls'[b].todo[i] = calls[b].todo[i]
  <2>1. /\ calls[b].todo \in Seq(Module) /\ Len(calls[b].todo) \in Nat
        /\ DOMAIN calls[b].todo = 1 .. Len(calls[b].todo) /\ Members(b) \subseteq Module
    BY <1>1, <1>3, MembersType
  <2>2. PICK t, u : t = calls[b].todo /\ u = calls'[b].todo
    OBVIOUS
  <2>3. t \in Seq(Module) /\ u = Append(t, c)
    BY <1>2, <2>1, <2>2
  <2>4. /\ u \in Seq(Module) /\ Len(u) = Len(t) + 1 /\ u[Len(t) + 1] = c
        /\ \A i \in 1 .. Len(t) : u[i] = t[i]
    BY <2>3, AppendProperties
  <2>5. DOMAIN u = 1 .. Len(t) + 1
    BY <2>4, LenProperties
  <2>6. \A i \in 1 .. Len(t) : t[i] \in Members(b)
    BY <2>1, <2>2 DEF Members
  <2> QED BY <2>1, <2>2, <2>4, <2>5, <2>6
<1>11. /\ Members(b)' = Members(b) \cup {c} /\ Members(b) \subseteq Module /\ c \notin Members(b)
       /\ \A x \in Members(b) : records[x].status = "evaluating" /\ x # c
  <2>3. \A y : y \in Members(b)' <=> y \in Members(b) \cup {c}
    <3>1. ASSUME NEW y \in Members(b)' PROVE y \in Members(b) \cup {c}
      <4>1. PICK i \in DOMAIN calls'[b].todo : y = calls'[b].todo[i]
        BY <3>1 DEF Members
      <4>2. i = Len(calls[b].todo) + 1 \/ i \in 1 .. Len(calls[b].todo)
        BY <1>100, <4>1
      <4> QED BY <1>100, <4>1, <4>2
    <3>2. ASSUME NEW y \in Members(b) PROVE y \in Members(b)'
      <4>1. PICK i \in 1 .. Len(calls[b].todo) : y = calls[b].todo[i]
        BY <1>100 DEF Members
      <4>2. i \in DOMAIN calls'[b].todo /\ y = calls'[b].todo[i]
        BY <1>100, <4>1
      <4> QED BY <4>2 DEF Members
    <3>3. c \in Members(b)'
      <4>1. Len(calls[b].todo) + 1 \in DOMAIN calls'[b].todo
        BY <1>100
      <4> QED BY <1>100, <4>1 DEF Members
    <3> QED BY <3>1, <3>2, <3>3
  <2> QED BY <1>2, <1>3, <1>100, <2>3 DEF Trees, Tree, Numbered
<1>14. Tree(b)
  BY <1>3 DEF Trees
<1>15. Top.at = "evaluate" => Members(b) = {} /\ n = 1 /\ calls[b].m = c
  BY <1>1, <1>2, <1>3, <1>4, <1>11, <1>14 DEF Tree, FromRoot
<1>16. Top.at # "evaluate" =>
         /\ Visits(s, b) /\ Top.m \in Members(b) /\ \A x \in Members(b) : Clean(b, x) => Top.m \in Graph(x)
  BY <1>1, <1>3, <1>4, TopVisit
<1>17. /\ \A x : requested(x)' = requested(x) /\ cyclic(x)' = cyclic(x) /\ Graph(x)' = Graph(x)
       /\ \A x \in Module : Clean(b, x)' => Clean(b, x)
  BY ProgramKept, OrderlyRules
<1>18. \A x \in Members(b) : Index(x)' = Index(x) /\ Low(x)' = Low(x) /\ Index(x) < n /\ Index(x) \in Nat
       /\ Low(x) \in Nat
  BY <1>1, <1>2, <1>11, <1>14, RecordsType DEF Tree, Numbered
<1>19. n >= 1 /\ Index(c)' = n /\ Low(c)' = n
  BY <1>1, <1>2, <1>14 DEF Tree, Numbered
<1>20. \A j : Visits(j, b) => /\ j \in 1 .. s /\ j # b /\ calls'[j] = calls[j] /\ calls[j].m \in Members(b)
  BY <1>2, <1>3, <1>14 DEF Visits, In, Tree, Visited
<1>21. \A j : Visits(j, b)' <=> Visits(j, b) \/ j = s + 1
  BY <1>3, <1>6, <1>9, <1>10 DEF Visits
<1>23. \A j : Visits(j, b) => Index(calls[j].m)' = Index(calls[j].m) /\ Low(calls[j].m)' = Low(calls[j].m)
                              /\ Index(calls[j].m) < n /\ Index(calls[j].m) \in Nat
  <2> SUFFICES ASSUME NEW j, Visits(j, b)
               PROVE  Index(calls[j].m)' = Index(calls[j].m) /\ Low(calls[j].m)' = Low(calls[j].m)
                              /\ Index(calls[j].m) < n /\ Index(calls[j].m) \in Nat
    OBVIOUS
  <2>1. PICK x \in Members(b) : x = calls[j].m /\ x = calls'[j].m
    BY <1>20
  <2> QED BY <1>18, <2>1
<1>24. (Index(calls[s + 1].m))' = n /\ (Low(calls[s + 1].m))' = n
  BY <1>7, <1>19
<1>27. \A x \in Members(b) : \A j : Nearest(j, b, x)' => Nearest(j, b, x)
  BY <1>18, <1>20, <1>21, <1>23, <1>24 DEF Nearest
<1>28. \A j : Nearest(j, b, c)' => j = s + 1
  BY <1>19, <1>20, <1>21, <1>23, <1>24 DEF Nearest
<1>29. Entering(b, c, n, s)
  BY <1>1, <1>2, <1>3, <1>7, <1>11, <1>18, <1>19, <1>20, <1>21, <1>27, <1>28 DEF Entering
<1> QED BY <1>29

(* A module that is entered has found nothing yet. *)
LEMMA WayEnter ==
  ASSUME Inv, Inv', Next, Ahead, Way(Base), Enter
  PROVE  \A b : b = Base => Way(b)'
<1>1. TypeOK /\ Shaped /\ Trees /\ program' = program /\ tangled' = tangled /\ tangled \subseteq tangled'
  BY DEF Inv, Skeleton, Ahead, Enter, history
<1>2. PICK b, c, n, s : Entering(b, c, n, s)
  BY <1>1, EnterSetup
<1>3. SameAsync /\ SameWaits
  BY <1>1, EnterFacts
<1>4. b = Base /\ Way(b)
  BY <1>2 DEF Entering
<1>6. /\ \A x : requested(x)' = requested(x) /\ cyclic(x)' = cyclic(x)
      /\ \A x \in Module : \A i \in DOMAIN requested(x) : requested(x)[i] \in Module
      /\ \A x \in Module : DOMAIN requested(x) = 1 .. Len(requested(x)) /\ Len(requested(x)) \in Nat
  BY <1>1, ProgramKept, ProgramType
<1>7. LookedAt(b, c)' = {}
  <2> SUFFICES ASSUME NEW i \in LookedAt(b, c)'
               PROVE  FALSE
    OBVIOUS
  <2>1. i \in DOMAIN requested(c) /\ \A j : Visits(j, b)' /\ calls'[j].m = c => i < calls'[j].i
    BY <1>6 DEF LookedAt
  <2>2. i < 1
    BY <1>2, <2>1 DEF Entering
  <2>3. i \in 1 .. Len(requested(c)) /\ Len(requested(c)) \in Nat
    BY <1>2, <1>6, <2>1 DEF Entering
  <2> QED BY <2>2, <2>3
<1>8. \A x \in Module : LookedAt(b, x)' \subseteq LookedAt(b, x)
  <2> SUFFICES ASSUME NEW x \in Module, NEW i \in LookedAt(b, x)'
               PROVE  i \in LookedAt(b, x)
    OBVIOUS
  <2>1. i \in DOMAIN requested(x) /\ \A j : Visits(j, b)' /\ calls'[j].m = x => i < calls'[j].i
    BY <1>6 DEF LookedAt
  <2>2. \A j : Visits(j, b) => Visits(j, b)' /\ calls'[j] = calls[j]
    BY <1>2 DEF Entering
  <2> QED BY <2>1, <2>2 DEF LookedAt
<1>9. \A x \in Module : \A i \in LookedAt(b, x) : i \in DOMAIN requested(x) /\ requested(x)[i] \in Module
  BY <1>6 DEF LookedAt
<1>10. Looks(b)'
  <2> SUFFICES ASSUME NEW x \in Members(b)', NEW i \in LookedAt(b, x)'
               PROVE  LET r == requested(x)[i]
                      IN  /\ records'[r].status # "linked"
                          /\ r \in Members(b)' =>
                             /\ records'[x].dfsAncestorIndex <= records'[r].dfsIndex
                             /\ \A j : Visits(j, b)' => ~(/\ records'[x].dfsIndex < records'[calls'[j].m].dfsIndex
                                                         /\ records'[calls'[j].m].dfsIndex <= records'[r].dfsIndex)
    <3>1. \A x_1 : \A i_1 : (requested(x_1)[i_1])' = requested(x_1)[i_1]
      BY <1>6
    <3> QED BY <3>1 DEF Looks, Index, Low
  <2>1. PICK r : r = requested(x)[i]
    OBVIOUS
  <2>2. x \in Members(b) /\ x \in Module /\ i \in LookedAt(b, x)
    BY <1>2, <1>7, <1>8 DEF Entering
  <2>3. r \in Module
    BY <1>9, <2>1, <2>2
  <2>4. /\ records[r].status # "linked"
        /\ r \in Members(b) =>
                             /\ Low(x) <= Index(r)
                             /\ \A j : Visits(j, b) => ~(Index(x) < Index(calls[j].m) /\ Index(calls[j].m) <= Index(r))
    BY <1>4, <2>1, <2>2 DEF Way, Looks
  <2>5. records'[r].status # "linked" /\ r # c
    BY <1>2, <2>3, <2>4 DEF Entering
  <2>6. ASSUME r \in Members(b)', NEW j, Visits(j, b)'
        PROVE  ~(records'[x].dfsIndex < records'[calls'[j].m].dfsIndex /\ records'[calls'[j].m].dfsIndex <= records'[r].dfsIndex)
    <3>1. r \in Members(b)
      BY <1>2, <2>5, <2>6 DEF Entering
    <3>2. CASE Visits(j, b)
      BY <1>2, <2>2, <2>4, <3>1, <3>2 DEF Entering, Index
    <3>3. CASE j = s + 1
      BY <1>2, <3>1, <3>3 DEF Entering, Index
    <3> QED BY <1>2, <2>6, <3>2, <3>3 DEF Entering
  <2>7. r \in Members(b)' => records'[x].dfsAncestorIndex <= records'[r].dfsIndex
    BY <1>2, <2>2, <2>4, <2>5 DEF Entering, Index, Low
  <2> QED BY <2>1, <2>5, <2>6, <2>7
<1>11. ~abandoned' => Learns(b)'
  <2> SUFFICES ASSUME ~abandoned', NEW x \in Members(b)', Orderly(x)', NEW i \in LookedAt(b, x)'
               PROVE  requested(x)[i] \in Members(b)' \/ Learnt(x, requested(x)[i])'
    BY <1>6 DEF Learns
  <2>1. PICK r : r = requested(x)[i]
    OBVIOUS
  <2>2. x \in Members(b) /\ x \in Module /\ i \in LookedAt(b, x)
    BY <1>2, <1>7, <1>8 DEF Entering
  <2>3. r \in Module
    BY <1>9, <2>1, <2>2
  <2>4. ~abandoned /\ Orderly(x)
    BY <1>1, <2>2, OrderlyRules DEF Ahead
  <2>5. r \in Members(b) \/ Learnt(x, r)
    BY <1>4, <2>1, <2>2, <2>4 DEF Way, Learns
  <2>6. Learnt(x, r) => Learnt(x, r)'
    BY <1>1, <2>2, <2>3, LearntKept
  <2>7. requested(x)[i]' = r
    BY <1>6, <2>1
  <2>8. r \in Members(b) => r \in Members(b)'
    BY <1>2 DEF Entering
  <2> QED BY <2>1, <2>5, <2>6, <2>7, <2>8
<1>12. Chain(b)'
  <2> SUFFICES ASSUME NEW x \in Members(b)', NEW j, Nearest(j, b, x)', calls'[j].m # x, x \notin finished'
               PROVE  (Upward(x, calls[j].m)' /\ Pending(calls[j].m)' > 0) \/ Handing(j, b, x)'
    BY DEF Chain
  <2>1. PICK m : m = calls[j].m
    OBVIOUS
  <2>2. x \in Members(b) /\ Nearest(j, b, x)
    BY <1>2 DEF Entering
  <2>3. Visits(j, b) /\ calls'[j] = calls[j] /\ m \in Members(b) /\ m \in Module /\ x \in Module /\ m # x
    BY <1>2, <2>1, <2>2 DEF Nearest, Entering
  <2>4. (Upward(x, m) /\ Pending(m) > 0) \/ Handing(j, b, x)
    BY <1>4, <2>1, <2>2, <2>3 DEF Way, Chain, Ahead
  <2>5. CASE Upward(x, m) /\ Pending(m) > 0
    <3>1. Upward(x, m)'
      BY <1>1, <2>3, <2>5, UpwardKept
    <3>2. Pending(m)' = Pending(m)
      BY <1>3, <2>3 DEF SameWaits
    <3>3. Pending(calls[j].m)' > 0
      BY <2>1, <2>3, <2>5, <3>2 DEF Pending
    <3>4. Upward(x, calls[j].m)'
      BY <2>1, <2>3, <3>1 DEF Upward
    <3> QED BY <3>3, <3>4
  <2>6. CASE Handing(j, b, x)
    <3>1. PICK d : d = requested(m)[calls[j].i]
      OBVIOUS
    <3>2. /\ calls[j].i <= Len(requested(m)) /\ d \in Members(b) /\ d \in Module /\ Index(m) < Index(d)
             /\ Index(d) <= Index(x)
          /\ records[d].asyncEvaluation /\ Upward(x, d)
      BY <1>2, <2>1, <2>6, <3>1 DEF Handing, Entering
    <3>3. records'[d].asyncEvaluation
      BY <1>3, <3>2 DEF SameAsync
    <3>4. Upward(x, d)'
      BY <1>1, <2>3, <3>2, UpwardKept
    <3>5. Index(m)' = Index(m) /\ Index(d)' = Index(d) /\ Index(x)' = Index(x) /\ d \in Members(b)'
      BY <1>2, <2>2, <2>3, <3>2 DEF Entering
    <3>6. requested(m)' = requested(m)
      BY <1>6
    <3>7. /\ calls'[j].i <= Len(requested(m)') /\ d = requested(m)'[calls'[j].i] /\ calls'[j].m = m
          /\ Index(m)' < Index(d)' /\ Index(d)' <= Index(x)'
      BY <2>1, <2>3, <3>1, <3>2, <3>5, <3>6
    <3> QED BY <3>3, <3>4, <3>5, <3>7 DEF Handing
  <2> QED BY <2>4, <2>5, <2>6
<1> QED BY <1>4, <1>10, <1>11, <1>12 DEF Way

----------------------------------------------------------------------------
(* What an orderly module finds is its own, has completed, or will be waited for. *)
LEMMA DependLearns ==
  ASSUME Inv, Ahead, Histories, Settled, Depend, NEW m, m = Top.m, NEW c, c = Callee, Orderly(m)
  PROVE  c \in Members(Base) \/ Learnt(m, c)'
<1>1. TypeOK /\ Shaped /\ Rooted /\ Trees /\ Tangles /\ program' = program /\ tangled' = tangled
  BY DEF Inv, Skeleton, Ahead, Depend, history
<1>2. PICK s, b, r : s = Size /\ b = Base /\ r = Awaited(c)
  OBVIOUS
<1>3. /\ Looking /\ Top.at = "inner" /\ Seen /\ ErrorOf(c) = None /\ m \in Module /\ r \in Module /\ ~hasError(r)
      /\ records[r].asyncEvaluation => m \in Parents(r)'
  <2>1. /\ Looking /\ Top.at = "inner" /\ Seen /\ ErrorOf(c) = None /\ m \in Module /\ r \in Module /\ ~hasError(r)
        /\ \A x \in Module : records'[x].asyncParentModules =
                       IF x = r /\ records[r].asyncEvaluation THEN Append(records[x].asyncParentModules, m)
                       ELSE records[x].asyncParentModules
    BY <1>1, <1>2, DependFacts
  <2>2. records[r].asyncEvaluation => m \in Parents(r)'
    <3> SUFFICES ASSUME records[r].asyncEvaluation
                 PROVE  m \in Parents(r)'
      OBVIOUS
    <3>1. PICK q : q = records[r].asyncParentModules
      OBVIOUS
    <3>2. q \in Seq(Module) /\ records'[r].asyncParentModules = Append(q, m)
      BY <1>1, <2>1, <3>1, RecordsType
    <3>3. Len(Append(q, m)) = Len(q) + 1 /\ Append(q, m)[Len(q) + 1] = m /\ Len(q) + 1 \in DOMAIN Append(q, m)
      BY <2>1, <3>2, AppendProperties, LenProperties
    <3> QED BY <3>2, <3>3 DEF Parents
  <2> QED BY <2>1, <2>2
<1>4. c \in Module /\ InEvaluation /\ s \in Nat /\ c \in Requests(m) /\ c \in Graph(m) /\ ~hasError(c)
  <2>1. c \in Module /\ InEvaluation /\ s \in Nat /\ c \in Requests(m)
    BY <1>1, <1>2, <1>3, CalleeType
  <2>2. m \in Graph(m)
    BY <1>1, <1>3, GraphRules
  <2> QED BY <1>1, <1>3, <2>1, <2>2, GraphRules, SeenFacts
<1>5. m \in Members(b) /\ b \in Evaluations /\ Tree(b) /\ b < s /\ Top = calls[s] /\ b \in 1 .. s
  BY <1>1, <1>2, <1>3, <1>4, TopVisit, Bases
<1>6. /\ cyclic(c) => records[c].status \in {"evaluating", "evaluating-async", "evaluated"}
      /\ ~cyclic(c) => Evaluated(c)
      /\ cyclic(c) /\ records[c].status # "evaluating" => records[c].cycleRoot # None
  BY <1>1, <1>3, <1>4, SeenFacts
<1>7. CASE ~cyclic(c)
  <2>1. Complete(c)
    BY <1>4, <1>6, <1>7 DEF Complete
  <2>2. c \notin Bodies
    <3> SUFFICES ASSUME c \in Bodies
                 PROVE  FALSE
      OBVIOUS
    <3>1. PICK j \in 1 .. s : calls[j].at = "body" /\ calls[j].m = c
      BY <1>2 DEF Bodies
    <3>2. j # s /\ j # b
      BY <1>3, <1>5, <3>1 DEF Evaluations
    <3>3. \A i \in b + 1 .. s - 1 : calls[i].at = "inner"
      BY <1>1, <1>2, <1>4, BodyTop
    <3>4. j \in 1 .. b - 1
      <4>1. j \notin b + 1 .. s - 1
        BY <3>1, <3>3
      <4> QED BY <1>4, <1>5, <3>2, <4>1
    <3>5. calls[b].m \in Module /\ m \in Graph(calls[b].m)
      BY <1>1, <1>2, <1>5, MembersType DEF Tree, Under
    <3>6. c \in Graph(calls[b].m)
      BY <1>1, <1>4, <3>5, GraphRules
    <3>7. records[calls[b].m].status = "evaluating" /\ Unsettled(calls[b].m)
      BY <1>1, <1>5, <3>5 DEF Tree, FromRoot, Numbered, Unsettled, Rooted
    <3>8. Graph(calls[b].m) \subseteq tangled
      BY <1>1, <1>5, <3>1, <3>4, <3>6, <3>7 DEF Tangles
    <3>9. m \in tangled /\ m \in Graph(m)
      BY <1>1, <1>3, <3>5, <3>8, GraphRules
    <3> QED BY <3>9 DEF Orderly
  <2>3. c \in finished
    BY <1>4, <2>1, <2>2 DEF Histories, EndsIn
  <2>4. Requests(c) = {}
    BY <1>1, <1>4, <1>7, ProgramType DEF Requests
  <2>5. finished \subseteq Module
    BY <1>1 DEF TypeOK
  <2>6. Fin(c)
    BY <1>1, <1>4, <2>3, <2>4, <2>5, GraphParts DEF Fin
  <2>7. Learnt(m, c)
    BY <2>6 DEF Learnt
  <2> QED BY <1>1, <1>3, <1>4, <2>7, LearntKept
<1>8. CASE cyclic(c) /\ records[c].status = "evaluating"
  <2>1. PICK k \in Evaluations : c \in Members(k)
    BY <1>1, <1>4, <1>8 DEF Trees
  <2>2. k <= b
    BY <1>1, <1>2, <1>4, Regions
  <2>3. Clean(b, m)
    BY DEF Clean
  <2>4. k = b
    BY <1>1, <1>4, <1>5, <2>1, <2>2, <2>3, NotTangled
  <2> QED BY <1>2, <2>1, <2>4
<1>9. CASE cyclic(c) /\ records[c].status # "evaluating"
  <2>1. r = records[c].cycleRoot /\ r # None
    BY <1>2, <1>6, <1>9 DEF Awaited
  <2>2. records[r].cycleRoot = r
    BY <1>1, <1>4, <2>1 DEF Rooted
  <2>3. CASE records[r].asyncEvaluation
    <3>1. records'[c].cycleRoot = r /\ cyclic(c)'
      BY <1>1, <1>4, <1>9, <2>1, ProgramKept DEF Ahead
    <3> QED BY <1>3, <2>1, <2>3, <3>1 DEF Learnt
  <2>4. CASE ~records[r].asyncEvaluation
    <3>1. Complete(r)
      BY <1>3, <2>1, <2>2, <2>4 DEF Histories, EndsIn, Complete
    <3>2. Orderly(c)
      BY <1>1, <1>3, <1>4, OrderlyRules
    <3>3. Learnt(m, c)
      BY <1>4, <2>1, <3>1, <3>2 DEF Settled, Learnt
    <3> QED BY <1>1, <1>3, <1>4, <3>3, LearntKept
  <2> QED BY <2>3, <2>4
<1> QED BY <1>6, <1>7, <1>8, <1>9

----------------------------------------------------------------------------
\* The module m of the evaluate at b looks at its request n, which is c: r is what it may wait for.
Depending(b, s, m, n, c, r) ==
  /\ b = Base /\ s = Size /\ m = Top.m /\ n = Top.i /\ c = Callee /\ r = Awaited(c)
  /\ b \in Evaluations /\ s \in Nat /\ m \in Module /\ c \in Module /\ r \in Module
     /\ Members(b) \subseteq Module /\ m \in Members(b)
  /\ calls[s].m = m /\ calls[s].i = n /\ calls'[s].i = n + 1 /\ n \in 1 .. Len(requested(m)) /\ c = requested(m)[n]
  /\ Visits(s, b) /\ Members(b)' = Members(b)
  /\ \A j : Visits(j, b)' <=> Visits(j, b)
  /\ \A j : Visits(j, b) => /\ j \in 1 .. s /\ calls'[j].m = calls[j].m /\ calls[j].m \in Members(b)
                            /\ Index(calls[j].m) <= Index(m) /\ (calls[j].m = m => j = s)
                               /\ (j # s => calls'[j] = calls[j])
  /\ \A x \in Module : Index(x)' = Index(x) /\ Index(x) \in Nat /\ Low(x) \in Nat /\ Low(x)' \in Nat
     /\ Low(x)' <= Low(x)
                       /\ records'[x].status = records[x].status
  /\ c \in Members(b) => r = c /\ Low(m)' <= Index(c)
  /\ \A x \in Members(b) : \A j : Nearest(j, b, x)' <=> Nearest(j, b, x)
  /\ records[c].status # "linked"
  /\ records[r].asyncEvaluation => m \in Parents(r)' /\ Pending(m)' > 0
  /\ \A x \in Module : Pending(x) > 0 => Pending(x)' > 0
  /\ SameAsync
LEMMA DependSetup ==
  ASSUME TypeOK, Shaped, Rooted, Trees, program' = program, tangled' = tangled, Depend
  PROVE  \E b, s, m, n, c, r : Depending(b, s, m, n, c, r)
<1>1. PICK s, b, m, c, r : s = Size /\ b = Base /\ m = Top.m /\ c = Callee /\ r = Awaited(Callee)
  OBVIOUS
<1>2. /\ Looking /\ Top.at = "inner" /\ Seen /\ ErrorOf(c) = None
      /\ m \in Module /\ r \in Module /\ Turns(Step(Top)) /\ Typed
      /\ \A x \in Module :
           /\ Index(x)' = Index(x)
           /\ Low(x)' = IF x = m /\ records[r].status = "evaluating" THEN Least(Low(x), Low(r)) ELSE Low(x)
      /\ SameState
  BY <1>1, DependFacts
<1>3. /\ c \in Module /\ InEvaluation /\ s \in Nat /\ s > 0 /\ Top = calls[s] /\ Top \in Call
      /\ Top.i \in 1 .. Len(requested(m)) /\ c = requested(m)[Top.i] /\ c \in Requests(m)
  BY <1>1, <1>2, CalleeType
<1>4. /\ Visits(s, b) /\ m \in Members(b) /\ b \in Evaluations /\ Tree(b) /\ b < s
      /\ \A x \in Members(b) : Index(m) <= Index(x) => Nearest(s, b, x)
  BY <1>1, <1>2, <1>3, TopVisit
<1>5. /\ \A k \in Evaluations : k <= b /\ k \in 1 .. s
      /\ \A j, k : In(j, k) => j \in 1 .. s /\ k \in 1 .. s
      /\ DOMAIN calls = 1 .. s
  BY <1>1, <1>3, Regions, CallsType
<1>6. /\ Step(Top).m = m /\ Step(Top).i = Top.i + 1 /\ Step(Top).at = "inner"
  BY <1>1, <1>2, <1>3, StepType
<1>7. /\ Keeps(s) /\ Size' = s /\ calls' \in Seq(Call) /\ DOMAIN calls' = 1 .. s
      /\ calls'[s].at = "inner" /\ calls'[s].m = m /\ calls'[s].i = Top.i + 1
      /\ \A j \in 1 .. s - 1 : calls'[j] = calls[j]
  <2>1. Keeps(s)
    BY <1>1, ShapedDepend
  <2>2. calls' \in Seq(Call) /\ Size' = s
    BY <1>1, <1>2 DEF Typed, Turns
  <2> QED BY <1>1, <1>2, <1>6, <2>1, <2>2, LenProperties DEF Turns, Size
<1>8. /\ \A j \in 1 .. s : \A k : In(j, k)' <=> In(j, k)
      /\ \A j \in 1 .. s : \A k : Visits(j, k)' <=> Visits(j, k)
      /\ \A k \in 1 .. s : k \in Evaluations' <=> k \in Evaluations
  BY <1>7, Prefix
<1>9. /\ \A j, k : In(j, k)' <=> In(j, k)
      /\ \A j, k : Visits(j, k)' <=> Visits(j, k)
  BY <1>5, <1>7, <1>8 DEF In, Visits
<1>10. Evaluations' = Evaluations
  BY <1>5, <1>7, <1>8 DEF Evaluations
<1>11. /\ \A k \in Evaluations : k \in 1 .. s - 1 /\ calls'[k] = calls[k] /\ Members(k)' = Members(k)
          /\ Members(k) \subseteq Module
       /\ \A j \in 1 .. s : calls'[j].m = calls[j].m
  <2>1. \A k \in Evaluations : k \in 1 .. s - 1
    BY <1>2, <1>3, <1>5 DEF Evaluations
  <2>2. \A k \in Evaluations : Members(k) \subseteq Module
    BY <1>1, <1>5, MembersType
  <2> QED BY <1>1, <1>3, <1>7, <2>1, <2>2 DEF Members
<1>12. \A x \in Module : records'[x].status = records[x].status /\ Index(x)' = Index(x)
  BY <1>2 DEF SameState
<1>15. records[r].status = "evaluating" => r = c
  <2> SUFFICES ASSUME records[r].status = "evaluating", r # c PROVE FALSE
    OBVIOUS
  <2>1. cyclic(c) /\ r = records[c].cycleRoot
    BY <1>1, <1>3 DEF Awaited
  <2>2. records[c].cycleRoot # None
    BY <1>2, <2>1, EsmAssumption
  <2>3. records[r].cycleRoot # None
    BY <1>3, <2>1, <2>2 DEF Rooted
  <2> QED BY <1>2, <2>3 DEF Rooted
<1>16. c \in Members(b) => r = c /\ records[r].status = "evaluating"
  BY <1>1, <1>4 DEF Tree, Numbered, Awaited
<1>17. /\ Index(m) \in Nat /\ Low(m) \in Nat /\ Index(r) \in Nat /\ Low(r) \in Nat /\ Low(m)' \in Nat
       /\ Low(m)' <= Low(m)
       /\ records[r].status = "evaluating" => Low(m)' <= Low(r) /\ Low(r) <= Index(r) /\ 1 <= Low(r)
  <2>1. Index(m) \in Nat /\ Low(m) \in Nat /\ Index(r) \in Nat /\ Low(r) \in Nat
    BY <1>2, RecordsType
  <2>2. records[r].status = "evaluating" => Low(r) <= Index(r) /\ 1 <= Low(r)
    BY <1>2 DEF Trees, Tree, Numbered
  <2>3. Low(m)' = IF records[r].status = "evaluating" THEN Least(Low(m), Low(r)) ELSE Low(m)
    BY <1>2
  <2> QED BY <2>1, <2>2, <2>3 DEF Least
<1>18. \A x \in Members(b) : x # m => Low(x)' = Low(x)
  BY <1>2, <1>11, <1>4
<1>19. /\ \A x : requested(x)' = requested(x) /\ cyclic(x)' = cyclic(x) /\ Graph(x)' = Graph(x)
       /\ \A x \in Module : Clean(b, x)' <=> Clean(b, x)
  <2>1. \A x : requested(x)' = requested(x) /\ cyclic(x)' = cyclic(x) /\ Graph(x)' = Graph(x)
    BY ProgramKept
  <2> QED BY <2>1 DEF Clean, Orderly
<1>20. \A j : Visits(j, b) => /\ j \in 1 .. s /\ calls'[j].m = calls[j].m /\ calls[j].m \in Members(b)
                              /\ Index(calls[j].m)' = Index(calls[j].m)
  <2> SUFFICES ASSUME NEW j, Visits(j, b)
               PROVE  /\ j \in 1 .. s /\ calls'[j].m = calls[j].m /\ calls[j].m \in Members(b)
                      /\ Index(calls[j].m)' = Index(calls[j].m)
    OBVIOUS
  <2>1. j \in 1 .. s /\ calls[j].m \in Members(b)
    BY <1>4, <1>5 DEF Visits, Tree, Visited
  <2>2. calls'[j].m = calls[j].m /\ calls[j].m \in Module
    BY <1>4, <1>11, <2>1
  <2> QED BY <1>12, <2>1, <2>2 DEF Index
<1>24. \A x \in Members(b) : \A j : Nearest(j, b, x)' <=> Nearest(j, b, x)
  <2>1. \A x \in Members(b) : Index(x)' = Index(x)
    BY <1>4, <1>11, <1>12
  <2> QED BY <1>9, <1>20, <2>1 DEF Nearest
<1>30. PICK n : n = Top.i
  OBVIOUS
<1>31. \A j : Visits(j, b) => /\ j \in 1 .. s /\ calls'[j].m = calls[j].m /\ calls[j].m \in Members(b)
                              /\ Index(calls[j].m) <= Index(m) /\ (calls[j].m = m => j = s)
                                 /\ (j # s => calls'[j] = calls[j])
  <2> SUFFICES ASSUME NEW j, Visits(j, b)
               PROVE  Index(calls[j].m) <= Index(m) /\ (calls[j].m = m => j = s) /\ (j # s => calls'[j] = calls[j])
    BY <1>20
  <2>1. j \in 1 .. s /\ calls[s].m = m
    BY <1>1, <1>3, <1>20
  <2>2. CASE j = s
    BY <1>17, <2>1, <2>2
  <2>3. CASE j # s
    <3>1. j < s /\ j \in 1 .. s - 1
      BY <1>3, <2>1, <2>3
    <3>2. Index(calls[j].m) < Index(calls[s].m)
      BY <1>4, <3>1 DEF Tree, Visited
    <3>3. Index(calls[j].m) \in Nat
      BY <1>4, <1>11, <1>20, RecordsType
    <3> QED BY <1>7, <1>17, <2>1, <3>1, <3>2, <3>3
  <2> QED BY <2>2, <2>3
<1>32. \A x \in Module : Index(x)' = Index(x) /\ Index(x) \in Nat /\ Low(x) \in Nat /\ Low(x)' \in Nat
       /\ Low(x)' <= Low(x)
                       /\ records'[x].status = records[x].status
  <2> SUFFICES ASSUME NEW x \in Module
               PROVE  Index(x) \in Nat /\ Low(x) \in Nat /\ Low(x)' \in Nat /\ Low(x)' <= Low(x)
    BY <1>12
  <2>1. Index(x) \in Nat /\ Low(x) \in Nat
    BY RecordsType
  <2>2. x # m => Low(x)' = Low(x)
    BY <1>2
  <2> QED BY <1>17, <2>1, <2>2
<1>33. c \in Members(b) => r = c /\ Low(m)' <= Index(c)
  BY <1>16, <1>17
<1>34. records[c].status # "linked"
  BY <1>1, <1>2, <1>3, SeenFacts DEF Evaluated
<1>35. /\ records[r].asyncEvaluation => m \in Parents(r)' /\ Pending(m)' > 0
       /\ \A x \in Module : Pending(x) > 0 => Pending(x)' > 0
       /\ SameAsync
  <2>1. /\ \A x \in Module : records'[x].asyncParentModules =
                       IF x = r /\ records[r].asyncEvaluation THEN Append(records[x].asyncParentModules, m)
                       ELSE records[x].asyncParentModules
        /\ \A x \in Module : Pending(x)' = IF x = m /\ records[r].asyncEvaluation THEN Pending(x) + 1 ELSE Pending(x)
        /\ SameAsync
    BY <1>1, DependFacts
  <2>2. records[r].asyncEvaluation => m \in Parents(r)'
    <3> SUFFICES ASSUME records[r].asyncEvaluation
                 PROVE  m \in Parents(r)'
      OBVIOUS
    <3>1. PICK q : q = records[r].asyncParentModules
      OBVIOUS
    <3>2. q \in Seq(Module) /\ records'[r].asyncParentModules = Append(q, m)
      BY <1>2, <2>1, <3>1, RecordsType
    <3>3. Len(Append(q, m)) = Len(q) + 1 /\ Append(q, m)[Len(q) + 1] = m /\ Len(q) + 1 \in DOMAIN Append(q, m)
      BY <1>2, <3>2, AppendProperties, LenProperties
    <3> QED BY <3>2, <3>3 DEF Parents
  <2>3. \A x \in Module : Pending(x) \in Nat
    BY RecordsType
  <2> QED BY <1>2, <2>1, <2>2, <2>3
<1>36. Depending(b, s, m, n, c, r)
  BY <1>1, <1>2, <1>3, <1>4, <1>7, <1>9, <1>11, <1>24, <1>30, <1>31, <1>32, <1>33, <1>34, <1>35 DEF Depending
<1> QED BY <1>36

(* A module takes note of what it has looked at. *)
LEMMA WayDepend ==
  ASSUME Inv, Inv', Next, Ahead, Histories, ~abandoned => Settled, Way(Base), Depend
  PROVE  \A b : b = Base => Way(b)'
<1>1. TypeOK /\ Shaped /\ Rooted /\ Trees /\ program' = program /\ tangled' = tangled /\ tangled \subseteq tangled'
  BY DEF Inv, Skeleton, Ahead, Depend, history
<1>2. PICK b, s, m, n, c, r : Depending(b, s, m, n, c, r)
  BY <1>1, DependSetup
<1>4. b = Base /\ Way(b)
  BY <1>2 DEF Depending
<1>6. /\ \A x : requested(x)' = requested(x) /\ cyclic(x)' = cyclic(x)
      /\ \A x \in Module : \A i \in DOMAIN requested(x) : requested(x)[i] \in Module
      /\ \A x \in Module : DOMAIN requested(x) = 1 .. Len(requested(x)) /\ Len(requested(x)) \in Nat
  BY <1>1, ProgramKept, ProgramType
<1>7. \A x \in Module : \A i \in LookedAt(b, x)' : i \in DOMAIN requested(x)
      /\ (i \in LookedAt(b, x) \/ (x = m /\ i = n))
  <2> SUFFICES ASSUME NEW x \in Module, NEW i \in LookedAt(b, x)', x # m \/ i # n
               PROVE  i \in DOMAIN requested(x) /\ i \in LookedAt(b, x)
    BY <1>6 DEF LookedAt
  <2>1. i \in DOMAIN requested(x) /\ i \in Nat /\ \A j : Visits(j, b)' /\ calls'[j].m = x => i < calls'[j].i
    BY <1>6 DEF LookedAt
  <2> SUFFICES ASSUME NEW j, Visits(j, b), calls[j].m = x
               PROVE  i < calls[j].i
    BY <2>1 DEF LookedAt
  <2>2. Visits(j, b)' /\ calls'[j].m = x /\ i < calls'[j].i
    BY <1>2, <2>1 DEF Depending
  <2>3. CASE j # s
    BY <1>2, <2>2, <2>3 DEF Depending
  <2>4. CASE j = s
    <3>1. x = m /\ i # n /\ i < n + 1 /\ n \in Nat /\ calls[j].i = n
      <4>1. calls[s].m = m /\ calls'[s].i = n + 1 /\ calls[s].i = n /\ n \in 1 .. Len(requested(m))
        BY <1>2 DEF Depending
      <4> QED BY <2>2, <2>4, <4>1
    <3> QED BY <2>1, <3>1
  <2> QED BY <2>3, <2>4
<1>9. \A x \in Module : \A i \in LookedAt(b, x) : i \in DOMAIN requested(x) /\ requested(x)[i] \in Module
  BY <1>6 DEF LookedAt
<1>10. Looks(b)'
  <2> SUFFICES ASSUME NEW x \in Members(b), NEW i \in LookedAt(b, x)'
               PROVE  LET d == requested(x)[i]
                      IN  /\ records'[d].status # "linked"
                          /\ d \in Members(b) =>
                             /\ records'[x].dfsAncestorIndex <= records'[d].dfsIndex
                             /\ \A j : Visits(j, b) => ~(/\ records'[x].dfsIndex < records'[calls[j].m].dfsIndex
                                                         /\ records'[calls[j].m].dfsIndex <= records'[d].dfsIndex)
    <3>1. \A x_1 : \A i_1 : (requested(x_1)[i_1])' = requested(x_1)[i_1]
      BY <1>6
    <3>2. Members(b)' = Members(b) /\ \A j : (Visits(j, b)' <=> Visits(j, b))
          /\ (Visits(j, b) => calls'[j].m = calls[j].m)
      BY <1>2 DEF Depending
    <3> QED BY <3>1, <3>2 DEF Looks, Index, Low
  <2>1. PICK d : d = requested(x)[i]
    OBVIOUS
  <2>2. x \in Module /\ d \in Module /\ (i \in LookedAt(b, x) \/ (x = m /\ i = n))
    BY <1>2, <1>6, <1>7, <2>1 DEF Depending
  <2>3. CASE i \in LookedAt(b, x)
    <3>1. /\ records[d].status # "linked"
          /\ d \in Members(b) =>
                             /\ Low(x) <= Index(d)
                             /\ \A j : Visits(j, b) => ~(Index(x) < Index(calls[j].m) /\ Index(calls[j].m) <= Index(d))
      BY <1>4, <2>1, <2>3 DEF Way, Looks
    <3>2. \A j : Visits(j, b) => records'[calls[j].m].dfsIndex = records[calls[j].m].dfsIndex
      BY <1>2 DEF Depending, Index
    <3>3. /\ records'[d].status = records[d].status /\ Index(x)' = Index(x) /\ Index(d)' = Index(d)
             /\ Low(x)' <= Low(x)
          /\ Low(x) \in Nat /\ Low(x)' \in Nat /\ Index(d) \in Nat
      BY <1>2, <2>2 DEF Depending
    <3>4. d \in Members(b) => Low(x)' <= Index(d)'
      BY <3>1, <3>3
    <3> QED BY <2>1, <3>1, <3>2, <3>3, <3>4 DEF Index, Low
  <2>4. CASE x = m /\ i = n
    <3>1. d = c /\ records[c].status # "linked" /\ (c \in Members(b) => Low(m)' <= Index(c)) /\ Index(c)' = Index(c)
          /\ records'[c].status = records[c].status
      BY <1>2, <2>1, <2>4 DEF Depending
    <3>2. \A j : Visits(j, b) => records'[calls[j].m].dfsIndex <= records'[m].dfsIndex
                                 /\ records'[calls[j].m].dfsIndex \in Nat /\ records'[m].dfsIndex \in Nat
      BY <1>2 DEF Depending, Index
    <3> QED BY <2>1, <2>4, <3>1, <3>2 DEF Index, Low
  <2> QED BY <2>2, <2>3, <2>4
<1>11. ~abandoned' => Learns(b)'
  <2> SUFFICES ASSUME ~abandoned', NEW x \in Members(b), Orderly(x)', NEW i \in LookedAt(b, x)'
               PROVE  requested(x)[i] \in Members(b) \/ Learnt(x, requested(x)[i])'
    BY <1>2, <1>6 DEF Learns, Depending
  <2>1. PICK d : d = requested(x)[i]
    OBVIOUS
  <2>2. x \in Module /\ d \in Module /\ (i \in LookedAt(b, x) \/ (x = m /\ i = n))
    BY <1>2, <1>6, <1>7, <2>1 DEF Depending
  <2>4. ~abandoned /\ Orderly(x)
    BY <1>1, <2>2, OrderlyRules DEF Ahead
  <2>7. requested(x)[i]' = d
    BY <1>6, <2>1
  <2>8. CASE i \in LookedAt(b, x)
    <3>1. d \in Members(b) \/ Learnt(x, d)
      BY <1>4, <2>1, <2>4, <2>8 DEF Way, Learns
    <3>2. Learnt(x, d) => Learnt(x, d)'
      BY <1>1, <2>2, LearntKept
    <3> QED BY <2>1, <2>7, <3>1, <3>2
  <2>9. CASE x = m /\ i = n
    <3>1. d = c /\ m = Top.m /\ c = Callee
      BY <1>2, <2>1, <2>9 DEF Depending
    <3>2. c \in Members(Base) \/ Learnt(m, c)'
      BY <2>4, <2>9, <3>1, DependLearns
    <3> QED BY <1>4, <2>1, <2>7, <2>9, <3>1, <3>2
  <2> QED BY <2>2, <2>8, <2>9
<1>12. Chain(b)'
  <2> SUFFICES ASSUME NEW x \in Members(b), NEW j, Nearest(j, b, x)', calls'[j].m # x, x \notin finished'
               PROVE  (Upward(x, calls[j].m)' /\ Pending(calls[j].m)' > 0) \/ Handing(j, b, x)'
    BY <1>2 DEF Chain, Depending
  <2>1. PICK y : y = calls[j].m
    OBVIOUS
  <2>2. Nearest(j, b, x) /\ Visits(j, b)
    BY <1>2 DEF Depending, Nearest
  <2>3. calls'[j].m = y /\ y \in Members(b) /\ y \in Module /\ x \in Module /\ y # x /\ j \in 1 .. s
    BY <1>2, <2>1, <2>2 DEF Depending
  <2>4. (Upward(x, y) /\ Pending(y) > 0) \/ Handing(j, b, x)
    BY <1>4, <2>1, <2>2, <2>3 DEF Way, Chain, Ahead
  <2>0. ASSUME Upward(x, y)', Pending(y)' > 0
        PROVE  Upward(x, calls[j].m)' /\ Pending(calls[j].m)' > 0
    BY <2>0, <2>3 DEF Pending, Upward
  <2>5. CASE Upward(x, y) /\ Pending(y) > 0
    <3>1. Upward(x, y)'
      BY <1>1, <2>3, <2>5, UpwardKept
    <3>2. Pending(y)' > 0
      BY <1>2, <2>3, <2>5 DEF Depending
    <3> QED BY <2>0, <3>1, <3>2
  <2>6. CASE Handing(j, b, x)
    <3>1. PICK d : d = requested(y)[calls[j].i]
      OBVIOUS
    <3>2. /\ calls[j].i <= Len(requested(y)) /\ d \in Members(b) /\ d \in Module /\ Index(y) < Index(d)
             /\ Index(d) <= Index(x)
          /\ records[d].asyncEvaluation /\ Upward(x, d)
      BY <1>2, <2>1, <2>6, <3>1 DEF Handing, Depending
    <3>3. records'[d].asyncEvaluation
      BY <1>2, <3>2 DEF SameAsync, Depending
    <3>4. Upward(x, d)'
      BY <1>1, <2>3, <3>2, UpwardKept
    <3>5. Index(y)' = Index(y) /\ Index(d)' = Index(d) /\ Index(x)' = Index(x) /\ d \in Members(b)'
      BY <1>2, <2>3, <3>2 DEF Depending
    <3>6. requested(y)' = requested(y)
      BY <1>6
    <3>8. CASE j # s
      <4>1. /\ calls'[j].i <= Len(requested(y)') /\ d = requested(y)'[calls'[j].i] /\ calls'[j].m = y
            /\ Index(y)' < Index(d)' /\ Index(d)' <= Index(x)'
        BY <1>2, <2>1, <2>2, <2>3, <3>1, <3>2, <3>5, <3>6, <3>8 DEF Depending
      <4> QED BY <3>3, <3>4, <3>5, <4>1 DEF Handing
    <3>9. CASE j = s
      <4>1. y = m /\ d = c /\ r = c /\ m \in Parents(c)' /\ Pending(m)' > 0
        BY <1>2, <2>1, <3>1, <3>2, <3>9 DEF Depending
      <4>2. Upward(x, m)'
        BY <3>4, <4>1 DEF Upward
      <4> QED BY <2>0, <4>1, <4>2
    <3> QED BY <3>8, <3>9
  <2> QED BY <2>4, <2>5, <2>6
<1> QED BY <1>4, <1>10, <1>11, <1>12 DEF Way

----------------------------------------------------------------------------
\* The visit of m on top of the evaluate at b ends, and takes the modules of K off its list.
Leaving(b, s, m, K) ==
  /\ b = Base /\ s = Size /\ m = Top.m /\ b \in Evaluations /\ s \in Nat /\ Members(b) \subseteq Module
     /\ m \in Members(b)
  /\ calls[s].m = m /\ calls[s].at = "inner" /\ calls[s].i = Len(requested(m)) + 2 /\ Visits(s, b)
  /\ K = {x \in Members(b) : Low(m) = Index(m) /\ Index(m) <= Index(x)} /\ Members(b)' = Members(b) \ K
  /\ \A j : Visits(j, b)' <=> Visits(j, b) /\ j # s
  /\ \A j : Visits(j, b) /\ j # s => /\ calls'[j] = calls[j] /\ Index(calls[j].m) < Index(m)
                                     /\ calls[j].m \in Members(b) /\ calls[j].m \in Members(b)'
  /\ \A x \in Module : Index(x)' = Index(x) /\ Low(x)' = Low(x) /\ Index(x) \in Nat /\ Low(x) \in Nat
  /\ \A x \in Members(b)' : \A j : Nearest(j, b, x)' =>
       \/ Nearest(j, b, x) /\ j # s
       \/ /\ Nearest(s, b, x) /\ Index(m) <= Index(x) /\ Visits(j, b) /\ j # s
          /\ calls[j].i <= Len(requested(calls[j].m)) /\ m = requested(calls[j].m)[calls[j].i]
  /\ \A x \in Members(b) : Index(m) <= Index(x) => Nearest(s, b, x)
  /\ \A x \in Module :
       /\ records'[x].status = IF x \in K THEN IF records[x].asyncEvaluation THEN "evaluating-async" ELSE "evaluated"
                               ELSE records[x].status
       /\ records'[x].cycleRoot = IF x \in K THEN m ELSE records[x].cycleRoot
       /\ records'[x].error = records[x].error
  /\ SameAsync /\ SameWaits /\ SameCaps
LEMMA LeaveSetup ==
  ASSUME TypeOK, Shaped, Trees, program' = program, tangled' = tangled, Close, Low(Top.m) # Index(Top.m)
  PROVE  \E b, s, m, K : Leaving(b, s, m, K)
<1>1. PICK s, q, b, m : s = Size /\ q = Size - 1 /\ b = Base /\ m = Top.m
  OBVIOUS
<1>2. InEvaluation /\ Top.at = "inner"
  BY CloseTop
<1>3. /\ Visits(s, b) /\ m \in Members(b) /\ b \in Evaluations /\ Tree(b) /\ b < s /\ Top = calls[s]
      /\ \A x \in Members(b) : Index(m) <= Index(x) => Nearest(s, b, x)
      /\ \A x \in Members(b) : Clean(b, x) => m \in Graph(x)
      /\ m \in Module
  BY <1>1, <1>2, TopVisit
<1>4. /\ \A k \in Evaluations : k <= b /\ k \in 1 .. s
      /\ \A j, k : In(j, k) => j \in 1 .. s /\ k \in 1 .. s
      /\ \A j, k : In(j, k) /\ k # b => j < b
      /\ DOMAIN calls = 1 .. s /\ s \in Nat /\ q \in Nat /\ s > 0 /\ b \in 1 .. s
  BY <1>1, <1>2, <1>3, Regions, CallsType
<1>5. /\ Top.i = Len(requested(m)) + 2 /\ Typed /\ Shrinks /\ SameState /\ SameIndex
  BY <1>1, <1>3, CloseFacts
<1>6. /\ Keeps(q) /\ Size' = q /\ calls' \in Seq(Call) /\ DOMAIN calls' = 1 .. q
      /\ \A j \in 1 .. q : calls'[j] = calls[j]
  BY <1>1, <1>5, KeepsRules, LenProperties DEF Typed, Shrinks, Size
<1>7. /\ \A j \in 1 .. q : \A k : In(j, k)' <=> In(j, k)
      /\ \A j \in 1 .. q : \A k : Visits(j, k)' <=> Visits(j, k)
      /\ \A k \in 1 .. q : k \in Evaluations' <=> k \in Evaluations
  BY <1>6, Prefix
<1>8. /\ \A j, k : Visits(j, k)' <=> Visits(j, k) /\ j # s
      /\ \A j, k : In(j, k)' => In(j, k) /\ j # s /\ j \in 1 .. q
  <2>1. \A j, k : In(j, k)' => In(j, k) /\ j # s /\ j \in 1 .. q
    BY <1>1, <1>4, <1>6, <1>7 DEF In
  <2>2. \A j, k : Visits(j, k)' => Visits(j, k) /\ j # s
    BY <1>7, <2>1 DEF Visits
  <2>3. \A j, k : Visits(j, k) /\ j # s => Visits(j, k)'
    <3> SUFFICES ASSUME NEW j, NEW k, Visits(j, k), j # s PROVE Visits(j, k)'
      OBVIOUS
    <3>1. j \in 1 .. s
      BY <1>4 DEF Visits
    <3>2. j \in 1 .. q
      BY <1>1, <1>4, <3>1
    <3> QED BY <1>7, <3>2
  <2> QED BY <2>1, <2>2, <2>3
<1>9. Evaluations' = Evaluations /\ \A k \in Evaluations : k \in 1 .. q
  <2>1. \A k \in Evaluations : k \in 1 .. q
    BY <1>1, <1>3, <1>4
  <2>2. \A k \in Evaluations' : k \in 1 .. q
    BY <1>6 DEF Evaluations
  <2> QED BY <1>7, <2>1, <2>2
<1>10. \A k \in Evaluations : /\ calls'[k] = calls[k] /\ Members(k)' = Members(k) /\ Members(k) \subseteq Module
                              /\ calls[k].m \in Module
  <2>1. \A k \in Evaluations : Members(k) \subseteq Module /\ calls[k].m \in Module
    BY <1>1, <1>4, MembersType
  <2> QED BY <1>6, <1>9, <2>1 DEF Members
<1>11. \A x \in Module : Index(x)' = Index(x) /\ Low(x)' = Low(x) /\ records'[x].status = records[x].status
                         /\ Index(x) \in Nat /\ Low(x) \in Nat
  BY <1>5, RecordsType DEF SameIndex, SameState
<1>14. /\ \A x : requested(x)' = requested(x) /\ cyclic(x)' = cyclic(x) /\ Graph(x)' = Graph(x)
       /\ \A x \in Module : Clean(b, x)' <=> Clean(b, x)
  <2>1. \A x : requested(x)' = requested(x) /\ cyclic(x)' = cyclic(x) /\ Graph(x)' = Graph(x)
    BY ProgramKept
  <2> QED BY <2>1 DEF Clean, Orderly
<1>15. Low(m) < Index(m) /\ 1 <= Low(m)
  BY <1>1, <1>3, <1>11 DEF Tree, Numbered
<1>16. PICK p : p = calls[q].m
  OBVIOUS
<1>17. /\ Visits(q, b) /\ calls[q].i <= Len(requested(p)) /\ m = requested(p)[calls[q].i]
       /\ p \in Members(b) /\ Index(p) < Index(m)
  <2>1. s > 1 /\ Follows(s)
    <3>1. ShapedAt(s) /\ s > 1
      BY <1>3, <1>4 DEF Shaped
    <3> QED BY <3>1 DEF ShapedAt
  <2>2. calls[q].at # "evaluate"
    <3> SUFFICES ASSUME calls[q].at = "evaluate" PROVE FALSE
      OBVIOUS
    <3>1. b = q
      <4>1. \A j \in b + 1 .. s : calls[j].at # "evaluate"
        BY <1>1, <1>2, Bases
      <4> QED BY <1>1, <1>3, <1>4, <4>1
    <3>2. calls[q].m = m
      BY <1>1, <1>2, <1>3, <2>1 DEF Follows
    <3>3. Index(m) = 1
      BY <1>3, <3>1, <3>2 DEF Tree, FromRoot
    <3> QED BY <1>3, <1>11, <1>15, <3>3
  <2>3. /\ calls[q].at = "inner" /\ calls[q].i <= Len(requested(p)) /\ m = requested(p)[calls[q].i]
    BY <1>1, <1>2, <1>3, <1>16, <2>1, <2>2 DEF Follows
  <2>4. Visits(q, b)
    <3>1. q # b
      BY <1>3, <2>3 DEF Evaluations
    <3>2. q \in b + 1 .. s
      BY <1>1, <1>3, <1>4, <3>1
    <3>3. In(q, b)
      BY <1>1, <1>2, <3>2, Regions
    <3> QED BY <2>3, <3>3 DEF Visits
  <2>5. p \in Members(b) /\ Index(p) < Index(m)
    <3>1. calls[s].m = m /\ q < s
      BY <1>1, <1>3, <1>4
    <3>2. p \in Members(b)
      BY <1>3, <1>16, <2>4 DEF Tree, Visited
    <3>3. Index(calls[q].m) < Index(calls[s].m)
      BY <1>3, <2>4, <3>1 DEF Tree, Visited
    <3> QED BY <1>16, <3>1, <3>2, <3>3
  <2> QED BY <2>3, <2>4, <2>5
<1>18. \A j : Visits(j, b)' => /\ Visits(j, b) /\ j \in 1 .. q /\ j # s /\ calls'[j] = calls[j] /\ calls[j].m \in Members(b)
                               /\ Index(calls[j].m)' = Index(calls[j].m) /\ Low(calls[j].m)' = Low(calls[j].m)
                               /\ Index(calls[j].m) \in Nat
  <2> SUFFICES ASSUME NEW j, Visits(j, b)'
               PROVE  /\ Visits(j, b) /\ j \in 1 .. q /\ j # s /\ calls'[j] = calls[j] /\ calls[j].m \in Members(b)
                      /\ Index(calls[j].m)' = Index(calls[j].m) /\ Low(calls[j].m)' = Low(calls[j].m)
                      /\ Index(calls[j].m) \in Nat
    OBVIOUS
  <2>1. Visits(j, b) /\ j \in 1 .. q /\ j # s
    BY <1>8 DEF Visits
  <2>2. calls'[j] = calls[j] /\ calls[j].m \in Members(b)
    BY <1>3, <1>6, <2>1 DEF Tree, Visited
  <2>3. calls[j].m \in Module
    BY <1>3, <1>10, <2>2
  <2> QED BY <1>11, <2>1, <2>2, <2>3 DEF Index, Low
<1>19. \A x \in Members(b) : x \in Module
  BY <1>3, <1>10
<1>20. ASSUME NEW x \in Members(b), NEW j, Nearest(j, b, x)'
       PROVE  Nearest(j, b, x) \/ (j = q /\ Nearest(s, b, x) /\ Index(m) <= Index(x))
  <2>1. /\ Visits(j, b) /\ j \in 1 .. q /\ Index(calls[j].m) <= Index(x)
        /\ \A i : Visits(i, b) /\ i # s /\ j < i => Index(x) < Index(calls[i].m)
    <3>1. Visits(j, b)' /\ (Index(calls[j].m) <= Index(x))'
      BY <1>20 DEF Nearest
    <3>2. \A i : Visits(i, b)' /\ j < i => (Index(x) < Index(calls[i].m))'
      BY <1>20 DEF Nearest
    <3>3. Index(x)' = Index(x)
      BY <1>11, <1>19
    <3>4. ASSUME NEW i, Visits(i, b), i # s, j < i PROVE Index(x) < Index(calls[i].m)
      <4>1. Visits(i, b)'
        BY <1>8, <3>4
      <4> QED BY <1>18, <3>2, <3>3, <3>4, <4>1
    <3> QED BY <1>18, <3>1, <3>3, <3>4
  <2>2. CASE j < q
    <3>1. Index(x) < Index(p)
      BY <1>1, <1>4, <1>16, <1>17, <2>1, <2>2
    <3>2. Index(x) < Index(calls[s].m)
      <4>1. Index(x) \in Nat /\ Index(p) \in Nat /\ Index(m) \in Nat
        BY <1>3, <1>11, <1>17, <1>19
      <4> QED BY <1>1, <1>3, <1>17, <3>1, <4>1
    <3>3. Nearest(j, b, x)
      BY <2>1, <3>2 DEF Nearest
    <3> QED BY <3>3
  <2>3. CASE j = q /\ Index(x) < Index(m)
    <3>1. Index(x) < Index(calls[s].m)
      BY <1>1, <1>3, <2>3
    <3> QED BY <2>1, <3>1 DEF Nearest
  <2>4. CASE j = q /\ Index(m) <= Index(x)
    BY <1>3, <2>4
  <2> QED BY <1>3, <1>4, <1>11, <1>19, <2>1, <2>2, <2>3, <2>4
<1>30. \A j : Visits(j, b) /\ j # s => /\ calls'[j] = calls[j] /\ Index(calls[j].m) < Index(m)
                                     /\ calls[j].m \in Members(b) /\ calls[j].m \in Members(b)'
  <2> SUFFICES ASSUME NEW j, Visits(j, b), j # s
               PROVE  /\ calls'[j] = calls[j] /\ Index(calls[j].m) < Index(m)
                      /\ calls[j].m \in Members(b) /\ calls[j].m \in Members(b)'
    OBVIOUS
  <2>1. Visits(j, b)' /\ j \in 1 .. q /\ j < s
    BY <1>1, <1>4, <1>8, <1>18
  <2>2. Index(calls[j].m) < Index(calls[s].m)
    BY <1>3, <2>1 DEF Tree, Visited
  <2> QED BY <1>1, <1>3, <1>10, <1>18, <2>1, <2>2
<1>31. PICK K : K = {x \in Members(b) : Low(m) = Index(m) /\ Index(m) <= Index(x)}
  OBVIOUS
<1>32. /\ K = {} /\ calls[s].m = m /\ calls[s].at = "inner" /\ calls[s].i = Len(requested(m)) + 2
       /\ Members(b)' = Members(b) \ K /\ Members(b) \subseteq Module
  BY <1>1, <1>2, <1>3, <1>5, <1>10, <1>31
<1>33. /\ \A x \in Module :
            /\ records'[x].status = IF x \in K THEN IF records[x].asyncEvaluation THEN "evaluating-async" ELSE "evaluated"
                                    ELSE records[x].status
            /\ records'[x].cycleRoot = IF x \in K THEN m ELSE records[x].cycleRoot
            /\ records'[x].error = records[x].error
       /\ SameAsync /\ SameWaits /\ SameCaps
  BY <1>1, <1>3, <1>5, <1>32, CloseFacts DEF SameState
<1>34. \A x \in Members(b)' : \A j : Nearest(j, b, x)' =>
       \/ Nearest(j, b, x) /\ j # s
       \/ /\ Nearest(s, b, x) /\ Index(m) <= Index(x) /\ Visits(j, b) /\ j # s
          /\ calls[j].i <= Len(requested(calls[j].m)) /\ m = requested(calls[j].m)[calls[j].i]
  <2> SUFFICES ASSUME NEW x \in Members(b), NEW j, Nearest(j, b, x)'
               PROVE  \/ Nearest(j, b, x) /\ j # s
                      \/ /\ Nearest(s, b, x) /\ Index(m) <= Index(x) /\ Visits(j, b) /\ j # s
                         /\ calls[j].i <= Len(requested(calls[j].m)) /\ m = requested(calls[j].m)[calls[j].i]
    BY <1>32
  <2>1. Visits(j, b) /\ j # s
    BY <1>8 DEF Nearest
  <2> QED BY <1>16, <1>17, <1>20, <2>1
<1>35. Leaving(b, s, m, K)
  BY <1>1, <1>3, <1>4, <1>8, <1>11, <1>30, <1>31, <1>32, <1>33, <1>34 DEF Leaving
<1> QED BY <1>35
LEMMA ComponentSetup ==
  ASSUME TypeOK, Shaped, Trees, program' = program, tangled' = tangled, Close, Low(Top.m) = Index(Top.m)
  PROVE  \E b, s, m, K : Leaving(b, s, m, K)
<1>1. PICK s, q, b, m : s = Size /\ q = Size - 1 /\ b = Base /\ m = Top.m
  OBVIOUS
<1>2. InEvaluation /\ Top.at = "inner"
  BY CloseTop
<1>3. /\ Visits(s, b) /\ m \in Members(b) /\ b \in Evaluations /\ Tree(b) /\ b < s /\ Top = calls[s]
      /\ \A x \in Members(b) : Index(m) <= Index(x) => Nearest(s, b, x)
      /\ \A x \in Members(b) : Clean(b, x) => m \in Graph(x)
      /\ m \in Module
  BY <1>1, <1>2, TopVisit
<1>4. /\ \A k \in Evaluations : k <= b /\ k \in 1 .. s
      /\ \A j, k : In(j, k) => j \in 1 .. s /\ k \in 1 .. s
      /\ \A j, k : In(j, k) /\ k # b => j < b
      /\ DOMAIN calls = 1 .. s /\ s \in Nat /\ q \in Nat /\ s > 0 /\ b \in 1 .. s
  BY <1>1, <1>2, <1>3, Regions, CallsType
<1>5. PICK K : K = Closing
  OBVIOUS
<1>6. /\ m \in K /\ K \subseteq Members(b) /\ Typed /\ Size' = q
      /\ \A j \in 1 .. q : j # b => calls'[j] = calls[j]
      /\ calls'[b].at = "evaluate" /\ calls'[b].m = calls[b].m /\ calls'[b].i = calls[b].i
      /\ DOMAIN calls'[b].todo \subseteq DOMAIN calls[b].todo
      /\ \A i \in DOMAIN calls'[b].todo : calls'[b].todo[i] = calls[b].todo[i]
      /\ Members(b)' = Members(b) \ K
      /\ \A x \in Module :
           /\ x \in K => records'[x].status \notin {"evaluating", "linked"}
           /\ x \notin K => records'[x].status = records[x].status
      /\ SameIndex
  <2>1. /\ m \in K /\ K \subseteq Members(b) /\ Typed /\ Size' = q
        /\ \A j \in 1 .. q : j # b => calls'[j] = calls[j]
        /\ calls'[b].at = "evaluate" /\ calls'[b].m = calls[b].m /\ calls'[b].i = calls[b].i
        /\ DOMAIN calls'[b].todo \subseteq DOMAIN calls[b].todo
        /\ \A i \in DOMAIN calls'[b].todo : calls'[b].todo[i] = calls[b].todo[i]
        /\ {calls'[b].todo[i] : i \in DOMAIN calls'[b].todo} = Members(b) \ K
        /\ SameIndex
    BY <1>1, <1>5, ClosingFacts
  <2>2. \A x \in Module :
          records'[x].status = IF x \in K
                   THEN IF records[x].asyncEvaluation THEN "evaluating-async" ELSE "evaluated"
                   ELSE records[x].status
    BY <1>1, <1>5, ClosingFacts
  <2>3. Members(b)' = Members(b) \ K
    BY <2>1 DEF Members
  <2> QED BY <2>1, <2>2, <2>3
<1>7. /\ Keeps(q) /\ calls' \in Seq(Call) /\ DOMAIN calls' = 1 .. q
  <2>1. Keeps(q)
    BY <1>1, <1>3, ShapedClose
  <2> QED BY <1>6, <2>1, LenProperties DEF Typed, Size
<1>8. /\ \A j \in 1 .. q : \A k : In(j, k)' <=> In(j, k)
      /\ \A j \in 1 .. q : \A k : Visits(j, k)' <=> Visits(j, k)
      /\ \A k \in 1 .. q : k \in Evaluations' <=> k \in Evaluations
  BY <1>7, Prefix
<1>9. /\ \A j, k : Visits(j, k)' <=> Visits(j, k) /\ j # s
      /\ \A j, k : In(j, k)' => In(j, k) /\ j # s /\ j \in 1 .. q
  <2>1. \A j, k : In(j, k)' => In(j, k) /\ j # s /\ j \in 1 .. q
    BY <1>1, <1>4, <1>7, <1>8 DEF In
  <2>2. \A j, k : Visits(j, k)' => Visits(j, k) /\ j # s
    BY <1>8, <2>1 DEF Visits
  <2>3. \A j, k : Visits(j, k) /\ j # s => Visits(j, k)'
    <3> SUFFICES ASSUME NEW j, NEW k, Visits(j, k), j # s PROVE Visits(j, k)'
      OBVIOUS
    <3>1. j \in 1 .. s
      BY <1>4 DEF Visits
    <3>2. j \in 1 .. q
      BY <1>1, <1>4, <3>1
    <3> QED BY <1>8, <3>2
  <2> QED BY <2>1, <2>2, <2>3
<1>10. Evaluations' = Evaluations /\ \A k \in Evaluations : k \in 1 .. q
  <2>1. \A k \in Evaluations : k \in 1 .. q
    BY <1>1, <1>3, <1>4
  <2>2. \A k \in Evaluations' : k \in 1 .. q
    BY <1>7 DEF Evaluations
  <2> QED BY <1>8, <2>1, <2>2
<1>11. \A k \in Evaluations : Members(k) \subseteq Module /\ calls[k].m \in Module
  BY <1>1, <1>4, MembersType
<1>12. \A x \in Module : Index(x)' = Index(x) /\ Low(x)' = Low(x) /\ Index(x) \in Nat /\ Low(x) \in Nat
  BY <1>6, RecordsType DEF SameIndex
<1>16. \A x \in Members(b) : x \in Module /\ (x \in K <=> Index(m) <= Index(x))
  BY <1>1, <1>3, <1>5, <1>11 DEF Closing
<1>17. \A x \in Members(b)' : x \in Members(b) /\ x \in Module /\ x # m /\ Index(x) < Index(m)
                               /\ records'[x].status = records[x].status
  BY <1>3, <1>6, <1>12, <1>16
<1>18. \A x \in Members(b) : Index(x) < Index(m) => x \in Members(b)'
  BY <1>3, <1>6, <1>12, <1>16
<1>19. \A j : Visits(j, b) /\ j # s =>
         /\ j \in 1 .. q /\ j # b /\ calls'[j] = calls[j] /\ calls[j].m \in Members(b)'
         /\ calls[j].m \in Module /\ Index(calls[j].m)' = Index(calls[j].m) /\ Low(calls[j].m)' = Low(calls[j].m)
         /\ Index(calls[j].m) < Index(m)
  <2> SUFFICES ASSUME NEW j, Visits(j, b), j # s
               PROVE  /\ j \in 1 .. q /\ j # b /\ calls'[j] = calls[j] /\ calls[j].m \in Members(b)'
                      /\ calls[j].m \in Module
                      /\ Index(calls[j].m)' = Index(calls[j].m) /\ Low(calls[j].m)' = Low(calls[j].m)
                      /\ Index(calls[j].m) < Index(m)
    OBVIOUS
  <2>1. j \in 1 .. q /\ j # b
    <3>1. j \in 1 .. s /\ b < j
      BY <1>4 DEF Visits, In
    <3> QED BY <1>1, <1>4, <3>1
  <2>2. Index(calls[j].m) < Index(calls[s].m) /\ calls[s].m = m
    <3>1. j < s
      BY <1>1, <1>4, <2>1
    <3> QED BY <1>1, <1>3, <3>1 DEF Tree, Visited
  <2>3. calls[j].m \in Members(b) /\ calls[j].m \in Module
    BY <1>3, <1>11 DEF Tree, Visited
  <2>4. calls[j].m \in Members(b)'
    BY <1>18, <2>2, <2>3
  <2>5. Index(calls[j].m)' = Index(calls[j].m) /\ Low(calls[j].m)' = Low(calls[j].m)
    <3>1. calls'[j].m = calls[j].m
      BY <1>6, <2>1
    <3> QED BY <1>12, <2>3, <3>1 DEF Index, Low
  <2> QED BY <1>6, <2>1, <2>2, <2>3, <2>4, <2>5
<1>23. ASSUME NEW x \in Members(b)', NEW j, Nearest(j, b, x)'
       PROVE  Nearest(j, b, x) /\ j # s
  <2>1. /\ Visits(j, b) /\ j # s /\ Index(calls[j].m) <= Index(x)
        /\ \A i : Visits(i, b) /\ i # s /\ j < i => Index(x) < Index(calls[i].m)
    <3>1. Visits(j, b)' /\ (Index(calls[j].m) <= Index(x))'
      BY <1>23 DEF Nearest
    <3>2. \A i : Visits(i, b)' /\ j < i => (Index(x) < Index(calls[i].m))'
      BY <1>23 DEF Nearest
    <3>3. Index(x)' = Index(x)
      BY <1>12, <1>17
    <3>4. ASSUME NEW i, Visits(i, b), i # s, j < i PROVE Index(x) < Index(calls[i].m)
      BY <1>9, <1>19, <3>2, <3>3, <3>4
    <3> QED BY <1>9, <1>19, <3>1, <3>3, <3>4
  <2>2. Index(x) < Index(calls[s].m)
    BY <1>1, <1>3, <1>17
  <2> QED BY <2>1, <2>2 DEF Nearest
<1>30. \A j : Visits(j, b) /\ j # s => /\ calls'[j] = calls[j] /\ Index(calls[j].m) < Index(m)
                                     /\ calls[j].m \in Members(b) /\ calls[j].m \in Members(b)'
  BY <1>19, <1>17
<1>32. /\ K = {x \in Members(b) : Low(m) = Index(m) /\ Index(m) <= Index(x)}
       /\ calls[s].m = m /\ calls[s].at = "inner" /\ calls[s].i = Len(requested(m)) + 2
       /\ Members(b)' = Members(b) \ K /\ Members(b) \subseteq Module
  <2>1. Top.i = Len(requested(m)) + 2
    BY <1>1, ClosingFacts
  <2>2. \A x : x \in K <=> x \in Members(b) /\ Low(m) = Index(m) /\ Index(m) <= Index(x)
    BY <1>1, <1>6, <1>16
  <2>3. K = {x \in Members(b) : Low(m) = Index(m) /\ Index(m) <= Index(x)}
    BY <2>2
  <2> QED BY <1>1, <1>2, <1>3, <1>6, <1>11, <2>1, <2>3
<1>33. /\ \A x \in Module :
            /\ records'[x].status = IF x \in K THEN IF records[x].asyncEvaluation THEN "evaluating-async" ELSE "evaluated"
                                    ELSE records[x].status
            /\ records'[x].cycleRoot = IF x \in K THEN m ELSE records[x].cycleRoot
            /\ records'[x].error = records[x].error
       /\ SameAsync /\ SameWaits /\ SameCaps
  BY <1>1, <1>5, ClosingFacts
<1>34. \A x \in Members(b)' : \A j : Nearest(j, b, x)' => Nearest(j, b, x) /\ j # s
  BY <1>23
<1>35. Leaving(b, s, m, K)
  BY <1>1, <1>3, <1>4, <1>9, <1>12, <1>30, <1>32, <1>33, <1>34 DEF Leaving
<1> QED BY <1>35
LEMMA CloseSetup ==
  ASSUME TypeOK, Shaped, Trees, program' = program, tangled' = tangled, Close
  PROVE  \E b, s, m, K : Leaving(b, s, m, K)
BY LeaveSetup, ComponentSetup

(* A module leaves what it has found to its importer, or as a component. *)
LEMMA WayClose ==
  ASSUME Inv, Inv', Next, Ahead, Histories, Way(Base), Close
  PROVE  \A b : b = Base => Way(b)'
<1>1. /\ TypeOK /\ Shaped /\ Rooted /\ Trees /\ Skeleton /\ Marks /\ Fresh /\ EndsIn
      /\ program' = program /\ tangled' = tangled /\ tangled \subseteq tangled'
      /\ finished' = finished
  BY DEF Inv, Skeleton, Counts, Histories, Ahead, Close, history, bodies
<1>2. PICK b, s, m, K : Leaving(b, s, m, K)
  BY <1>1, CloseSetup
<1>4. b = Base /\ Way(b)
  BY <1>2 DEF Leaving
<1>5. InEvaluation /\ Top.at = "inner"
  BY CloseTop
<1>6. /\ \A x : requested(x)' = requested(x) /\ cyclic(x)' = cyclic(x)
      /\ \A x \in Module : \A i \in DOMAIN requested(x) : requested(x)[i] \in Module
      /\ \A x \in Module : DOMAIN requested(x) = 1 .. Len(requested(x)) /\ Len(requested(x)) \in Nat
  BY <1>1, ProgramKept, ProgramType
<1>7. \A x \in Module : \A i \in LookedAt(b, x)' : i \in DOMAIN requested(x) /\ i \in LookedAt(b, x)
  <2> SUFFICES ASSUME NEW x \in Module, NEW i \in LookedAt(b, x)'
               PROVE  i \in DOMAIN requested(x) /\ i \in LookedAt(b, x)
    OBVIOUS
  <2>1. i \in DOMAIN requested(x) /\ i \in 1 .. Len(requested(x)) /\ \A j : Visits(j, b)'
        /\ calls'[j].m = x => i < calls'[j].i
    BY <1>6 DEF LookedAt
  <2> SUFFICES ASSUME NEW j, Visits(j, b), calls[j].m = x
               PROVE  i < calls[j].i
    BY <2>1 DEF LookedAt
  <2>3. CASE j # s
    BY <1>2, <2>1, <2>3 DEF Leaving
  <2>4. CASE j = s
    <3>1. x = m /\ calls[s].i = Len(requested(m)) + 2
      BY <1>2, <2>4 DEF Leaving
    <3> QED BY <1>6, <2>1, <2>4, <3>1
  <2> QED BY <2>3, <2>4
<1>8. Members(b) \subseteq Module /\ m \in Members(b) /\ \A x : x \in Members(b)' <=> x \in Members(b) /\ x \notin K
  BY <1>2 DEF Leaving
<1>10. Looks(b)'
  <2> SUFFICES ASSUME NEW x \in Members(b), x \notin K, NEW i \in LookedAt(b, x)'
               PROVE  LET d == requested(x)[i]
                      IN  /\ records'[d].status # "linked"
                          /\ d \in Members(b) /\ d \notin K =>
                             /\ records'[x].dfsAncestorIndex <= records'[d].dfsIndex
                             /\ \A j : Visits(j, b) /\ j # s =>
                                     ~(/\ records'[x].dfsIndex < records'[calls[j].m].dfsIndex
                                       /\ records'[calls[j].m].dfsIndex <= records'[d].dfsIndex)
    <3>1. \A x_1 : \A i_1 : (requested(x_1)[i_1])' = requested(x_1)[i_1]
      BY <1>6
    <3>2. \A j : (Visits(j, b)' <=> Visits(j, b) /\ j # s) /\ (Visits(j, b) /\ j # s => calls'[j] = calls[j])
      BY <1>2 DEF Leaving
    <3> QED BY <1>8, <3>1, <3>2 DEF Looks, Index, Low
  <2>1. PICK d : d = requested(x)[i]
    OBVIOUS
  <2>2. x \in Module /\ d \in Module /\ i \in LookedAt(b, x)
    BY <1>6, <1>7, <1>8, <2>1
  <2>3. /\ records[d].status # "linked"
        /\ d \in Members(b) =>
             /\ Low(x) <= Index(d)
             /\ \A j : Visits(j, b) => ~(Index(x) < Index(calls[j].m) /\ Index(calls[j].m) <= Index(d))
    BY <1>4, <2>1, <2>2 DEF Way, Looks
  <2>4. \A j : Visits(j, b) /\ j # s => records'[calls[j].m].dfsIndex = records[calls[j].m].dfsIndex
    BY <1>2 DEF Leaving, Index
  <2>5. Index(x)' = Index(x) /\ Index(d)' = Index(d) /\ Low(x)' = Low(x) /\ records'[d].status # "linked"
    BY <1>2, <2>2, <2>3 DEF Leaving
  <2> QED BY <2>1, <2>3, <2>4, <2>5 DEF Index, Low
<1>11. ~abandoned' => Learns(b)'
  <2> SUFFICES ASSUME ~abandoned', NEW x \in Members(b), x \notin K, Orderly(x)', NEW i \in LookedAt(b, x)'
               PROVE  (requested(x)[i] \in Members(b) /\ requested(x)[i] \notin K) \/ Learnt(x, requested(x)[i])'
    BY <1>6, <1>8 DEF Learns
  <2>1. PICK d : d = requested(x)[i]
    OBVIOUS
  <2>2. x \in Module /\ d \in Module /\ i \in LookedAt(b, x)
    BY <1>6, <1>7, <1>8, <2>1
  <2>4. ~abandoned /\ Orderly(x)
    BY <1>1, <2>2, OrderlyRules DEF Ahead
  <2>5. requested(x)[i]' = d
    BY <1>6, <2>1
  <2>6. d \in Members(b) \/ Learnt(x, d)
    BY <1>4, <2>1, <2>2, <2>4 DEF Way, Learns
  <2>7. Learnt(x, d) => Learnt(x, d)'
    BY <1>1, <2>2, LearntKept
  <2>8. ASSUME d \in Members(b), d \in K
        PROVE  FALSE
    <3>1. Index(m) <= Index(d) /\ ~(Index(m) <= Index(x)) /\ calls[s].m = m /\ Visits(s, b)
      BY <1>2, <2>8 DEF Leaving
    <3>2. Index(m) \in Nat /\ Index(x) \in Nat /\ Index(d) \in Nat
      BY <1>2, <1>8, <2>2 DEF Leaving
    <3>3. ~(Index(x) < Index(calls[s].m) /\ Index(calls[s].m) <= Index(d))
      BY <1>4, <2>1, <2>2, <2>8, <3>1 DEF Way, Looks
    <3> QED BY <3>1, <3>2, <3>3
  <2> QED BY <2>1, <2>5, <2>6, <2>7, <2>8
<1>12. Chain(b)'
  <2> SUFFICES ASSUME NEW x \in Members(b), x \notin K, NEW j, Nearest(j, b, x)', calls'[j].m # x, x \notin finished
               PROVE  (Upward(x, calls[j].m)' /\ Pending(calls[j].m)' > 0) \/ Handing(j, b, x)'
    BY <1>1, <1>8 DEF Chain
  <2>1. PICK y : y = calls[j].m
    OBVIOUS
  <2>2. Visits(j, b) /\ j # s
    BY <1>2 DEF Leaving, Nearest
  <2>3. calls'[j] = calls[j] /\ calls'[j].m = y /\ y \in Members(b) /\ y \in Members(b)' /\ y \in Module
        /\ x \in Module /\ y # x
        /\ Index(y) < Index(m) /\ Index(y)' = Index(y) /\ Pending(y)' = Pending(y)
    BY <1>2, <1>8, <2>1, <2>2 DEF Leaving, SameWaits
  <2>0. ASSUME Upward(x, y)', Pending(y)' > 0
        PROVE  Upward(x, calls[j].m)' /\ Pending(calls[j].m)' > 0
    BY <2>0, <2>3 DEF Pending, Upward
  <2>10. ASSUME NEW d \in Members(b), d \notin K, calls[j].i <= Len(requested(y)), d = requested(y)[calls[j].i],
                Index(y) < Index(d), Index(d) <= Index(x), records[d].asyncEvaluation, Upward(x, d)
         PROVE  Handing(j, b, x)'
    <3>1. d \in Module /\ d \in Members(b)' /\ records'[d].asyncEvaluation /\ Index(d)' = Index(d)
          /\ Index(x)' = Index(x)
      BY <1>2, <1>8, <2>3, <2>10 DEF Leaving, SameAsync
    <3>2. Upward(x, d)'
      BY <1>1, <2>3, <2>10, UpwardKept
    <3>3. requested(y)' = requested(y)
      BY <1>6
    <3>4. /\ calls'[j].i <= Len(requested(y)') /\ d = requested(y)'[calls'[j].i] /\ calls'[j].m = y
          /\ Index(y)' < Index(d)' /\ Index(d)' <= Index(x)'
      BY <2>3, <2>10, <3>1, <3>3
    <3> QED BY <3>1, <3>2, <3>4 DEF Handing
  <2>4. CASE Nearest(j, b, x)
    <3>1. (Upward(x, y) /\ Pending(y) > 0) \/ Handing(j, b, x)
      BY <1>4, <2>1, <2>3, <2>4 DEF Way, Chain
    <3>2. CASE Upward(x, y) /\ Pending(y) > 0
      <4>1. Upward(x, y)'
        BY <1>1, <2>3, <3>2, UpwardKept
      <4> QED BY <2>0, <2>3, <3>2, <4>1
    <3>3. CASE Handing(j, b, x)
      <4>1. PICK d : d = requested(y)[calls[j].i]
        OBVIOUS
      <4>2. /\ calls[j].i <= Len(requested(y)) /\ d \in Members(b) /\ Index(y) < Index(d) /\ Index(d) <= Index(x)
            /\ records[d].asyncEvaluation /\ Upward(x, d)
        BY <2>1, <3>3, <4>1 DEF Handing
      <4>3. d \notin K
        <5>1. Index(m) \in Nat /\ Index(d) \in Nat /\ Index(x) \in Nat
          BY <1>2, <1>8, <4>2, <2>3 DEF Leaving
        <5>2. d \in K => Index(m) <= Index(d) /\ Low(m) = Index(m)
          BY <1>2 DEF Leaving
        <5>3. Low(m) = Index(m) => ~(Index(m) <= Index(x))
          BY <1>2 DEF Leaving
        <5> QED BY <4>2, <5>1, <5>2, <5>3
      <4> QED BY <2>10, <4>1, <4>2, <4>3
    <3> QED BY <3>1, <3>2, <3>3
  <2>5. CASE Nearest(s, b, x) /\ Index(m) <= Index(x) /\ calls[j].i <= Len(requested(y))
        /\ m = requested(y)[calls[j].i]
    <3>1. m \notin K
      <4>1. Low(m) = Index(m) => ~(Index(m) <= Index(x))
        BY <1>2, <2>5 DEF Leaving
      <4> QED BY <1>2, <2>5, <4>1 DEF Leaving
    <3>2. records[m].asyncEvaluation /\ Upward(x, m)
      <4>1. CASE x = m
        <5>1. records[m].status = "evaluating" /\ m \in Module
          BY <1>1, <1>2 DEF Leaving, Trees, Tree, Numbered
        <5>2. m \notin Bodies
          BY <1>1, <1>4, <1>5, <1>8, BodyBelow DEF On
        <5>3. m \notin Busy
          <6> SUFFICES ASSUME m \in Busy PROVE FALSE
            OBVIOUS
          <6>1. PICK l \in 1 .. Size : calls[l].at = "inner" /\ calls[l].m = m /\ calls[l].i <= Len(requested(m)) + 1
            BY DEF Busy
          <6>2. s = Size /\ s \in Nat /\ calls[s].at = "inner" /\ calls[s].m = m /\ calls[s].i = Len(requested(m)) + 2
            BY <1>2 DEF Leaving
          <6>3. l # s
            BY <1>6, <5>1, <6>1, <6>2
          <6>4. l < s /\ s \in 1 .. Size
            BY <6>1, <6>2, <6>3
          <6> QED BY <1>1, <6>1, <6>2, <6>4, DistinctVisits
        <5>4. records[m].asyncEvaluation
          BY <1>1, <2>5, <4>1, <5>1, <5>2, <5>3 DEF EndsIn
        <5> QED BY <4>1, <5>4 DEF Upward
      <4>2. CASE x # m
        <5>1. calls[s].m = m /\ m \in Module /\ calls[s].i = Len(requested(m)) + 2
          BY <1>2, <1>8 DEF Leaving
        <5>2. ~Handing(s, b, x)
          BY <1>6, <5>1 DEF Handing
        <5>3. Upward(x, m) /\ Pending(m) > 0
          BY <1>4, <2>5, <4>2, <5>1, <5>2 DEF Way, Chain
        <5>4. records[m].status = "evaluating"
          BY <1>1, <1>2 DEF Leaving, Trees, Tree, Numbered
        <5>5. m \notin Busy
          <6> SUFFICES ASSUME m \in Busy PROVE FALSE
            OBVIOUS
          <6>1. PICK l \in 1 .. Size : calls[l].at = "inner" /\ calls[l].m = m /\ calls[l].i <= Len(requested(m)) + 1
            BY DEF Busy
          <6>2. s = Size /\ s \in Nat /\ calls[s].at = "inner"
            BY <1>2 DEF Leaving
          <6>3. l # s
            BY <1>6, <5>1, <6>1, <6>2
          <6>4. l < s /\ s \in 1 .. Size
            BY <6>1, <6>2, <6>3
          <6> QED BY <1>1, <5>1, <6>1, <6>2, <6>4, DistinctVisits
        <5> QED BY <1>1, <5>1, <5>3, <5>4, <5>5 DEF Fresh
      <4> QED BY <4>1, <4>2
    <3>3. Index(y) < Index(m)
      BY <2>3
    <3> QED BY <1>8, <2>5, <2>10, <3>1, <3>2, <3>3
  <2>6. x \in Members(b)'
    BY <1>8
  <2> QED BY <1>2, <2>1, <2>4, <2>5, <2>6 DEF Leaving
<1> QED BY <1>4, <1>10, <1>11, <1>12 DEF Way

----------------------------------------------------------------------------
(* Every step keeps the ways of the evaluations. *)
LEMMA WaysStep ==
  ASSUME Inv, Inv', Next, Ahead, Histories, Ways, ~abandoned => Settled
  PROVE  Ways'
<1> SUFFICES ASSUME NEW k \in Evaluations'
             PROVE  Way(k)'
  BY DEF Ways
<1>1. CASE ~(InEvaluation /\ k = Base /\ (Enter \/ Depend \/ Close))
  BY <1>1, WaysRest
<1>2. CASE InEvaluation /\ k = Base /\ (Enter \/ Depend \/ Close)
  <2>1. Way(Base)
    <3>1. TypeOK /\ Shaped
      BY DEF Inv, Skeleton
    <3> QED BY <1>2, <3>1, Regions DEF Ways
  <2>2. \A b : b = Base => Way(b)'
    BY <1>2, <2>1, WayEnter, WayDepend, WayClose
  <2> QED BY <1>2, <2>2
<1> QED BY <1>1, <1>2

----------------------------------------------------------------------------
(* What requests only itself and what has completed has completed. *)
LEMMA FinClosed ==
  ASSUME TypeOK, NEW F \in SUBSET Module, NEW C, C \subseteq F,
         \A y \in C : Orderly(y) => \A r \in Requests(y) : r \in C \/ Graph(r) \subseteq F,
         NEW x \in C, Orderly(x)
  PROVE  Graph(x) \subseteq F
<1>1. PICK S : S = {d \in F : (d \in C /\ Orderly(d)) \/ Graph(d) \subseteq F}
  OBVIOUS
<1>2. S \in SUBSET Module /\ x \in S /\ S \subseteq F
  BY <1>1
<1>3. Closed(S)
  <2> SUFFICES ASSUME NEW d \in S, NEW i \in DOMAIN requested(d)
               PROVE  requested(d)[i] \in S
    BY DEF Closed
  <2>1. PICK r : r = requested(d)[i]
    OBVIOUS
  <2>2. d \in Module /\ r \in Module /\ r \in Requests(d)
    BY <1>2, <2>1, ProgramType DEF Requests
  <2>3. r \in Graph(d) /\ Graph(r) \subseteq Graph(d) /\ r \in Graph(r)
    BY <2>2, GraphRules
  <2>4. CASE Graph(d) \subseteq F
    BY <1>1, <2>1, <2>3, <2>4
  <2>5. CASE d \in C /\ Orderly(d)
    <3>1. Orderly(r)
      BY <2>3, <2>5 DEF Orderly
    <3>2. r \in C \/ Graph(r) \subseteq F
      BY <2>2, <2>5
    <3> QED BY <1>1, <2>1, <2>3, <3>1, <3>2
  <2> QED BY <1>1, <2>4, <2>5
<1>4. Graph(x) \subseteq S
  BY <1>2, <1>3, GraphRules
<1> QED BY <1>2, <1>4

----------------------------------------------------------------------------
\* The modules of K become the component of m.
Shut(m, K) ==
  /\ m \in K /\ K \subseteq Module /\ m = Top.m /\ finished' = finished
  /\ \A x \in Module : records'[x].cycleRoot = IF x \in K THEN m ELSE records[x].cycleRoot
  /\ \A x \in K : /\ records[x].status = "evaluating" /\ records[x].cycleRoot = None
                  /\ Pending(x) > 0 => records[x].asyncEvaluation
                  /\ x \notin finished => records[m].asyncEvaluation /\ Upward(x, m)
                  /\ Orderly(x) /\ ~abandoned =>
                       \A r \in Requests(x) : (r \in K /\ x \in Graph(r)) \/ Learnt(x, r)
  /\ \A x \in Module : /\ records'[x].status = IF x \in K THEN IF records[x].asyncEvaluation THEN "evaluating-async" ELSE "evaluated"
                               ELSE records[x].status
                       /\ records'[x].error = records[x].error
  /\ SameAsync /\ SameWaits
LEMMA ShutFacts ==
  ASSUME Inv, Inv', Ahead, Histories, Way(Base), Closes
  PROVE  \E m, K : Shut(m, K)
<1>1. /\ TypeOK /\ Shaped /\ Rooted /\ Trees /\ Skeleton /\ Marks /\ Fresh /\ EndsIn /\ Close
      /\ program' = program /\ tangled' = tangled /\ tangled \subseteq tangled'
      /\ finished' = finished /\ Low(Top.m) = Index(Top.m)
  BY DEF Inv, Skeleton, Counts, Histories, Ahead, Close, Closes, history, bodies
<1>2. PICK b, s, m, K : Leaving(b, s, m, K)
  BY <1>1, CloseSetup
<1>3. /\ b = Base /\ Way(b) /\ b \in Evaluations /\ s = Size /\ s \in Nat /\ m = Top.m
         /\ Members(b) \subseteq Module /\ m \in Members(b)
      /\ calls[s].m = m /\ calls[s].at = "inner" /\ calls[s].i = Len(requested(m)) + 2 /\ Visits(s, b)
  BY <1>2 DEF Leaving
<1>4. /\ K = {x \in Members(b) : Index(m) <= Index(x)} /\ K = Closing
      /\ \A x \in Module : Index(x) \in Nat /\ Low(x) \in Nat
      /\ \A j : Visits(j, b) /\ j # s => Index(calls[j].m) < Index(m) /\ calls[j].m \in Members(b)
      /\ \A x \in Members(b) : Index(m) <= Index(x) => Nearest(s, b, x)
  BY <1>1, <1>2 DEF Leaving, Closing
<1>5. InEvaluation /\ Top.at = "inner"
  BY <1>1, CloseTop
<1>6. /\ m \in K /\ K \subseteq Module
      /\ \A x \in K : x \in Members(b) /\ x \in Module /\ Nearest(s, b, x) /\ Index(m) <= Index(x)
      /\ \A x \in K : x \in Graph(m) /\ (Clean(b, x) => m \in Graph(x))
  <2>1. m \in K /\ K \subseteq Module /\ \A x \in K : x \in Members(b) /\ x \in Module /\ Nearest(s, b, x)
        /\ Index(m) <= Index(x)
    BY <1>3, <1>4
  <2> QED BY <1>1, <1>3, <1>4, <2>1, ClosingFacts
<1>7. /\ \A x \in Module : \A i \in DOMAIN requested(x) : requested(x)[i] \in Module
      /\ \A x \in Module : DOMAIN requested(x) = 1 .. Len(requested(x)) /\ Len(requested(x)) \in Nat
  BY <1>1, ProgramType
<1>8. ASSUME NEW x \in K, NEW j, Visits(j, b), calls[j].m = x
      PROVE  j = s /\ x = m
  <2>1. j # s => Index(x) < Index(m)
    BY <1>4, <1>8
  <2>2. Index(x) \in Nat /\ Index(m) \in Nat /\ Index(m) <= Index(x)
    BY <1>4, <1>6
  <2> QED BY <1>3, <1>8, <2>1, <2>2
<1>9. \A x \in K : \A i \in DOMAIN requested(x) : i \in LookedAt(b, x)
  <2> SUFFICES ASSUME NEW x \in K, NEW i \in DOMAIN requested(x), NEW j, Visits(j, b), calls[j].m = x
               PROVE  i < calls[j].i
    BY DEF LookedAt
  <2>1. j = s /\ x = m
    BY <1>8
  <2> QED BY <1>3, <1>6, <1>7, <2>1
<1>10. \A x \in K : /\ records[x].status = "evaluating" /\ records[x].cycleRoot = None
  <2> SUFFICES ASSUME NEW x \in K PROVE records[x].status = "evaluating" /\ records[x].cycleRoot = None
    OBVIOUS
  <2>1. records[x].status = "evaluating"
    BY <1>1, <1>3, <1>6 DEF Trees, Tree, Numbered
  <2> QED BY <1>1, <1>6, <2>1 DEF Rooted
<1>11. \A x \in K : x \notin Busy
  <2> SUFFICES ASSUME NEW x \in K, x \in Busy PROVE FALSE
    OBVIOUS
  <2>1. PICK j \in 1 .. Size : calls[j].at = "inner" /\ calls[j].m = x /\ calls[j].i <= Len(requested(x)) + 1
    BY DEF Busy
  <2>2. PICK k \in Evaluations : Visits(j, k) /\ x \in Members(k)
    BY <1>1, <2>1, OwnVisit
  <2>3. k = b
    BY <1>1, <1>3, <1>6, <2>2 DEF Trees
  <2>4. j = s /\ x = m
    BY <1>8, <2>1, <2>2, <2>3
  <2> QED BY <1>3, <1>6, <1>7, <2>1, <2>4
<1>12. \A x \in K : Pending(x) > 0 => records[x].asyncEvaluation
  BY <1>1, <1>6, <1>10, <1>11 DEF Fresh
<1>13. ASSUME NEW x \in K, x \notin finished
       PROVE  records[m].asyncEvaluation /\ Upward(x, m)
  <2>1. CASE x = m
    <3>1. m \notin Bodies
      BY <1>1, <1>3, <1>5, BodyBelow DEF On
    <3>2. records[m].asyncEvaluation
      BY <1>1, <1>6, <1>10, <1>11, <1>13, <2>1, <3>1 DEF EndsIn
    <3> QED BY <2>1, <3>2 DEF Upward
  <2>2. CASE x # m
    <3>1. ~Handing(s, b, x)
      BY <1>3, <1>6, <1>7 DEF Handing
    <3>2. Upward(x, m) /\ Pending(m) > 0
      BY <1>3, <1>6, <1>13, <2>2, <3>1 DEF Way, Chain
    <3> QED BY <1>6, <1>12, <3>2
  <2> QED BY <2>1, <2>2
<1>14. ASSUME NEW x \in K, Orderly(x), ~abandoned, NEW r \in Requests(x)
       PROVE  (r \in K /\ x \in Graph(r)) \/ Learnt(x, r)
  <2>1. PICK i \in DOMAIN requested(x) : r = requested(x)[i]
    BY DEF Requests
  <2>2. i \in LookedAt(b, x) /\ x \in Members(b) /\ x \in Module /\ r \in Module
    BY <1>6, <1>7, <1>9, <2>1
  <2>3. r \in Members(b) \/ Learnt(x, r)
    BY <1>3, <1>14, <2>1, <2>2 DEF Way, Learns
  <2>4. ASSUME r \in Members(b)
        PROVE  r \in K /\ x \in Graph(r)
    <3>1. Low(x) <= Index(r)
      BY <1>3, <2>1, <2>2, <2>4 DEF Way, Looks
    <3>2. Low(m) <= Low(x)
      <4>1. CASE x = m
        BY <1>4, <2>2, <4>1
      <4>2. CASE x # m
        <5>1. calls[s].m = x \/ Low(calls[s].m) <= Low(x) \/ Coming(s, b, x)
          BY <1>1, <1>3, <1>6 DEF Trees, Tree, Lowest
        <5>2. ~Coming(s, b, x)
          BY <1>3, <1>6, <1>7 DEF Coming
        <5> QED BY <1>3, <4>2, <5>1, <5>2
      <4> QED BY <4>1, <4>2
    <3>3. Index(m) <= Index(r)
      <4>1. Low(m) = Index(m) /\ Low(m) \in Nat /\ Low(x) \in Nat /\ Index(r) \in Nat
        BY <1>1, <1>3, <1>4, <2>2
      <4> QED BY <3>1, <3>2, <4>1
    <3>4. r \in K
      BY <1>4, <2>4, <3>3
    <3>5. r \in Graph(x) /\ Orderly(r)
      <4>1. x \in Graph(x)
        BY <1>1, <2>2, GraphRules
      <4>2. r \in Graph(x)
        BY <1>1, <1>14, <2>2, <4>1, GraphRules
      <4> QED BY <1>1, <1>14, <2>2, <4>2, OrderlyRules
    <3>6. m \in Graph(r) /\ x \in Graph(m)
      BY <1>6, <3>4, <3>5 DEF Clean
    <3> QED BY <1>1, <2>2, <3>4, <3>6, GraphRules
  <2> QED BY <2>3, <2>4
<1>15. /\ \A x \in Module : records'[x].cycleRoot = IF x \in K THEN m ELSE records[x].cycleRoot
       /\ \A x \in Module : /\ records'[x].status = IF x \in K THEN IF records[x].asyncEvaluation THEN "evaluating-async" ELSE "evaluated"
                               ELSE records[x].status
                            /\ records'[x].error = records[x].error
       /\ SameAsync /\ SameWaits
  BY <1>2 DEF Leaving
<1>16. Shut(m, K)
  BY <1>1, <1>3, <1>6, <1>10, <1>12, <1>13, <1>14, <1>15 DEF Shut
<1> QED BY <1>16

----------------------------------------------------------------------------
(* Only the end of a component gives modules a root. *)
LEMMA RootsStep ==
  ASSUME Inv, Inv', Next, Ahead, Histories, Ways
  PROVE  (\A x \in Module : records'[x].cycleRoot = records[x].cycleRoot) \/ \E m, K : Shut(m, K)
<1>1. TypeOK /\ Shaped /\ Rooted /\ Trees /\ Skeleton /\ program' = program
  BY DEF Inv, Skeleton, Ahead
<1>2. CASE Closes
  <2>1. InEvaluation
    BY <1>2, CloseTop DEF Closes
  <2>2. Way(Base)
    BY <1>1, <2>1, Regions DEF Ways
  <2> QED BY <1>2, <2>2, ShutFacts
<1>3. CASE ~Closes
  BY <1>1, <1>3, Kinds, EnterFacts, EnterSyntheticFacts, DependFacts, EvaluateAsyncFacts, UnwindFacts,
     FulfilledFacts, RejectedFacts
     DEF Still, SameState, Throws, Succeeds, Fails, CountsFor
<1> QED BY <1>2, <1>3

(* A module with a root completes later only by itself. *)
LEMMA RootCompletes ==
  ASSUME Inv, Inv', Next, Ahead, NEW a \in Module, records[a].cycleRoot # None, Complete(a)', ~Complete(a)
  PROVE  Succeeds(a)
<1>1. TypeOK /\ Shaped /\ Rooted /\ Trees /\ Skeleton /\ program' = program
  BY DEF Inv, Skeleton, Ahead
<1>2. cyclic(a) /\ records[a].status \in {"evaluating-async", "evaluated"}
  BY <1>1 DEF Rooted
<1>3. ~(records'[a].status = records[a].status /\ records'[a].error = records[a].error)
  BY DEF Complete, Evaluated, hasError
<1>4. Still \/ SameState => records'[a].status = records[a].status /\ records'[a].error = records[a].error
  BY DEF Still, SameState
<1>5. ~Still /\ ~Enter /\ ~EnterSynthetic /\ ~Depend /\ ~EvaluateAsync /\ \A p \in Module : ~CountsFor(p)
  BY <1>1, <1>2, <1>3, <1>4, EnterFacts, EnterSyntheticFacts, DependFacts, EvaluateAsyncFacts DEF CountsFor
<1>6. ~Closes
  <2> SUFFICES ASSUME Closes PROVE FALSE
    OBVIOUS
  <2>1. PICK b, s, m, K : Leaving(b, s, m, K)
    BY <1>1, CloseSetup DEF Closes, Close, history
  <2>2. \A x \in K : records[x].status = "evaluating"
    <3>1. b \in Evaluations /\ \A x \in K : x \in Members(b)
      BY <2>1 DEF Leaving
    <3> QED BY <1>1, <3>1 DEF Trees, Tree, Numbered
  <2>3. a \notin K
    BY <1>2, <2>2
  <2> QED BY <1>3, <2>1, <2>3 DEF Leaving
<1>7. PICK m \in Module : Throws(m) \/ Succeeds(m) \/ Fails(m)
  BY <1>5, <1>6, Kinds
<1>8. records'[a].error = None /\ None \notin Module
  BY EsmAssumption DEF Complete, hasError
<1>9. ~Throws(m)
  <2> SUFFICES ASSUME Throws(m) PROVE FALSE
    OBVIOUS
  <2>1. records'[a].error = IF a \in Failed THEN m ELSE records[a].error
    BY <1>1, UnwindFacts DEF Throws
  <2>2. records'[a].status = IF a \in Failed THEN "evaluated" ELSE records[a].status
    BY <1>1, UnwindFacts DEF Throws
  <2> QED BY <1>3, <1>8, <2>1, <2>2
<1>10. ~Fails(m)
  <2> SUFFICES ASSUME Fails(m) PROVE FALSE
    OBVIOUS
  <2>1. records'[a].error = IF a \in Dependents(m) THEN m ELSE records[a].error
    BY <1>1, RejectedFacts DEF Fails
  <2>2. records'[a].status = IF a \in Dependents(m) THEN "evaluated" ELSE records[a].status
    BY <1>1, RejectedFacts DEF Fails
  <2> QED BY <1>3, <1>8, <2>1, <2>2
<1>11. Succeeds(m) => m = a
  BY <1>1, <1>3, FulfilledFacts DEF Succeeds
<1> QED BY <1>7, <1>9, <1>10, <1>11

(* When the root of a component completes, the rest of it has. *)
LEMMA RootLast ==
  ASSUME Inv, Histories, Ordered, Chained, ~abandoned, NEW a \in Module, records[a].cycleRoot = a, Succeeds(a),
         NEW y \in Module, records[y].cycleRoot = a, y # a
  PROVE  y \in finished
<1> SUFFICES ASSUME y \notin finished PROVE FALSE
  OBVIOUS
<1>1. TypeOK /\ Rooted /\ EndsIn /\ Apart
  BY DEF Inv, Skeleton, Histories
<1>2. a # None /\ cyclic(y)
  BY <1>1, EsmAssumption DEF Rooted
<1>3. Upward(y, a)
  BY <1>2 DEF Chained
<1>4. PICK S : S = {q \in Module : q = y \/ ~Done(q)}
  OBVIOUS
<1>5. \A q \in Module : Complete(q) => Done(q) /\ q # y
  <2> SUFFICES ASSUME NEW q \in Module, Complete(q) PROVE Done(q) /\ q # y
    OBVIOUS
  <2>1. q \in finished \/ (~cyclic(q) /\ q \in Bodies)
    BY <1>1 DEF EndsIn
  <2> QED BY <1>1, <1>2, <2>1 DEF Apart
<1>6. \A q \in S : Parents(q) \subseteq S
  <2> SUFFICES ASSUME NEW q \in S, NEW p \in Parents(q) PROVE p \in S
    OBVIOUS
  <2>1. q \in Module /\ p \in Module
    <3>1. q \in Module
      BY <1>4
    <3>2. records[q].asyncParentModules \in Seq(Module)
      BY <1>1, <3>1, RecordsType
    <3> QED BY <3>1, <3>2, ElementOfSeq DEF Parents
  <2>2. Done(p) => Complete(q)
    BY <2>1 DEF Ordered
  <2>3. ~Complete(q)
    BY <1>4, <1>5
  <2> QED BY <1>4, <2>1, <2>2, <2>3
<1>7. a \in S
  <2>1. S \in SUBSET Module /\ y \in S
    BY <1>4
  <2> QED BY <1>3, <1>6, <2>1 DEF Upward
<1>8. ~Done(a)
  BY <1>4, <1>7
<1>9. Done(a)
  BY <1>1 DEF Succeeds, Apart
<1> QED BY <1>8, <1>9

----------------------------------------------------------------------------
(* Every step keeps what is known of the components. *)
LEMMA LearnedStep ==
  ASSUME Inv, Inv', Next, Ahead, Histories, Ways, Learned, ~abandoned
  PROVE  Learned'
<1>1. TypeOK /\ Rooted /\ program' = program /\ tangled \subseteq tangled'
  BY DEF Inv, Skeleton, Ahead
<1>2. \A x \in Module : (Orderly(x)' => Orderly(x)) /\ Graph(x)' = Graph(x) /\ Requests(x)' = Requests(x)
      /\ Requests(x) \subseteq Module
  BY <1>1, OrderlyRules, ProgramKept, ProgramType DEF Requests
<1> SUFFICES ASSUME NEW x \in Module, records'[x].cycleRoot # None, Orderly(x), NEW r \in Requests(x), r \in Module
             PROVE  (records'[r].cycleRoot = records'[x].cycleRoot /\ x \in Graph(r)) \/ Learnt(x, r)'
  BY <1>2 DEF Learned
<1>3. Learnt(x, r) => Learnt(x, r)'
  BY <1>1, LearntKept
<1>4. CASE records[x].cycleRoot # None
  <2>1. (records[r].cycleRoot = records[x].cycleRoot /\ x \in Graph(r)) \/ Learnt(x, r)
    BY <1>4 DEF Learned
  <2> QED BY <1>3, <1>4, <2>1 DEF Ahead
<1>5. CASE records[x].cycleRoot = None
  <2>1. PICK m, K : Shut(m, K)
    BY <1>5, RootsStep
  <2>2. x \in K
    BY <1>5, <2>1 DEF Shut
  <2> QED BY <1>3, <2>1, <2>2 DEF Shut
<1> QED BY <1>4, <1>5

LEMMA ChainedStep ==
  ASSUME Inv, Inv', Next, Ahead, Histories, Ways, Chained
  PROVE  Chained'
<1>1. TypeOK /\ Rooted /\ finished \subseteq finished'
  BY DEF Inv, Skeleton, Ahead
<1> SUFFICES ASSUME NEW x \in Module, records'[x].cycleRoot # None, x \notin finished
             PROVE  \A a : a = records'[x].cycleRoot => Upward(x, a)'
  BY <1>1 DEF Chained, Upward
<1> SUFFICES ASSUME NEW a, a = records'[x].cycleRoot
             PROVE  Upward(x, a)'
  OBVIOUS
<1>2. Upward(x, a)
  <2>1. CASE records[x].cycleRoot # None
    <3>1. a = records[x].cycleRoot
      BY <2>1 DEF Ahead
    <3> QED BY <2>1, <3>1 DEF Chained
  <2>2. CASE records[x].cycleRoot = None
    <3>1. PICK m, K : Shut(m, K)
      BY <2>2, RootsStep
    <3>2. x \in K /\ a = m
      BY <2>2, <3>1 DEF Shut
    <3> QED BY <3>1, <3>2 DEF Shut
  <2> QED BY <2>1, <2>2
<1> QED BY <1>1, <1>2, UpwardKept

(* A module that Succeeds(a) leaves complete, with what it requests. *)
LEMMA SettledOld ==
  ASSUME Inv, Inv', Next, Ahead, Histories, Ordered, Learned, Settled, Chained, ~abandoned,
         NEW a \in Module, records[a].cycleRoot = a, Complete(a)', NEW x \in Module, records[x].cycleRoot = a, Orderly(x)
  PROVE  Graph(x) \subseteq finished'
<1>1. TypeOK /\ Rooted /\ finished \subseteq finished' /\ Apart /\ finished' \subseteq Module /\ a # None
  BY EsmAssumption DEF Inv, Skeleton, Ahead, Histories, TypeOK
<1>2. CASE Complete(a)
  BY <1>1, <1>2 DEF Settled, Fin
<1>3. CASE ~Complete(a)
  <2>1. Succeeds(a)
    BY <1>1, <1>3, RootCompletes
  <2>2. PICK C : C = {y \in Module : records[y].cycleRoot = a}
    OBVIOUS
  <2>3. \A y \in C : y # a => y \in finished
    BY <2>1, <2>2, RootLast
  <2>4. C \subseteq finished' /\ \A y \in C : Done(y)
    BY <1>1, <2>1, <2>2, <2>3 DEF Succeeds, Apart
  <2>5. ASSUME NEW y \in C, Orderly(y), NEW r \in Requests(y)
        PROVE  r \in C \/ Graph(r) \subseteq finished'
    <3>1. y \in Module /\ r \in Module /\ records[y].cycleRoot = a
      BY <1>1, <2>2, <2>5, ProgramType DEF Requests
    <3>2. (records[r].cycleRoot = a) \/ Learnt(y, r)
      BY <1>1, <2>5, <3>1 DEF Learned
    <3>3. Fin(r) => Graph(r) \subseteq finished'
      BY <1>1 DEF Fin
    <3>4. ASSUME cyclic(r), records[r].cycleRoot # None, y \in Parents(records[r].cycleRoot)
          PROVE  Fin(r)
      <4>1. PICK c : c = records[r].cycleRoot
        OBVIOUS
      <4>2. c \in Module
        BY <1>1, <3>1, <3>4, <4>1 DEF Rooted, TypeOK
      <4>3. Complete(c)
        BY <2>4, <3>4, <4>1, <4>2 DEF Ordered
      <4>4. Orderly(r)
        <5>1. y \in Graph(y)
          BY <1>1, <3>1, GraphRules
        <5>2. r \in Graph(y)
          BY <1>1, <2>5, <3>1, <5>1, GraphRules
        <5>3. Graph(r) \subseteq Graph(y)
          BY <1>1, <3>1, <5>2, GraphRules
        <5> QED BY <2>5, <5>3 DEF Orderly
      <4> QED BY <3>1, <3>4, <4>1, <4>3, <4>4 DEF Settled
    <3> QED BY <2>2, <3>1, <3>2, <3>3, <3>4 DEF Learnt
  <2>6. x \in C
    BY <2>2
  <2> QED BY <1>1, <2>4, <2>5, <2>6, FinClosed
<1> QED BY <1>2, <1>3

LEMMA SettledNew ==
  ASSUME Inv, Inv', Ahead, Histories, Ordered, Settled, ~abandoned, NEW m, NEW K, Shut(m, K),
         Complete(m)', NEW x \in K, Orderly(x)
  PROVE  Graph(x) \subseteq finished
<1>1. TypeOK /\ Rooted /\ Apart /\ Once /\ finished \subseteq Module /\ m \in K /\ K \subseteq Module
  BY DEF Inv, Skeleton, Histories, TypeOK, Shut
<1>2. ~records[m].asyncEvaluation
  BY <1>1 DEF Shut, Complete, Evaluated
<1>3. K \subseteq finished
  BY <1>1, <1>2 DEF Shut
<1>4. ASSUME NEW y \in K, Orderly(y), NEW r \in Requests(y)
      PROVE  r \in K \/ Graph(r) \subseteq finished
  <2>1. y \in Module /\ r \in Module /\ Done(y) /\ Pending(y) \in Nat
    BY <1>1, <1>3, <1>4, ProgramType, RecordsType DEF Requests, Apart
  <2>2. Pending(y) = 0
    BY <1>1, <2>1 DEF Once
  <2>3. records[y].status = "evaluating"
    BY DEF Shut
  <2>4. r \in K \/ Learnt(y, r)
    BY <1>4 DEF Shut
  <2>5. ASSUME cyclic(r), records[r].cycleRoot # None, y \in Parents(records[r].cycleRoot)
        PROVE  FALSE
    <3>1. PICK c : c = records[r].cycleRoot
      OBVIOUS
    <3>2. c \in Module
      BY <1>1, <2>1, <2>5, <3>1 DEF Rooted, TypeOK
    <3> QED BY <2>2, <2>3, <2>5, <3>1, <3>2 DEF Ordered
  <2> QED BY <2>4, <2>5 DEF Learnt, Fin
<1> QED BY <1>1, <1>3, <1>4, FinClosed

LEMMA ClosedStep ==
  ASSUME Inv, Inv', Next, Ahead, Histories, Ordered, Ways, Components
  PROVE  Components'
<1>1. TypeOK /\ Rooted /\ finished \subseteq finished' /\ program' = program /\ tangled \subseteq tangled'
      /\ (abandoned => abandoned')
  BY DEF Inv, Skeleton, Ahead
<1>2. Chained'
  BY ChainedStep DEF Components
<1>3. ASSUME ~abandoned'
      PROVE  Learned' /\ Settled'
  <2>1. ~abandoned /\ Learned /\ Settled /\ Chained
    BY <1>1, <1>3 DEF Components
  <2>2. Learned'
    BY <2>1, LearnedStep
  <2>3. \A x \in Module : (Orderly(x)' => Orderly(x)) /\ Graph(x)' = Graph(x)
    BY <1>1, OrderlyRules, ProgramKept
  <2>4. ASSUME NEW x \in Module, NEW a, a = records'[x].cycleRoot, a # None, Orderly(x), Complete(a)'
        PROVE  Graph(x) \subseteq finished'
    <3>1. CASE records[x].cycleRoot # None
      <4>1. a = records[x].cycleRoot /\ a \in Module /\ records[a].cycleRoot = a
        <5>1. a = records[x].cycleRoot
          BY <2>4, <3>1 DEF Ahead
        <5> QED BY <1>1, <2>4, <5>1 DEF Rooted, TypeOK
      <4> QED BY <2>1, <2>4, <4>1, SettledOld
    <3>2. CASE records[x].cycleRoot = None
      <4>1. PICK m, K : Shut(m, K)
        BY <2>1, <2>4, <3>2, RootsStep
      <4>2. x \in K /\ a = m
        BY <2>4, <3>2, <4>1 DEF Shut
      <4>3. Graph(x) \subseteq finished
        BY <2>1, <2>4, <4>1, <4>2, SettledNew
      <4> QED BY <1>1, <4>3
    <3> QED BY <3>1, <3>2
  <2>5. Settled'
    BY <2>3, <2>4 DEF Settled, Fin, Complete, Evaluated, hasError
  <2> QED BY <2>2, <2>5
<1> QED BY <1>2, <1>3 DEF Components

----------------------------------------------------------------------------
\* The body of e has run, and does so no more, but has not completed.
Spent(e) == Done(e) /\ e \notin finished /\ e \notin suspended /\ e \notin Bodies

LEMMA SpentKept ==
  ASSUME Inv, Inv', Next, Ahead, Histories, NEW e \in Module, Spent(e)
  PROVE  Spent(e)'
<1>1. program' = program /\ TypeOK /\ TypeOK' /\ Single /\ Shaped /\ Once /\ Apart
  BY DEF Ahead, Inv, Histories, Apart, Skeleton
<1>2. Done(e)' /\ Done(e) /\ e \notin finished /\ e \notin suspended /\ e \notin Bodies
  BY DEF Ahead, Spent
<1>3. CASE \E m : Starts(m)
  <2>1. PICK m : Starts(m)
    BY <1>3
  <2>2. Bodies' = Bodies \cup {m} /\ ~Done(m) /\ finished' = finished /\ suspended' = suspended
    BY <1>1, <2>1, HistoriesStarts, StartsFresh
  <2> QED BY <1>2, <2>2 DEF Spent
<1>4. CASE \/ \E m \in Module : Import(m) \/ requireModule(m)
           \/ Enter \/ Rethrow \/ Depend \/ (EvaluateAsync /\ Pending(Top.m) > 0) \/ Close \/ Conclude
           \/ Gather \/ SkipGathered \/ Completed
  <2>1. suspended' = suspended /\ finished' = finished
    BY <1>4 DEF Import, requireModule, evaluate, Enter, Rethrow, Depend, EvaluateAsync, Close, Conclude,
       Gather, SkipGathered, Completed, bodies
  <2>2. Bodies' = Bodies
    BY <1>1, <1>4, BodiesStay
  <2> QED BY <1>2, <2>1, <2>2 DEF Spent
<1>5. ASSUME NEW m \in Module, Settles(m)
      PROVE  Spent(e)'
  <2>1. /\ m \in suspended /\ suspended' = suspended \ {m}
        /\ finished' = finished \/ finished' = finished \cup {m}
    BY <1>5 DEF Settles, asyncModuleExecutionRejected, asyncModuleExecutionFulfilled
  <2>2. Bodies' = Bodies
    BY <1>1, <1>5, BodiesStay
  <2> QED BY <1>2, <2>1, <2>2 DEF Spent
<1>6. CASE Ends
  <2>1. Bodies' = Bodies \ {Top.m} /\ Top.m \in Bodies
    BY <1>1, <1>6, BodiesEnd
  <2>2. /\ finished' = finished \/ (finished' = finished \cup {Top.m} /\ suspended' = suspended)
        /\ suspended' = suspended \/ (suspended' = suspended \cup {Top.m} /\ finished' = finished)
    BY <1>6 DEF Ends, BodyReturns, BodySuspends, BodyThrows, bodies
  <2> QED BY <1>2, <2>1, <2>2 DEF Spent
<1>7. EvaluateAsync => Pending(Top.m) > 0 \/ Pending(Top.m) = 0
  BY <1>1, RecordsType, EvaluateAsyncFacts, LookedFacts
<1> QED BY <1>3, <1>4, <1>5, <1>6, <1>7 DEF Next, Runtime, Starts

(* Who fails with what its body threw does not complete. *)
LEMMA SpentFails ==
  ASSUME Ahead, Histories, NEW m \in Module, Fails(m)
  PROVE  Spent(m)'
<1>1. Apart
  BY DEF Histories
<1>2. Done(m) /\ m \notin finished
  BY <1>1 DEF Apart, Fails
<1>3. m \notin suspended'
  BY <1>1 DEF Apart, Fails
<1> QED BY <1>2, <1>3 DEF Spent, Fails, Ahead

LEMMA SpentThrown ==
  ASSUME Inv, Inv', Next, Ahead, Histories, Errors, NEW e \in Module, Throws(e)
  PROVE  Spent(e)'
<1>1. program' = program /\ TypeOK /\ Shaped /\ Rooted /\ Apart /\ Single
  BY DEF Ahead, Inv, Histories, Apart, Skeleton
<1>2. CASE BodyThrows /\ e = Top.m
  <2>1. Bodies' = Bodies \ {e} /\ e \in Bodies
    BY <1>1, <1>2, BodiesEnd DEF Ends
  <2> QED BY <1>1, <2>1 DEF Spent, Throws, Apart, Ahead
<1>3. CASE Rethrow /\ e = ErrorOf(Callee)
  <2>1. \E x \in Module : hasError(x) /\ e = records[x].error
    <3>1. PICK c : c = Callee
      OBVIOUS
    <3>2. c \in Module /\ e # None
      BY <1>1, <1>3, <3>1, SeenFacts, EsmAssumption DEF Rethrow
    <3>3. CASE hasError(c)
      BY <1>3, <3>1, <3>2, <3>3 DEF ErrorOf
    <3>4. CASE ~hasError(c)
      <4>1. On("inner") /\ cyclic(c) /\ records[c].status # "evaluating" /\ e = records[records[c].cycleRoot].error
        BY <1>3, <3>1, <3>2, <3>4 DEF ErrorOf
      <4>2. records[c].cycleRoot # None
        BY <1>1, <1>3, <3>1, <3>4, <4>1, SeenFacts DEF Rethrow
      <4>3. records[c].cycleRoot \in Module
        BY <1>1, <3>2, <4>2 DEF TypeOK
      <4> QED BY <3>2, <4>1, <4>3 DEF hasError
    <3> QED BY <3>3, <3>4
  <2>2. Spent(e)
    BY <2>1 DEF Errors, Spent
  <2> QED BY <2>2, SpentKept
<1> QED BY <1>2, <1>3 DEF Throws

(* Who waits, directly or not, for a module reaches it. *)
LEMMA FailsIn ==
  ASSUME Inv, Ordered, NEW m \in Module, NEW x \in Dependents(m), Orderly(x)
  PROVE  m \in Graph(x)
<1>1. TypeOK
  BY DEF Inv
<1>2. PICK S : S = {q \in Module : Orderly(q) => m \in Graph(q)}
  OBVIOUS
<1>3. m \in S
  BY <1>1, <1>2, GraphRules
<1>4. Waiting(S)
  <2> SUFFICES ASSUME NEW q \in S, NEW p \in Parents(q) PROVE p \in S
    BY DEF Waiting
  <2>1. q \in Module /\ p \in Module
    <3>1. q \in Module
      BY <1>2
    <3>2. records[q].asyncParentModules \in Seq(Module)
      BY <1>1, <3>1, RecordsType
    <3> QED BY <3>1, <3>2, ElementOfSeq DEF Parents
  <2>2. ASSUME Orderly(p)
        PROVE  m \in Graph(p)
    <3>1. q \in Graph(p)
      BY <2>1, <2>2 DEF Ordered
    <3>2. Graph(q) \subseteq Graph(p)
      BY <1>1, <2>1, <3>1, GraphRules
    <3>3. Orderly(q)
      BY <2>2, <3>2 DEF Orderly
    <3> QED BY <1>2, <3>2, <3>3
  <2> QED BY <1>2, <2>1, <2>2
<1>5. S \in SUBSET Module
  BY <1>2
<1>6. x \in S
  BY <1>3, <1>4, <1>5 DEF Dependents
<1> QED BY <1>2, <1>6

(* What an evaluate throws, all that fails with it reaches. *)
LEMMA ThrownIn ==
  ASSUME Inv, Errors, RootIn, NEW e \in Module, Throws(e), NEW x \in Failed, Orderly(x)
  PROVE  e \in Graph(x) /\ x \in Module
<1>1. TypeOK /\ Shaped /\ Rooted /\ Trees /\ Skeleton /\ InEvaluation
  BY DEF Inv, Skeleton, Throws
<1>2. PICK b, s, t : b = Base /\ s = Size /\ t = calls[Base].m
  OBVIOUS
<1>3. /\ b \in Evaluations /\ Tree(b) /\ b \in 1 .. s /\ s \in Nat /\ t \in Module /\ Members(b) \subseteq Module
      /\ \A j \in b + 1 .. s : In(j, b)
      /\ \A y \in Members(b) : t \in Members(b) /\ cyclic(y) /\ records[y].status = "evaluating" /\ ~hasError(y)
      /\ DOMAIN calls = 1 .. s
  <2>1. /\ b \in Evaluations /\ Tree(b) /\ b \in 1 .. s /\ s \in Nat /\ \A j \in b + 1 .. s : In(j, b)
    BY <1>1, <1>2, Regions DEF Trees
  <2>2. t \in Module /\ Members(b) \subseteq Module
    BY <1>1, <1>2, <2>1, MembersType
  <2>3. \A y \in Members(b) : t \in Members(b) /\ cyclic(y) /\ records[y].status = "evaluating" /\ ~hasError(y)
    BY <1>1, <1>2, <2>1, <2>2 DEF Tree, FromRoot, Numbered, Rooted, Evaluated
  <2> QED BY <1>1, <1>2, <2>1, <2>2, <2>3, CallsType
<1>4. \/ x \in Members(b)
      \/ ~cyclic(x) /\ x = t
      \/ On("body") /\ ~cyclic(x) /\ x = Top.m
  BY <1>2 DEF Failed
<1>5. Clean(b, x)
  BY DEF Clean
<1>6. CASE Rethrow /\ e = ErrorOf(Callee)
  <2>1. PICK c : c = Callee
    OBVIOUS
  <2>2. c \in Module /\ e # None /\ Looking /\ Seen
    BY <1>1, <1>6, <2>1, SeenFacts, EsmAssumption DEF Rethrow
  <2>3. ~On("body")
    BY <2>2 DEF Looking, On
  <2>4. x \in Module /\ c \in Graph(x)
    <3>1. CASE Top.at = "evaluate"
      <4>1. b = s /\ c = Top.m /\ Top = calls[s]
        BY <1>1, <1>2, <2>1, <2>2, <3>1, Bases, CalleeType
      <4>2. c = t
        BY <1>2, <4>1
      <4>3. hasError(t)
        BY <1>6, <2>1, <2>2, <3>1, <4>2 DEF ErrorOf, On
      <4>4. x = t
        BY <1>3, <1>4, <2>3, <4>3
      <4> QED BY <1>1, <1>3, <4>2, <4>4, GraphRules
    <3>2. CASE Top.at = "inner"
      <4>1. Top.m \in Members(b) /\ Top.m \in Module /\ \A y \in Members(b) : Clean(b, y) => Top.m \in Graph(y)
        BY <1>1, <1>2, <3>2, TopVisit
      <4>2. x \in Members(b) /\ x \in Module
        BY <1>3, <1>4, <2>3, <4>1
      <4>3. c \in Requests(Top.m)
        BY <1>1, <2>1, <2>2, <3>2, CalleeType
      <4> QED BY <1>1, <1>5, <2>2, <4>1, <4>2, <4>3, GraphRules
    <3> QED BY <1>1, <2>2, <3>1, <3>2, CalleeType
  <2>5. Orderly(c)
    <3>1. Graph(c) \subseteq Graph(x)
      BY <1>1, <2>4, GraphRules
    <3> QED BY <3>1 DEF Orderly
  <2>6. e \in Graph(c)
    <3>1. CASE hasError(c)
      <4>1. e = records[c].error
        BY <1>6, <2>1, <3>1 DEF ErrorOf
      <4> QED BY <2>2, <2>5, <3>1, <4>1 DEF Errors
    <3>2. CASE ~hasError(c)
      <4>0. PICK r : r = records[c].cycleRoot
        OBVIOUS
      <4>1. On("inner") /\ cyclic(c) /\ records[c].status # "evaluating" /\ e = records[r].error
        BY <1>6, <2>1, <2>2, <3>2, <4>0 DEF ErrorOf
      <4>2. r # None
        BY <1>1, <2>1, <2>2, <3>2, <4>0, <4>1, SeenFacts
      <4>3. r \in Module /\ r \in Graph(c)
        BY <1>1, <2>2, <2>5, <4>0, <4>2 DEF TypeOK, RootIn
      <4>4. Graph(r) \subseteq Graph(c)
        BY <1>1, <2>2, <4>3, GraphRules
      <4>5. Orderly(r) /\ hasError(r)
        BY <2>2, <2>5, <4>1, <4>4 DEF Orderly, hasError
      <4> QED BY <4>1, <4>3, <4>4, <4>5 DEF Errors
    <3> QED BY <3>1, <3>2
  <2> QED BY <1>1, <2>2, <2>4, <2>6, GraphRules
<1>7. CASE BodyThrows /\ ~Resumed /\ e = Top.m
  <2>1. On("body") /\ s > 1 /\ Top = calls[s] /\ Top.at = "body"
    BY <1>1, <1>2, <1>7, BodyFacts DEF BodyThrows
  <2>2. CASE x = e
    BY <1>1, <2>2, GraphRules
  <2>3. CASE x # e
    <3>1. Follows(s) /\ calls[s - 1].at # "completion"
      <4>1. Follows(s)
        BY <1>3, <2>1 DEF Shaped, ShapedAt, Inv, Skeleton
      <4> QED BY <1>2, <1>7, <2>1, <4>1 DEF Resumed, Size
    <3>2. CASE calls[s - 1].at = "evaluate"
      <4>1. e = calls[s - 1].m /\ ~cyclic(e)
        BY <1>7, <2>1, <3>1, <3>2 DEF Follows
      <4>2. b = s - 1
        <5>1. s - 1 \in Evaluations
          BY <1>3, <2>1, <3>2 DEF Evaluations
        <5>2. \A k \in Evaluations : k <= b
          BY <1>1, <1>2, Bases
        <5>3. b # s
          BY <1>3, <2>1 DEF Evaluations
        <5> QED BY <1>3, <5>1, <5>2, <5>3
      <4>3. e = t
        BY <1>2, <4>1, <4>2
      <4> QED BY <1>3, <1>4, <1>7, <2>3, <4>1, <4>3
    <3>3. CASE calls[s - 1].at = "inner"
      <4>1. PICK p : p = calls[s - 1].m
        OBVIOUS
      <4>2. Visits(s - 1, b)
        <5>1. b # s /\ b # s - 1
          BY <1>3, <2>1, <3>3 DEF Evaluations
        <5>2. s - 1 \in b + 1 .. s
          BY <1>3, <2>1, <5>1
        <5> QED BY <1>3, <3>3, <5>2 DEF Visits
      <4>3. p \in Members(b) /\ p \in Module
        BY <1>3, <4>1, <4>2 DEF Tree, Visited
      <4>4. x \in Members(b) /\ x \in Module
        BY <1>3, <1>4, <1>7, <2>3, <4>3
      <4>5. Index(x) <= Index(p) \/ Nearest(s - 1, b, x)
        <5>1. \A i : Visits(i, b) => i <= s - 1
          <6>1. \A i : Visits(i, b) => i \in 1 .. s /\ i # s
            BY <1>1, <1>2, <2>1, Regions DEF Visits
          <6> QED BY <1>3, <6>1
        <5>2. Index(x) \in Nat /\ Index(p) \in Nat
          BY <1>1, <4>3, <4>4, RecordsType
        <5>3. \A i : Visits(i, b) => ~(s - 1 < i)
          BY <1>1, <1>2, <1>3, <5>1, Regions DEF Visits
        <5> QED BY <4>1, <4>2, <5>2, <5>3 DEF Nearest
      <4>6. p \in Graph(x)
        BY <1>3, <1>5, <4>1, <4>2, <4>4, <4>5 DEF Tree, Reaching
      <4>7. e = p \/ e \in Requests(p)
        <5>1. calls[s - 1] \in Call /\ Len(requested(p)) \in Nat /\ DOMAIN requested(p) = 1 .. Len(requested(p))
          BY <1>1, <1>2, <1>3, <2>1, <4>1, <4>3, LastShape, ProgramType
        <5>2. calls[s - 1].i \in 1 .. Len(requested(p)) + 2
          BY <1>1, <1>2, <1>3, <2>1, <3>3, <4>1, LastShape
        <5> QED BY <1>7, <2>1, <3>1, <3>3, <4>1, <5>1, <5>2 DEF Follows, Requests
      <4> QED BY <1>1, <4>3, <4>4, <4>6, <4>7, GraphRules
    <3> QED BY <3>1, <3>2, <3>3, <2>1 DEF Follows
  <2> QED BY <2>2, <2>3
<1> QED BY <1>6, <1>7 DEF Throws

(* A module fails with what the body of a module of its graph threw. *)
LEMMA ErrorsStep ==
  ASSUME Inv, Inv', Next, Ahead, Histories, Ordered, RootIn, Errors
  PROVE  Errors'
<1>1. TypeOK /\ TypeOK' /\ Shaped /\ Rooted /\ Trees /\ Skeleton /\ program' = program /\ tangled \subseteq tangled'
  BY DEF Inv, Skeleton, Ahead
<1>2. \A x \in Module : (Orderly(x)' => Orderly(x)) /\ Graph(x)' = Graph(x)
  BY <1>1, OrderlyRules, ProgramKept
<1>3. ASSUME NEW x \in Module, NEW e, e = records'[x].error, e # None
      PROVE  Spent(e)' /\ (Orderly(x) => e \in Graph(x))
  <2>1. e \in Module
    BY <1>1, <1>3 DEF TypeOK
  <2>2. CASE records'[x].error = records[x].error
    <3>1. Spent(e) /\ (Orderly(x) => e \in Graph(x))
      BY <1>3, <2>2 DEF Errors, Spent, hasError
    <3> QED BY <2>1, <3>1, SpentKept
  <2>3. CASE records'[x].error # records[x].error
    <3>1. PICK m \in Module : Throws(m) \/ Fails(m)
      BY <1>1, <2>3, Kinds, EnterFacts, EnterSyntheticFacts, DependFacts, EvaluateAsyncFacts, ClosingFacts,
         FulfilledFacts
         DEF Still, SameState, Closes, Succeeds, CountsFor
    <3>2. CASE Throws(m)
      <4>1. x \in Failed /\ e = m
        BY <1>1, <1>3, <2>3, <3>2, UnwindFacts DEF Throws
      <4> QED BY <3>2, <4>1, SpentThrown, ThrownIn
    <3>3. CASE Fails(m)
      <4>1. x \in Dependents(m) /\ e = m
        BY <1>1, <1>3, <2>3, <3>3, RejectedFacts DEF Fails
      <4> QED BY <3>3, <4>1, SpentFails, FailsIn
    <3> QED BY <3>1, <3>2, <3>3
  <2> QED BY <2>2, <2>3
<1> QED BY <1>2, <1>3 DEF Errors, Spent, Done, hasError

----------------------------------------------------------------------------
(* Which steps begin and end an evaluate, and which settle a capability. *)
Spares(q) == /\ calls' \in Seq(Call) /\ Keeps(q) /\ (Size' = q \/ (Size' = q + 1 /\ calls'[q + 1].at # "evaluate"))
             /\ \A j \in q + 1 .. Size : calls[j].at # "evaluate"
SameEvaluations == Evaluations' = Evaluations /\ \A k \in Evaluations : calls'[k].m = calls[k].m

LEMMA SparesRule ==
  ASSUME TypeOK, NEW q, Spares(q)
  PROVE  SameEvaluations
<1>1. /\ Size \in Nat /\ Size' \in Nat /\ DOMAIN calls = 1 .. Size /\ DOMAIN calls' = 1 .. Size' /\ q \in Nat
         /\ q <= Size /\ q <= Size'
      /\ \A k \in 1 .. q : (k \in Evaluations' <=> k \in Evaluations) /\ calls'[k].m = calls[k].m
  BY Prefix DEF Spares, Keeps
<1>2. \A k \in Evaluations : k \in 1 .. q
  BY <1>1 DEF Evaluations, Spares
<1>3. \A k \in Evaluations' : k \in 1 .. q
  BY <1>1 DEF Evaluations, Spares
<1> QED BY <1>1, <1>2, <1>3 DEF SameEvaluations

LEMMA SparesRules ==
  ASSUME TypeOK, Typed
  PROVE  /\ Shrinks /\ calls[Size].at # "evaluate" => \E q : Spares(q)
         /\ \A f : Turns(f) /\ f.at = Top.at /\ f.m = Top.m => \E q : Spares(q)
         /\ \A f, g : Runs(f, g) /\ f.at = Top.at /\ f.m = Top.m /\ g.at = "body" => \E q : Spares(q)
         /\ \A f : Grows(f) /\ f.at # "evaluate" => \E q : Spares(q)
<1>1. Size \in Nat /\ calls' \in Seq(Call)
  BY CallsType DEF Typed
<1>2. Shrinks /\ calls[Size].at # "evaluate" => Spares(Size - 1)
  BY <1>1, KeepsRules DEF Spares
<1>3. \A f : Turns(f) /\ f.at = Top.at /\ f.m = Top.m => Spares(Size)
  BY <1>1, KeepsRules DEF Spares
<1>4. \A f, g : Runs(f, g) /\ f.at = Top.at /\ f.m = Top.m /\ g.at = "body" => Spares(Size)
  BY <1>1, KeepsRules DEF Spares, Runs
<1>5. \A f : Grows(f) /\ f.at # "evaluate" => Spares(Size)
  BY <1>1, KeepsRules DEF Spares, Grows
<1> QED BY <1>2, <1>3, <1>4, <1>5

LEMMA SparesStep ==
  ASSUME Inv, Inv', Next
  PROVE  \/ (\E q : Spares(q)) /\ (SameCaps \/ \E m \in Module : Succeeds(m) \/ Fails(m))
         \/ (\E m \in Module : Import(m) \/ requireModule(m)) \/ Conclude \/ \E e \in Module : Throws(e)
<1>1. TypeOK /\ Shaped /\ Rooted /\ Trees /\ Skeleton /\ program' = program /\ Size \in Nat
  BY ProgramStays, CallsType DEF Inv, Skeleton
<1>3. CASE Enter
  <2>1. calls'[Size + 1].at = "inner" /\ Size' = Size + 1 /\ Typed /\ SameCaps
    BY <1>1, <1>3, EnterFacts, FrameType, CalleeType
  <2>2. Spares(Size)
    BY <1>1, <1>3, <2>1, ShapedEnter DEF Typed, Spares
  <2> QED BY <2>1, <2>2
<1>4. CASE EnterSynthetic
  <2>1. Typed /\ Grows(Frame("body", Callee)) /\ Callee \in Module /\ SameCaps
    BY <1>1, <1>4, EnterSyntheticFacts, CalleeType
  <2>2. Frame("body", Callee).at = "body"
    BY <2>1, FrameType
  <2> QED BY <1>1, <2>1, <2>2, SparesRules
<1>5. CASE Rethrow
  <2>1. ErrorOf(Callee) \in Module /\ InEvaluation
    BY <1>1, <1>5, RethrowFacts
  <2> QED BY <1>5, <2>1 DEF Throws, Rethrow, bodies
<1>6. CASE Ends
  <2>0. On("body") /\ Top.at = "body" /\ Top = calls[Size]
    BY <1>1, <1>6, BodyFacts DEF Ends, BodyReturns, BodySuspends, BodyThrows
  <2>1. Typed
    BY <1>1, <1>6, ReturnFacts, SuspendFacts, ThrowFacts DEF Ends
  <2>2. CASE BodyThrows /\ ~Resumed
    BY <1>1, <2>2, ThrowFacts DEF Throws, BodyThrows, bodies
  <2>3. CASE ~(BodyThrows /\ ~Resumed)
    <3>1. Shrinks
      BY <1>1, <1>6, <2>3, ReturnFacts, SuspendFacts, ThrowFacts DEF Ends
    <3>2. CASE records' = records
      BY <1>1, <2>0, <2>1, <3>1, <3>2, SparesRules, SameRecords
    <3>3. CASE records' # records
      <4>1. Resumed /\ ~BodySuspends
        BY <1>1, <1>6, <2>3, <3>3, ReturnFacts, SuspendFacts DEF Ends
      <4>2. records[Top.m].status = "evaluating-async" /\ Pending(Top.m) = 0 /\ Top.m \in Bodies
        BY <1>1, <2>0, <4>1, StackSmall, BodyFacts DEF Marks, Inv, Counts
      <4>3. Skeleton'
        BY DEF Inv
      <4>4. Quiet /\ Bodies' = {}
        BY <1>1, <2>0, <2>1, <3>1, <4>1, <4>3, ResumedEnds DEF Typed
      <4>5. Top.m \in Module /\ (Succeeds(Top.m) \/ Fails(Top.m))
        BY <1>1, <1>6, <2>0, <4>1, <4>2, <4>4, BodyFacts DEF Ends, BodyReturns, BodyThrows, Succeeds, Fails,
           bodies
      <4> QED BY <1>1, <2>0, <2>1, <3>1, <4>5, SparesRules
    <3> QED BY <3>2, <3>3
  <2> QED BY <2>2, <2>3
<1>7. CASE Close
  <2>1. Top.m \in Members(Base) /\ Top = calls[Size]
    BY <1>1, <1>7, CloseTop
  <2>2. Keeps(Size - 1) /\ Typed /\ Size' = Size - 1 /\ SameCaps /\ Top.at = "inner"
    BY <1>1, <1>7, <2>1, ShapedClose, CloseFacts DEF Shrinks
  <2>3. Spares(Size - 1)
    BY <1>1, <2>1, <2>2 DEF Typed, Spares
  <2> QED BY <2>2, <2>3
<1>9. CASE Depend
  BY <1>1, <1>9, DependFacts, CalleeType, StepType, SparesRules
<1>10. CASE Execute \/ EvaluateAsync
  <2>1. Top.m \in Module /\ Frame("body", Top.m).at = "body" /\ Typed /\ SameCaps /\ Top \in Call
    BY <1>1, <1>10, LookedFacts, ExecuteFacts, EvaluateAsyncFacts, FrameType
  <2> QED BY <1>1, <1>10, <2>1, LookedFacts, ExecuteFacts, EvaluateAsyncFacts, StepType, SparesRules
<1>11. CASE Gather
  <2>1. On("completion") /\ Top \in Call /\ Top.todo # <<>> /\ Todo = Top.todo /\ Head(Top.todo) \in Module
        /\ Pending(Head(Top.todo)) > 0
        /\ Top.at = "completion" /\ Top = calls[Size]
    BY <1>1, <1>11, CompletionFacts, GatherHead DEF Gather, Inv
  <2>2. Typed /\ (records' = records \/ SameCaps)
    BY <1>1, <1>11, <2>1, GatherFacts
  <2>3. Shrinks \/ \E f \in Call : f.at = Top.at /\ f.m = Top.m /\ Turns(f)
    BY <1>1, <1>11, <2>1, GatherFacts DEF Turns, Call
  <2> QED BY <1>1, <2>1, <2>2, <2>3, SparesRules, SameRecords
<1>12. CASE ExecuteGathered \/ SkipGathered \/ Completed
  <2>1. Top.m \in Module /\ Top.at = "completion" /\ Left.at = "completion" /\ Left.m = Top.m /\ Typed
        /\ records' = records /\ Top = calls[Size]
    BY <1>1, <1>12, RunGatheredFacts, SkipFacts, CompletionFacts, CompletedFacts DEF Left
  <2>2. First \in Module => Frame("body", First).at = "body"
    BY FrameType
  <2>3. Shrinks \/ Turns(Left) \/ \E g : Runs(Left, g) /\ g.at = "body"
    BY <1>1, <1>12, <2>2, RunGatheredFacts, SkipFacts, CompletedFacts DEF Turns, Runs
  <2> QED BY <1>1, <2>1, <2>3, SparesRules, SameRecords
<1>13. ASSUME NEW m \in Module, Settles(m)
       PROVE  (\E q : Spares(q)) /\ (SameCaps \/ \E n \in Module : Succeeds(n) \/ Fails(n))
  <2>1. Size = 0
    BY <1>1, <1>13, CallsType DEF Settles, asyncModuleExecutionRejected, asyncModuleExecutionFulfilled
  <2>2. calls' = calls \/ (Typed /\ Size' = 1 /\ calls'[1].at = "completion")
    BY <1>1, <1>13, SettledFacts DEF Settles, asyncModuleExecutionRejected
  <2>3. calls' \in Seq(Call) /\ (Size' = 0 \/ (Size' = 1 /\ calls'[1].at = "completion"))
    BY <1>1, <2>1, <2>2, CallsType DEF Typed, Size
  <2>4. Keeps(0)
    BY <2>1, <2>3 DEF Keeps
  <2>5. 0 + 1 = 1
    OBVIOUS
  <2>6. Spares(0)
    BY <2>1, <2>3, <2>4, <2>5 DEF Spares
  <2>7. records' = records \/ Succeeds(m) \/ Fails(m)
    <3>1. CASE asyncModuleExecutionFulfilled(m) /\ Evaluated(m)
      BY <3>1 DEF asyncModuleExecutionFulfilled
    <3>2. CASE asyncModuleExecutionFulfilled(m) /\ ~Evaluated(m)
      <4>1. records' = Fulfilled(records, m) /\ records'[m].status = "evaluated" /\ records[m].status # "evaluated"
        BY <1>1, <3>2, SettledFacts, FulfilledFacts DEF Evaluated
      <4> QED BY <1>13, <4>1, KindsSettle DEF Still, SameState
    <3>3. CASE asyncModuleExecutionRejected(m)
      <4>1. CASE Evaluated(m)
        <5>1. records' = Rejected(m) /\ Dependents(m) = {}
          BY <3>3, <4>1 DEF asyncModuleExecutionRejected, Dependents
        <5>2. records' = [d \in Module |-> records[d]]
          BY <5>1 DEF Rejected
        <5>3. records \in [Module -> RecordType]
          BY <1>1, RecordsType
        <5> QED BY <5>2, <5>3
      <4>2. CASE ~Evaluated(m)
        <5>1. m \in Dependents(m)
          BY <4>2, <1>13 DEF Dependents
        <5>2. records'[m].status = "evaluated" /\ records[m].status # "evaluated" /\ records'[m].error = m
          BY <1>1, <3>3, <4>2, <5>1, RejectedFacts DEF asyncModuleExecutionRejected, Evaluated
        <5> QED BY <1>13, <5>2, KindsSettle DEF Still, SameState
      <4> QED BY <4>1, <4>2
    <3> QED BY <1>13, <3>1, <3>2, <3>3 DEF Settles
  <2> QED BY <1>1, <1>13, <2>6, <2>7, SameRecords
<1> QED BY <1>3, <1>4, <1>5, <1>6, <1>7, <1>9, <1>10, <1>11, <1>12, <1>13 DEF Next, Runtime

----------------------------------------------------------------------------
(* An evaluate fails with its module. *)
LEMMA ThrownRoot ==
  ASSUME Inv, Inv', Ahead, NEW e \in Module, Throws(e), NEW b, b = Base
  PROVE  b \in Evaluations /\ \E r \in Module : r = calls[b].m /\ hasError(r)'
<1>1. TypeOK /\ Shaped /\ Rooted /\ Trees /\ Skeleton /\ InEvaluation /\ Unwind(e) /\ e # None
  BY EsmAssumption DEF Inv, Skeleton, Throws
<1>2. b \in Evaluations /\ b \in 1 .. Size /\ Tree(b) /\ calls[b].m \in Module /\ Size \in Nat
  BY <1>1, Regions, CallsType, LastShape DEF Trees
<1>3. PICK r \in Module : r = calls[b].m
  BY <1>2
<1>4. CASE r \in Failed
  <2>1. records'[r].error = e
    BY <1>1, <1>3, <1>4, UnwindFacts
  <2> QED BY <1>1, <1>2, <1>3, <2>1 DEF hasError
<1>5. CASE r \notin Failed
  <2>1. cyclic(r) /\ r \notin Members(b)
    BY <1>3, <1>5 DEF Failed
  <2>2. Members(b) = {}
    BY <1>2, <1>3, <2>1 DEF Tree, FromRoot
  <2>3. \A j : ~Visits(j, b)
    BY <1>2, <2>2 DEF Tree, Visited
  <2>4. \A j \in b + 1 .. Size - 1 : FALSE
    <3> SUFFICES ASSUME NEW j \in b + 1 .. Size - 1 PROVE FALSE
      OBVIOUS
    <3>1. calls[j].at = "inner" /\ In(j, b)
      BY <1>1, <1>2, BodyTop, Regions
    <3> QED BY <2>3, <3>1 DEF Visits
  <2>5. CASE Size = b
    <3>1. Top.at = "evaluate" /\ Top = calls[Size] /\ ~On("inner") /\ ~On("body")
      BY <1>1, <1>2, <2>5, CallsType DEF Evaluations, On, InEvaluation
    <3>2. Rethrow /\ e = ErrorOf(Callee)
      BY <3>1 DEF Throws, BodyThrows
    <3>3. Callee = r
      BY <1>3, <2>5, <3>1 DEF Callee
    <3>4. hasError(r)
      BY <1>1, <3>1, <3>2, <3>3 DEF ErrorOf
    <3> QED BY <1>2, <1>3, <3>4 DEF Ahead
  <2>6. CASE Size # b
    <3>1. Size = b + 1 /\ Size - 1 = b /\ In(Size, b) /\ calls[Size - 1].at = "evaluate" /\ Top = calls[Size]
      BY <1>1, <1>2, <2>4, <2>6, Regions, CallsType DEF Evaluations, InEvaluation
    <3>2. Top.at # "inner" /\ Top.at # "evaluate" /\ Top.at # "completion"
          /\ Top.at \in {"evaluate", "inner", "body", "completion"}
      <4>1. Top \in Call
        BY <1>1, CallsType DEF InEvaluation
      <4>2. Top.at # "evaluate"
        BY <1>1, <2>6, Bases
      <4> QED BY <1>1, <2>3, <3>1, <4>1, <4>2 DEF Visits, Call, InEvaluation
    <3>3. Follows(Size)
      BY <1>1, <1>2, <3>1, CallsType DEF Shaped, ShapedAt
    <3>4. Top.m = r /\ ~cyclic(Top.m)
      BY <1>3, <3>1, <3>2, <3>3 DEF Follows
    <3> QED BY <2>1, <3>4
  <2> QED BY <2>5, <2>6
<1> QED BY <1>4, <1>5

(* An orderly evaluate ends when its module has been evaluated. *)
LEMMA ConcludeDone ==
  ASSUME Inv, Conclude, Orderly(Top.m)
  PROVE  /\ Top.m \in Module /\ Size \in Evaluations /\ Top = calls[Size] /\ Size \in Nat
         /\ ~hasError(Top.m) /\ Top.m \in Graph(Top.m)
         /\ records[Top.m].status \notin {"linked", "evaluating"}
         /\ ~cyclic(Top.m) => Evaluated(Top.m) /\ Top.m \notin Bodies
<1>1. TypeOK /\ Shaped /\ Rooted /\ Trees /\ Tangles
  BY DEF Inv, Skeleton
<1>2. /\ On("evaluate") /\ Seen /\ ErrorOf(Top.m) = None /\ Top.m \in Module /\ Callee = Top.m
  BY <1>1, ConcludeFacts
<1>3. Size \in Evaluations /\ Members(Size) = {} /\ Top = calls[Size] /\ Size \in Nat /\ DOMAIN calls = 1 .. Size
  BY <1>1, <1>2, NoneLeft, CallsType DEF On
<1>4. PICK x \in Module : x = Top.m
  BY <1>2
<1>5. x \in Graph(x) /\ x \notin tangled
  BY <1>1, <1>4, GraphRules DEF Orderly
<1>6. ~hasError(x) /\ (cyclic(x) => records[x].status \in {"evaluating", "evaluating-async", "evaluated"})
      /\ (~cyclic(x) => Evaluated(x))
  BY <1>1, <1>2, <1>4, SeenFacts
<1>7. records[x].status # "evaluating"
  <2> SUFFICES ASSUME records[x].status = "evaluating" PROVE FALSE
    OBVIOUS
  <2>1. records[x].cycleRoot = None
    BY <1>1 DEF Rooted
  <2>2. PICK k \in Evaluations : x \in Members(k)
    BY <1>1 DEF Trees
  <2>3. k < Size
    BY <1>3, <2>2 DEF Evaluations
  <2> QED BY <1>1, <1>3, <1>4, <1>5, <2>1, <2>2, <2>3 DEF Tangles, Unsettled
<1>8. ~cyclic(x) => x \notin Bodies
  <2> SUFFICES ASSUME ~cyclic(x), x \in Bodies PROVE FALSE
    OBVIOUS
  <2>1. PICK j \in 1 .. Size : calls[j].at = "body" /\ calls[j].m = x
    BY DEF Bodies
  <2>2. j \in 1 .. Size - 1
    BY <1>2, <1>3, <2>1 DEF On
  <2> QED BY <1>1, <1>3, <1>4, <1>5, <2>1, <2>2 DEF Tangles, Unsettled
<1> QED BY <1>2, <1>3, <1>4, <1>5, <1>6, <1>7, <1>8 DEF Evaluated

(* The evaluates that a step leaves. *)
LEMMA FewerEvaluations ==
  ASSUME TypeOK, calls' \in Seq(Call), NEW q, Keeps(q)
  PROVE  /\ Size' = q => Evaluations' \subseteq Evaluations
         /\ \A k \in Evaluations : k <= q => k \in Evaluations' /\ calls'[k].m = calls[k].m
         /\ \A k \in Evaluations' : k <= q => k \in Evaluations /\ calls'[k].m = calls[k].m
<1>1. /\ Size \in Nat /\ Size' \in Nat /\ DOMAIN calls = 1 .. Size /\ DOMAIN calls' = 1 .. Size' /\ q \in Nat
         /\ q <= Size /\ q <= Size'
      /\ \A k \in 1 .. q : (k \in Evaluations' <=> k \in Evaluations) /\ calls'[k].m = calls[k].m
  BY Prefix DEF Keeps
<1>2. \A k \in Evaluations \cup Evaluations' : k \in Nat /\ k >= 1
  BY <1>1 DEF Evaluations
<1>3. \A k \in Evaluations' : k <= Size'
  BY <1>1 DEF Evaluations
<1> QED BY <1>1, <1>2, <1>3

LEMMA NextDomain ==
  ASSUME Typed
  PROVE  DOMAIN calls' = 1 .. Size'
BY DEF Typed, Size

\* What a step that takes away the evaluate at b leaves.
Without(b) == b \in Evaluations /\ \A k \in Evaluations : k \in Nat
  /\ (k # b => k \in Evaluations' /\ calls'[k].m = calls[k].m)
Fewer == \A k \in Evaluations' : k \in Evaluations /\ calls'[k].m = calls[k].m

LEMMA ConcludeWithout ==
  ASSUME Inv, Conclude
  PROVE  Without(Size) /\ Fewer /\ Top.m = calls[Size].m
<1>1. TypeOK /\ Shaped /\ Trees
  BY DEF Inv, Skeleton
<1>2. On("evaluate") /\ Shrinks /\ Typed
  BY <1>1, ConcludeFacts
<1>3. Size \in Evaluations /\ Top = calls[Size] /\ Size \in Nat /\ DOMAIN calls = 1 .. Size
  BY <1>1, <1>2, NoneLeft, CallsType DEF On
<1>4. Keeps(Size - 1) /\ Size' = Size - 1 /\ calls' \in Seq(Call) /\ DOMAIN calls' = 1 .. Size'
  BY <1>1, <1>2, KeepsRules, NextDomain DEF Typed
<1>5. /\ \A k \in Evaluations : k <= Size - 1 => k \in Evaluations' /\ calls'[k].m = calls[k].m
      /\ \A k \in Evaluations' : k <= Size - 1 => k \in Evaluations /\ calls'[k].m = calls[k].m
  BY <1>1, <1>4, FewerEvaluations
<1>6. (\A k \in Evaluations : k \in 1 .. Size) /\ \A k \in Evaluations' : k \in 1 .. Size - 1
  BY <1>3, <1>4 DEF Evaluations
<1>7. Without(Size) /\ Fewer
  BY <1>3, <1>5, <1>6 DEF Without, Fewer
<1> QED BY <1>3, <1>7

LEMMA ThrowsWithout ==
  ASSUME Inv, NEW e \in Module, Throws(e), NEW b, b = Base
  PROVE  Without(b) /\ Fewer
<1>1. TypeOK /\ Shaped /\ Trees /\ InEvaluation
  BY DEF Inv, Skeleton, Throws
<1>2. Cuts(b) /\ Typed
  BY <1>1, UnwindFacts DEF Throws
<1>3. b \in Evaluations /\ b \in 1 .. Size /\ (\A k \in Evaluations : k <= b) /\ Size \in Nat
      /\ DOMAIN calls = 1 .. Size
  BY <1>1, Regions, CallsType
<1>4. Keeps(b - 1) /\ Size' = b - 1 /\ calls' \in Seq(Call) /\ DOMAIN calls' = 1 .. Size'
  BY <1>1, <1>2, KeepsRules, NextDomain DEF Typed
<1>5. /\ \A k \in Evaluations : k <= b - 1 => k \in Evaluations' /\ calls'[k].m = calls[k].m
      /\ \A k \in Evaluations' : k <= b - 1 => k \in Evaluations /\ calls'[k].m = calls[k].m
  BY <1>1, <1>4, FewerEvaluations
<1>6. (\A k \in Evaluations : k \in 1 .. Size) /\ \A k \in Evaluations' : k \in 1 .. b - 1
  BY <1>3, <1>4 DEF Evaluations
<1> QED BY <1>3, <1>5, <1>6 DEF Without, Fewer

\* An evaluate of x begins.
Begins(x) ==
  /\ \A y \in Module : Cap(y)' = IF y = x THEN "pending" ELSE Cap(y)
  /\ SameState /\ x \in Module /\ Size + 1 \in Evaluations' /\ calls'[Size + 1].m = x
  /\ \A k \in Evaluations : k \in Evaluations' /\ calls'[k].m = calls[k].m
  /\ \A k \in Evaluations' : calls'[k].m = x \/ (k \in Evaluations /\ calls'[k].m = calls[k].m)
  /\ records[x].cycleRoot # None => records[x].cycleRoot = x

LEMMA BeginsFacts ==
  ASSUME Inv, NEW m \in Module, Import(m) \/ requireModule(m)
  PROVE  \E x \in Module : Begins(x)
<1>1. TypeOK /\ Shaped /\ Rooted /\ Trees /\ evaluate(m)
  BY DEF Inv, Skeleton, Import, requireModule
<1>2. PICK x \in Module : x = Root(m)
  BY <1>1, evaluateFacts
<1>3. /\ Grows(Frame("evaluate", x)) /\ Typed /\ SameState /\ Size \in Nat /\ DOMAIN calls = 1 .. Size
      /\ \A y \in Module : Cap(y)' = IF y = x THEN "pending" ELSE Cap(y)
  BY <1>1, <1>2, evaluateFacts, CallsType
<1>4. Keeps(Size) /\ Size' = Size + 1 /\ calls' \in Seq(Call) /\ DOMAIN calls' = 1 .. Size'
  BY <1>1, <1>3, KeepsRules, NextDomain DEF Typed
<1>5. calls'[Size + 1].at = "evaluate" /\ calls'[Size + 1].m = x
  BY <1>3, <1>2, FrameType DEF Grows
<1>6. /\ \A k \in Evaluations : k <= Size => k \in Evaluations' /\ calls'[k].m = calls[k].m
      /\ \A k \in Evaluations' : k <= Size => k \in Evaluations /\ calls'[k].m = calls[k].m
  BY <1>1, <1>4, FewerEvaluations
<1>7. (\A k \in Evaluations : k \in 1 .. Size) /\ (\A k \in Evaluations' : k \in 1 .. Size + 1)
      /\ Size + 1 \in Evaluations'
  BY <1>3, <1>4, <1>5 DEF Evaluations
<1>8. records[x].cycleRoot # None => records[x].cycleRoot = x
  <2>1. CASE records[m].cycleRoot # None
    BY <1>1, <1>2, <2>1 DEF Rooted, Root
  <2>2. CASE records[m].cycleRoot = None
    BY <1>2, <2>2 DEF Root
  <2> QED BY <2>1, <2>2
<1>9. \A k \in Evaluations' : k <= Size \/ k = Size + 1
  BY <1>3, <1>7
<1>10. \A k \in Evaluations : k <= Size
  BY <1>3, <1>7
<1> QED BY <1>3, <1>5, <1>6, <1>7, <1>8, <1>9, <1>10 DEF Begins

----------------------------------------------------------------------------
(* What a step does to the capabilities and to the evaluates. *)
CapKinds ==
  \/ SameEvaluations /\ (SameCaps \/ \E m \in Module : Succeeds(m) \/ Fails(m))
  \/ (\E x \in Module : Begins(x)) \/ Conclude \/ \E e \in Module : Throws(e)

LEMMA CapKindsHold ==
  ASSUME Inv, Inv', Next
  PROVE  CapKinds
<1>1. TypeOK
  BY DEF Inv
<1> QED BY <1>1, SparesStep, SparesRule, BeginsFacts DEF CapKinds

(* What has a capability had it, or begins to be evaluated. *)
LEMMA CapsBefore ==
  ASSUME Inv, Inv', Next, NEW x \in Module
  PROVE  /\ Cap(x)' # "none" => Cap(x) # "none" \/ Begins(x) \/ (Conclude /\ x = Top.m) \/ \E e \in Module : Throws(e) /\ x = calls[Base].m
         /\ Cap(x)' = "fulfilled" => Cap(x) = "fulfilled" \/ Succeeds(x) \/ (Conclude /\ x = Top.m /\ ~(cyclic(x) /\ records[x].asyncEvaluation))
         /\ Cap(x)' = "rejected" => Cap(x) = "rejected" \/ hasError(x)' \/ \E e \in Module : Throws(e)
            /\ x = calls[Base].m
<1>1. TypeOK /\ Shaped /\ Rooted /\ None \notin Module
  BY EsmAssumption DEF Inv, Skeleton
<1>2. CASE SameCaps
  BY <1>2 DEF SameCaps
<1>3. ASSUME NEW m \in Module, Succeeds(m)
      PROVE  /\ Cap(x)' # "none" => Cap(x) # "none"
             /\ Cap(x)' = "fulfilled" => Cap(x) = "fulfilled" \/ Succeeds(x)
             /\ Cap(x)' = "rejected" => Cap(x) = "rejected"
  <2>1. records' = Fulfilled(records, m)
    BY <1>3 DEF Succeeds
  <2>2. Cap(x)' = IF x = m /\ Cap(x) = "pending" THEN "fulfilled" ELSE Cap(x)
    BY <1>1, <2>1, FulfilledFacts
  <2> QED BY <1>3, <2>2
<1>4. ASSUME NEW m \in Module, Fails(m)
      PROVE  /\ Cap(x)' # "none" => Cap(x) # "none"
             /\ Cap(x)' = "fulfilled" => Cap(x) = "fulfilled"
             /\ Cap(x)' = "rejected" => Cap(x) = "rejected" \/ hasError(x)'
  <2>1. records' = Rejected(m)
    BY <1>4 DEF Fails
  <2>2. /\ Cap(x)' = IF x \in Dependents(m) /\ Cap(x) = "pending" THEN "rejected" ELSE Cap(x)
        /\ records'[x].error = IF x \in Dependents(m) THEN m ELSE records[x].error
    BY <1>1, <2>1, RejectedFacts
  <2>3. x \in Dependents(m) => hasError(x)'
    BY <1>1, <2>2 DEF hasError
  <2> QED BY <2>2, <2>3
<1>5. ASSUME NEW y \in Module, Begins(y)
      PROVE  /\ Cap(x)' # "none" => Cap(x) # "none" \/ Begins(x)
             /\ Cap(x)' = "fulfilled" => Cap(x) = "fulfilled"
             /\ Cap(x)' = "rejected" => Cap(x) = "rejected"
  <2>1. Cap(x)' = IF x = y THEN "pending" ELSE Cap(x)
    BY <1>5 DEF Begins
  <2> QED BY <1>5, <2>1
<1>6. CASE Conclude
  <2>1. Cap(x)' = IF x = Top.m /\ ~(cyclic(x) /\ records[x].asyncEvaluation) THEN "fulfilled" ELSE Cap(x)
    BY <1>1, <1>6, ConcludeFacts
  <2>2. Cap(x)' = "fulfilled" => Cap(x) = "fulfilled" \/ (x = Top.m /\ ~(cyclic(x) /\ records[x].asyncEvaluation))
    BY <2>1
  <2>3. Cap(x)' = "rejected" => Cap(x) = "rejected"
    BY <2>1
  <2>4. Cap(x)' # "none" => Cap(x) # "none" \/ x = Top.m
    BY <2>1
  <2> QED BY <1>6, <2>2, <2>3, <2>4
<1>7. ASSUME NEW e \in Module, Throws(e)
      PROVE  /\ Cap(x)' # "none" => Cap(x) # "none" \/ x = calls[Base].m
             /\ Cap(x)' = "fulfilled" => Cap(x) = "fulfilled"
             /\ Cap(x)' = "rejected" => Cap(x) = "rejected" \/ x = calls[Base].m
  <2>1. Cap(x)' = IF x = calls[Base].m THEN "rejected" ELSE Cap(x)
    BY <1>1, <1>7, UnwindFacts DEF Throws
  <2> QED BY <2>1
<1>8. CapKinds
  BY CapKindsHold
<1> QED BY <1>2, <1>3, <1>4, <1>5, <1>6, <1>7, <1>8 DEF CapKinds

----------------------------------------------------------------------------
(* Every step keeps what is known of the capabilities. *)
LEMMA CapsHad ==
  ASSUME Inv, Inv', Next, Caps, NEW x \in Module, Cap(x)' # "none"
  PROVE  Cap(x) # "none" \/ Begins(x)
<1>1. TypeOK /\ Shaped /\ Trees
  BY DEF Inv, Skeleton
<1>2. Conclude => Size \in Evaluations /\ Top = calls[Size]
  BY <1>1, NoneLeft, ConcludeFacts, CallsType DEF On
<1>3. \A e \in Module : Throws(e) => Base \in Evaluations
  BY <1>1, Regions DEF Throws
<1>4. \A k \in Evaluations : Cap(calls[k].m) # "none"
  BY DEF Caps
<1> QED BY <1>2, <1>3, <1>4, CapsBefore

LEMMA CapsRejected ==
  ASSUME Inv, Inv', Next, Ahead, Caps, NEW x \in Module, Cap(x)' = "rejected"
  PROVE  hasError(x)'
<1>1. Cap(x) = "rejected" => hasError(x)'
  BY DEF Caps, Ahead
<1>2. ASSUME NEW e \in Module, Throws(e), x = calls[Base].m
      PROVE  hasError(x)'
  BY <1>2, ThrownRoot
<1> QED BY <1>1, <1>2, CapsBefore

LEMMA CapsFrames ==
  ASSUME Inv, Inv', Next, Ahead, Caps
  PROVE  \A k \in Evaluations' : records'[calls'[k].m].topLevelCapability # "none"
<1>1. \A y \in Module : Cap(y) # "none" => Cap(y)' # "none"
  BY DEF Ahead
<1>2. TypeOK /\ \A k \in Evaluations : calls[k].m \in Module /\ Cap(calls[k].m) # "none"
  BY CallsType, CallFields DEF Inv, Caps, Evaluations
<1> SUFFICES ASSUME NEW k \in Evaluations' PROVE \E y \in Module : y = calls'[k].m /\ Cap(y)' # "none"
  BY DEF Cap
<1>3. CASE k \in Evaluations /\ calls'[k].m = calls[k].m
  BY <1>1, <1>2, <1>3
<1>4. ASSUME NEW x \in Module, Begins(x)
      PROVE  \E y \in Module : y = calls'[k].m /\ Cap(y)' # "none"
  <2>1. Cap(x)' = "pending"
    BY <1>4 DEF Begins
  <2>2. calls'[k].m = x \/ (k \in Evaluations /\ calls'[k].m = calls[k].m)
    BY <1>4 DEF Begins
  <2> QED BY <1>3, <2>1, <2>2
<1> QED BY <1>3, <1>4, CapKindsHold, ConcludeWithout, ThrowsWithout DEF CapKinds, SameEvaluations, Fewer

(* Who has begun to be evaluated is on the stack, or has been evaluated. *)
LEMMA CapsUnder ==
  ASSUME Inv, Inv', Next, Ahead, Caps, NEW x \in Module, Orderly(x)', Cap(x)' # "none",
         records'[x].status \in {"linked", "evaluating"}
  PROVE  \E k \in Evaluations' : calls'[k].m = x
<1>1. TypeOK /\ Rooted' /\ Orderly(x) /\ records[x].status \in {"linked", "evaluating"}
  BY OrderlyRules DEF Inv, Skeleton, Ahead
<1>2. CASE Begins(x)
  BY <1>2 DEF Begins
<1>3. CASE Cap(x) # "none"
  <2>1. PICK k \in Evaluations : calls[k].m = x
    BY <1>1, <1>3 DEF Caps
  <2>2. CASE SameEvaluations
    BY <2>1, <2>2 DEF SameEvaluations
  <2>3. CASE \E y \in Module : Begins(y)
    BY <2>1, <2>3 DEF Begins
  <2>4. CASE Conclude
    <3>1. SameState
      BY <2>4, ConcludeFacts DEF Inv, Skeleton
    <3>2. Without(Size) /\ Top.m = calls[Size].m
      BY <2>4, ConcludeWithout
    <3>3. k # Size
      BY <1>1, <2>1, <2>4, <3>2, ConcludeDone
    <3> QED BY <2>1, <3>2, <3>3 DEF Without
  <2>5. ASSUME NEW e \in Module, Throws(e)
        PROVE  \E j \in Evaluations' : calls'[j].m = x
    <3>1. PICK b : b = Base
      OBVIOUS
    <3>2. Without(b)
      BY <2>5, <3>1, ThrowsWithout
    <3>3. k # b
      <4>1. hasError(x)' => records'[x].status = "evaluated"
        BY <1>1 DEF Rooted, Evaluated
      <4> QED BY <2>1, <2>5, <3>1, <4>1, ThrownRoot
    <3> QED BY <2>1, <3>2, <3>3 DEF Without
  <2> QED BY <2>2, <2>3, <2>4, <2>5, CapKindsHold DEF CapKinds
<1> QED BY <1>2, <1>3, CapsHad

(* Of an orderly component only the root is evaluated by itself. *)
LEMMA ClosesRoot ==
  ASSUME Inv, Ahead, Closes, NEW x \in Module, Orderly(x), NEW k \in Evaluations, calls[k].m = x,
         records[x].cycleRoot = None, records'[x].cycleRoot # None
  PROVE  records'[x].cycleRoot = x
<1>1. TypeOK /\ Shaped /\ Rooted /\ Trees /\ Tangles /\ program' = program /\ tangled' = tangled /\ Close
  BY DEF Inv, Skeleton, Ahead, Closes, Close, history
<1>2. PICK b, s, m, K : Leaving(b, s, m, K)
  BY <1>1, CloseSetup
<1>3. b = Base /\ b \in Evaluations /\ m \in Members(b) /\ x \in Members(b) /\ Index(m) <= Index(x)
      /\ records'[x].cycleRoot = m /\ m \in Module
  BY <1>2 DEF Leaving
<1>4. InEvaluation
  BY <1>1, CloseTop
<1>5. k <= b /\ k \in Nat /\ b \in Nat /\ b \in 1 .. Size /\ k \in 1 .. Size
  BY <1>1, <1>3, <1>4, Regions
<1>6. Tree(b) /\ Index(m) \in Nat /\ Index(x) \in Nat
  BY <1>1, <1>3, RecordsType DEF Trees
<1>7. CASE k = b
  <2>1. Index(x) = 1 /\ Index(m) >= 1
    BY <1>3, <1>6, <1>7, <1>1, RecordsType DEF Tree, FromRoot, Numbered
  <2>2. Index(m) = Index(x)
    BY <1>3, <1>6, <2>1
  <2>3. m = x
    <3>1. PICK i \in DOMAIN calls[b].todo, j \in DOMAIN calls[b].todo : calls[b].todo[i] = m /\ calls[b].todo[j] = x
      BY <1>3 DEF Members
    <3>2. i \in Nat /\ j \in Nat
      BY <1>1, <1>5, <3>1, MembersType
    <3>3. ~(i < j) /\ ~(j < i)
      BY <1>6, <2>2, <3>1 DEF Tree, Numbered
    <3>4. i = j
      BY <3>2, <3>3
    <3> QED BY <3>1, <3>4
  <2> QED BY <1>3, <2>3
<1>8. CASE k # b
  <2>1. k \in 1 .. b - 1
    BY <1>5, <1>8
  <2>2. PICK y \in Module : y = calls[b].m
    BY <1>1, <1>5, MembersType
  <2>3. x \in Graph(y)
    BY <1>3, <1>6, <2>2 DEF Tree, Under
  <2>4. y \in Members(b)
    BY <1>3, <1>6, <2>2 DEF Tree, FromRoot
  <2>5. Unsettled(y)
    <3>1. records[y].status = "evaluating"
      BY <1>6, <2>4 DEF Tree, Numbered
    <3> QED BY <1>1, <3>1 DEF Rooted, Unsettled
  <2>6. Graph(y) \subseteq tangled
    BY <1>1, <1>3, <2>1, <2>2, <2>3, <2>5 DEF Tangles
  <2>7. x \in Graph(x)
    BY <1>1, GraphRules
  <2> QED BY <2>3, <2>6, <2>7 DEF Orderly
<1> QED BY <1>7, <1>8

LEMMA RootsClose ==
  ASSUME Inv, Inv', Next, Ahead
  PROVE  Closes \/ \A x \in Module : records'[x].cycleRoot = records[x].cycleRoot
<1>1. TypeOK /\ Shaped /\ Rooted
  BY DEF Inv, Skeleton
<1> QED BY <1>1, Kinds, EnterFacts, EnterSyntheticFacts, DependFacts, EvaluateAsyncFacts, UnwindFacts,
   FulfilledFacts, RejectedFacts
     DEF Still, SameState, Throws, Succeeds, Fails, CountsFor

LEMMA CapsRoots ==
  ASSUME Inv, Inv', Next, Ahead, Caps, NEW x \in Module, Orderly(x)', Cap(x)' # "none", records'[x].cycleRoot # None
  PROVE  records'[x].cycleRoot = x
<1>1. TypeOK /\ Rooted /\ Orderly(x)
  BY OrderlyRules DEF Inv, Skeleton, Ahead
<1>2. CASE records[x].cycleRoot # None
  <2>1. records'[x].cycleRoot = records[x].cycleRoot
    BY <1>2 DEF Ahead
  <2>2. records[x].cycleRoot = x
    BY <1>1, <1>2, CapsHad DEF Caps, Begins
  <2> QED BY <2>1, <2>2
<1>3. CASE records[x].cycleRoot = None
  <2>1. Closes
    BY <1>3, RootsClose
  <2>2. ~Begins(x)
    BY <1>3 DEF Begins, SameState
  <2>3. Cap(x) # "none"
    BY <2>2, CapsHad
  <2>4. records[x].status = "evaluating"
    <3>1. PICK b, s, m, K : Leaving(b, s, m, K)
      BY <1>1, <2>1, CloseSetup DEF Inv, Skeleton, Ahead, Closes, Close, history
    <3>2. b \in Evaluations /\ x \in Members(b)
      BY <1>3, <3>1 DEF Leaving
    <3> QED BY <3>2 DEF Inv, Skeleton, Trees, Tree, Numbered
  <2>5. PICK k \in Evaluations : calls[k].m = x
    BY <1>1, <2>3, <2>4 DEF Caps
  <2> QED BY <1>1, <1>3, <2>1, <2>5, ClosesRoot
<1> QED BY <1>2, <1>3

(* An import that is told so has completed. *)
LEMMA CapsFulfilled ==
  ASSUME Inv, Inv', Next, Ahead, Histories, Components, Components', Caps,
         NEW x \in Module, Orderly(x)', Cap(x)' = "fulfilled", ~abandoned'
  PROVE  Graph(x) \subseteq finished'
<1>1. TypeOK /\ Rooted /\ Marks /\ Orderly(x) /\ ~abandoned /\ finished \subseteq finished' /\ EndsIn
      /\ program' = program
  BY OrderlyRules DEF Inv, Skeleton, Counts, Ahead, Histories
<1>2. CASE Cap(x) = "fulfilled"
  BY <1>1, <1>2 DEF Caps, Fin
<1>3. CASE Succeeds(x)
  <2>1. records[x].status = "evaluating-async" /\ records' = Fulfilled(records, x)
    BY <1>3 DEF Succeeds
  <2>2. /\ records'[x].status = "evaluated" /\ records'[x].error = records[x].error
           /\ records'[x].cycleRoot = records[x].cycleRoot
    BY <1>1, <2>1, FulfilledFacts
  <2>3. records[x].cycleRoot # None /\ records[x].error = None
    BY <1>1, <2>1 DEF Rooted, Evaluated, hasError
  <2>4. records'[x].cycleRoot = x
    BY <2>2, <2>3, CapsRoots
  <2>5. Complete(x)' /\ Settled'
    BY <2>2, <2>3 DEF Complete, Evaluated, hasError, Components
  <2>6. Fin(x)'
    BY <2>2, <2>3, <2>4, <2>5 DEF Settled
  <2> QED BY <1>1, <2>6, ProgramKept DEF Fin
<1>4. CASE Conclude /\ x = Top.m /\ ~(cyclic(x) /\ records[x].asyncEvaluation)
  <2>1. /\ Size \in Evaluations /\ Top = calls[Size] /\ ~hasError(x)
           /\ records[x].status \notin {"linked", "evaluating"}
        /\ (~cyclic(x) => Evaluated(x) /\ x \notin Bodies)
    BY <1>1, <1>4, ConcludeDone
  <2>2. CASE ~cyclic(x)
    <3>1. x \in finished
      BY <1>1, <2>1, <2>2 DEF EndsIn, Complete
    <3>2. Requests(x) = {}
      BY <1>1, <2>2, ProgramType DEF Requests
    <3>3. finished \in SUBSET Module
      BY <1>1 DEF TypeOK
    <3>4. Graph(x) \subseteq finished
      BY <1>1, <3>1, <3>2, <3>3, GraphParts
    <3> QED BY <1>1, <3>4
  <2>3. CASE cyclic(x)
    <3>1. Evaluated(x)
      <4>1. records[x].status \in {"linked", "evaluating", "evaluating-async", "evaluated"}
        BY <1>1 DEF TypeOK
      <4> QED BY <1>1, <1>4, <2>1, <2>3, <4>1 DEF Marks, Evaluated
    <3>2. records[x].cycleRoot # None /\ Complete(x)
      BY <1>1, <2>1, <2>3, <3>1 DEF Rooted, Complete
    <3>3. Cap(x) # "none"
      BY <1>4, <2>1 DEF Caps
    <3>4. records[x].cycleRoot = x
      BY <1>1, <3>2, <3>3 DEF Caps
    <3>5. Fin(x)
      BY <1>1, <3>2, <3>4 DEF Components, Settled
    <3> QED BY <1>1, <3>5 DEF Fin
  <2> QED BY <2>2, <2>3
<1> QED BY <1>2, <1>3, <1>4, CapsBefore

LEMMA CapsStep ==
  ASSUME Inv, Inv', Next, Ahead, Histories, Components, Components', Caps
  PROVE  Caps'
<1>1. \A x \in Module : Cap(x)' = "rejected" => hasError(x)'
  BY CapsRejected
<1>2. \A x \in Module : Orderly(x)' /\ Cap(x)' = "fulfilled" /\ ~abandoned' => Fin(x)'
  <2>1. TypeOK /\ program' = program
    BY DEF Inv, Ahead
  <2> QED BY <2>1, CapsFulfilled, ProgramKept DEF Fin
<1>3. \A x \in Module : Orderly(x)' /\ Cap(x)' # "none" /\ records'[x].cycleRoot # None => records'[x].cycleRoot = x
  BY CapsRoots
<1>4. \A x \in Module : Orderly(x)' /\ Cap(x)' # "none" /\ records'[x].status \in {"linked", "evaluating"} =>
        \E k \in Evaluations' : calls'[k].m = x
  BY CapsUnder
<1>5. \A k \in Evaluations' : records'[calls'[k].m].topLevelCapability # "none"
  BY CapsFrames
<1> QED BY <1>1, <1>2, <1>3, <1>4, <1>5 DEF Caps, Cap

----------------------------------------------------------------------------
(* The inductive invariant, with what has run. *)
History == Inv /\ Histories /\ Ordered /\ RootIn /\ Ways /\ Components /\ Errors /\ Caps

LEMMA HistoryInit ==
  ASSUME Init
  PROVE  History
<1>1. Inv /\ TypeOK
  BY InitInv DEF Inv
<1>2. /\ \A x \in Module : records[x] = Record
      /\ calls = <<>> /\ started = <<>> /\ suspended = {} /\ finished = {} /\ asyncOrder = 0
  BY DEF Init
<1>3. \A x \in Module : /\ records[x].status = "linked" /\ ~hasError(x) /\ ~Evaluated(x)
      /\ records[x].cycleRoot = None
                        /\ ~records[x].asyncEvaluation /\ records[x].asyncParentModules = <<>> /\ Pending(x) = 0
                        /\ Order(x) = 0 /\ Cap(x) = "none"
  BY <1>2 DEF Record, hasError, Evaluated, Pending, Order, Cap
<1>4. Idle /\ Size = 0 /\ Shaped /\ DOMAIN calls = {}
  BY <1>1, <1>2 DEF Idle, Size, Inv, Skeleton
<1>5. Evaluations = {} /\ Busy = {} /\ Bodies = {} /\ List = {}
  BY <1>1, <1>4, StackSmall
<1>6. \A x : ~Done(x)
  BY <1>2 DEF Done
<1>7. Histories
  <2>1. Once
    BY <1>5, <1>6 DEF Once
  <2>2. Apart
    BY <1>2, <1>4, <1>5 DEF Apart, Single
  <2>3. EndsIn
    BY <1>3 DEF EndsIn, Complete
  <2> QED BY <2>1, <2>2, <2>3 DEF Histories
<1>8. Ordered
  BY <1>1, <1>2, <1>3, ParentsType DEF Ordered
<1>9. RootIn /\ Ways /\ Components /\ Errors
  BY <1>3, <1>5 DEF RootIn, Ways, Components, Learned, Settled, Chained, Errors
<1>10. Caps
  BY <1>3, <1>5 DEF Caps
<1> QED BY <1>1, <1>7, <1>8, <1>9, <1>10 DEF History

LEMMA HistoryStutters ==
  ASSUME History, UNCHANGED vars
  PROVE  History'
<1>1. /\ program' = program /\ records' = records /\ calls' = calls /\ tangled' = tangled /\ asyncOrder' = asyncOrder
      /\ suspended' = suspended /\ abandoned' = abandoned /\ started' = started /\ finished' = finished
  BY DEF vars, bodies
<1>2. Inv'
  BY StutterInv DEF History
<1>3. Histories'
  BY <1>1 DEF History, Histories, Once, Apart, EndsIn, Single, Done, Complete, Evaluated, hasError, cyclic,
     Pending, Busy, Bodies, List, Completing, Idle, Size, requested
<1>4. Ordered'
  BY <1>1 DEF History, Ordered, Order, Pending, Parents, Done, Complete, Evaluated, hasError, Orderly, Graph,
     Closed, requested
<1>5. RootIn' /\ Errors'
  BY <1>1 DEF History, RootIn, Orderly, Graph, Closed, requested, Errors, Done, hasError, Bodies, Size
<1>6. Components'
  BY <1>1 DEF History, Components, Learned, Settled, Chained, Upward, Fin, Learnt, Requests, Complete, Evaluated,
     hasError, Orderly, Graph, Closed, requested, Parents, cyclic
<1>7. Caps'
  BY <1>1 DEF History, Caps, Cap, hasError, Orderly, Graph, Closed, requested, Fin, Evaluations
<1>8. Ways'
  <2>1. /\ \A k : Members(k)' = Members(k) /\ (k \in Evaluations' <=> k \in Evaluations)
        /\ \A x : Index(x)' = Index(x) /\ Low(x)' = Low(x) /\ requested(x)' = requested(x) /\ Pending(x)' = Pending(x)
        /\ \A x : Parents(x)' = Parents(x) /\ (cyclic(x)' <=> cyclic(x))
    BY <1>1 DEF Members, Evaluations, Index, Low, requested, Pending, Parents, cyclic
  <2>2. /\ \A j, k : Visits(j, k)' <=> Visits(j, k)
        /\ \A j, k, x : Nearest(j, k, x)' <=> Nearest(j, k, x)
    BY <1>1 DEF Visits, In, Evaluations, Nearest, Index
  <2>3. \A k, x : LookedAt(k, x)' = LookedAt(k, x)
    BY <1>1 DEF LookedAt, Visits, In, Evaluations, requested
  <2>4. \A x : (Orderly(x)' <=> Orderly(x)) /\ (Fin(x)' <=> Fin(x))
    BY <1>1 DEF Orderly, Fin, Graph, Closed, requested
  <2>5. \A x, y : (Learnt(x, y)' <=> Learnt(x, y)) /\ (Upward(x, y)' <=> Upward(x, y))
    BY <1>1, <2>1, <2>4 DEF Learnt, Upward
  <2>6. \A j, k, x : Handing(j, k, x)' <=> Handing(j, k, x)
    BY <1>1, <2>1, <2>5 DEF Handing
  <2>7. \A k : Looks(k)' <=> Looks(k)
    BY <1>1, <2>1, <2>2, <2>3 DEF Looks
  <2>8. \A k : Learns(k)' <=> Learns(k)
    BY <1>1, <2>1, <2>3, <2>4, <2>5 DEF Learns
  <2>9. \A k : Chain(k)' <=> Chain(k)
    BY <1>1, <2>1, <2>2, <2>5, <2>6 DEF Chain
  <2> QED BY <1>1, <2>1, <2>7, <2>8, <2>9 DEF History, Ways, Way
<1> QED BY <1>2, <1>3, <1>4, <1>5, <1>6, <1>7, <1>8 DEF History

LEMMA HistoryStep ==
  ASSUME History, [Next]_vars
  PROVE  History'
<1>1. CASE UNCHANGED vars
  BY <1>1, HistoryStutters
<1>2. CASE Next
  <2>1. Inv /\ Histories /\ Ordered /\ RootIn /\ Ways /\ Components /\ Errors /\ Caps
    BY DEF History
  <2>2. Inv' /\ Ahead
    BY <1>2, <2>1, InvStep, AheadHolds
  <2>3. Histories' /\ Ordered' /\ RootIn' /\ Errors'
    BY <1>2, <2>1, <2>2, HistoriesStep, OrderedStep, RootInStep, ErrorsStep
  <2>4. Ways' /\ Components'
    BY <1>2, <2>1, <2>2, WaysStep, ClosedStep DEF Components
  <2>5. Caps'
    BY <1>2, <2>1, <2>2, <2>4, CapsStep
  <2> QED BY <2>2, <2>3, <2>4, <2>5 DEF History
<1> QED BY <1>1, <1>2

LEMMA HistoryHolds == Spec => []History
BY HistoryInit, HistoryStep, PTL DEF Spec

(* What import() learns is true, for any graphs and any number of imports and *)
(* requires: the promise of an orderly import is fulfilled only when its       *)
(* whole graph has completed, unless a completion was abandoned, and rejected  *)
(* only with what a body of that graph threw.                                  *)
THEOREM CapabilitiesCorrect == Spec => []CapabilitiesHonest
<1>1. History => CapabilitiesHonest
  <2> SUFFICES ASSUME History, NEW x \in Module, Orderly(x)
               PROVE  /\ Cap(x) = "fulfilled" /\ ~abandoned => Graph(x) \subseteq finished
                      /\ Cap(x) = "rejected" =>
                           \E d \in Graph(x) \ finished :
                             records[x].error = d /\ \E i \in DOMAIN started : started[i] = d
    BY DEF CapabilitiesHonest, Cap
  <2>1. Cap(x) = "fulfilled" /\ ~abandoned => Graph(x) \subseteq finished
    BY DEF History, Caps, Fin
  <2>2. Cap(x) = "rejected" => hasError(x)
    BY DEF History, Caps
  <2>3. hasError(x) => /\ records[x].error \in Graph(x) \ finished
                       /\ \E i \in DOMAIN started : started[i] = records[x].error
    BY DEF History, Errors, Done
  <2> QED BY <2>1, <2>2, <2>3
<1> QED BY <1>1, HistoryHolds, PTL

----------------------------------------------------------------------------
(* A sequence that grows tells what it grew by. *)
LEMMA AppendOnce ==
  ASSUME NEW S, NEW s \in Seq(S), NEW x \in S, NEW y \in S
  PROVE  Append(s, x) # s /\ (Append(s, x) = Append(s, y) => x = y)
<1>1. /\ Len(s) \in Nat /\ Len(Append(s, x)) = Len(s) + 1
      /\ Append(s, x)[Len(s) + 1] = x /\ Append(s, y)[Len(s) + 1] = y
  BY AppendProperties, LenProperties
<1> QED BY <1>1

(* Bodies run only when a step starts them. *)
LEMMA WhoStarts ==
  ASSUME Inv, Next, NEW m \in Module, started' = Append(started, m)
  PROVE  Starts(m)
<1>1. TypeOK /\ Shaped /\ started \in Seq(Module)
  BY DEF Inv, Skeleton, TypeOK
<1>2. started' # started /\ \A x \in Module : started' = Append(started, x) => x = m
  BY <1>1, AppendOnce
<1>3. CASE EnterSynthetic
  <2>1. started' = Append(started, Callee) /\ Callee \in Module
    BY <1>1, <1>3, EnterSyntheticFacts, CalleeType
  <2> QED BY <1>2, <1>3, <2>1 DEF Starts
<1>4. CASE Execute \/ EvaluateAsync
  <2>1. Top.m \in Module /\ Pending(Top.m) \in Nat
    BY <1>1, <1>4, LookedFacts, ExecuteFacts, EvaluateAsyncFacts, RecordsType
  <2> QED BY <1>1, <1>2, <1>4, <2>1, ExecuteFacts, EvaluateAsyncFacts DEF Starts
<1>5. CASE ExecuteGathered
  BY <1>1, <1>2, <1>5, RunGatheredFacts DEF Starts
<1>6. CASE Rethrow \/ Depend \/ Close \/ Conclude \/ Gather \/ SkipGathered \/ Completed \/ Enter \/ Ends
  BY <1>2, <1>6 DEF Rethrow, Depend, Close, Conclude, Gather, SkipGathered, Completed, Enter, Ends,
     BodyReturns, BodySuspends, BodyThrows, bodies
<1>7. CASE \E x \in Module : Import(x) \/ requireModule(x) \/ Settles(x)
  BY <1>2, <1>7 DEF Import, requireModule, evaluate, Settles, asyncModuleExecutionFulfilled,
     asyncModuleExecutionRejected, bodies
<1> QED BY <1>3, <1>4, <1>5, <1>6, <1>7 DEF Next, Runtime

(* What a body that starts imports is of its cycle, or has completed as it waits for it. *)
LEMMA StartsLearnt ==
  ASSUME Inv, Ways, Learned, ~abandoned, NEW m \in Module, Starts(m), Orderly(m), NEW r \in Requests(m)
  PROVE  r \in Module /\ (r \in Cycle(m) \/ Learnt(m, r))
<1>1. TypeOK /\ Shaped /\ Rooted /\ Trees /\ Marks
  BY DEF Inv, Skeleton, Counts
<1>2. /\ r \in Module /\ r \in Graph(m) /\ Orderly(r) /\ requested(m) # <<>> /\ cyclic(m)
      /\ Len(requested(m)) \in Nat /\ DOMAIN requested(m) = 1 .. Len(requested(m))
  <2>1. r \in Module
    BY <1>1, ProgramType DEF Requests
  <2>2. m \in Graph(m) /\ Graph(m) \subseteq Module
    BY <1>1, GraphRules
  <2>3. r \in Graph(m)
    BY <1>1, <2>1, <2>2, GraphRules
  <2>4. Orderly(r)
    BY <1>1, <2>1, <2>3, GraphRules DEF Orderly
  <2>5. requested(m) # <<>>
    BY DEF Requests
  <2> QED BY <1>1, <2>1, <2>3, <2>4, <2>5, ProgramType
<1>3. CASE EnterSynthetic /\ m = Callee
  BY <1>2, <1>3 DEF EnterSynthetic
<1>4. CASE Looked /\ m = Top.m
  <2>1. /\ Size \in Nat /\ Size > 0 /\ Top = calls[Size] /\ Top.at = "inner" /\ Top.i = Len(requested(m)) + 1
           /\ InEvaluation
    BY <1>1, <1>4, LookedFacts
  <2>2. /\ Base \in Evaluations /\ m \in Members(Base) /\ \A x \in Members(Base) : Clean(Base, x) => m \in Graph(x)
    BY <1>1, <1>4, <2>1, TopVisit
  <2>3. \A i \in DOMAIN requested(m) : i \in LookedAt(Base, m)
    <3> SUFFICES ASSUME NEW i \in DOMAIN requested(m), NEW j, Visits(j, Base), calls[j].m = m
                 PROVE  i < calls[j].i
      BY DEF LookedAt
    <3>1. j \in 1 .. Size /\ calls[j].at = "inner"
      BY <1>1, CallsType DEF Visits, In
    <3>2. j = Size
      <4>1. ~(j < Size)
        BY <1>1, <1>4, <2>1, <3>1, DistinctVisits
      <4> QED BY <2>1, <3>1, <4>1
    <3> QED BY <1>2, <2>1, <3>2
  <2>4. Learns(Base)
    BY <2>2 DEF Ways, Way
  <2>5. r \in Members(Base) \/ Learnt(m, r)
    BY <2>2, <2>3, <2>4 DEF Learns, Requests
  <2> QED BY <1>2, <2>2, <2>5 DEF Cycle, Clean
<1>5. CASE ExecuteGathered /\ m = First
  <2>1. On("completion") /\ m \in Top.list
    BY <1>1, <1>5, RunGatheredFacts, FirstFacts
  <2>2. m \in List
    BY <1>1, <2>1, StackSmall
  <2>3. records[m].cycleRoot # None
    BY <1>1, <2>2 DEF Marks
  <2> QED BY <1>2, <2>3 DEF Learned, Cycle
<1> QED BY <1>3, <1>4, <1>5 DEF Starts, Execute, EvaluateAsync

(* A body runs at most once, and after all it imports from outside its cycle. *)
LEMMA OrderStep ==
  ASSUME History, Next, NEW m \in Module, started' = Append(started, m)
  PROVE  /\ \A i \in DOMAIN started : started[i] # m
         /\ Orderly(m) /\ ~abandoned =>
              \A i \in DOMAIN requested(m) :
                LET r == requested(m)[i]
                IN  r \notin Cycle(m) => Graph(r) \subseteq finished
<1>1. Inv /\ TypeOK /\ Rooted /\ Once /\ Ordered /\ Ways /\ Starts(m) /\ program' = program
  BY WhoStarts, ProgramStays DEF History, Inv, Skeleton, Histories
<1>2. ~Done(m)
  BY <1>1, StartsFresh, InvStep
<1>3. ASSUME Orderly(m), ~abandoned, NEW r \in Requests(m), r \notin Cycle(m)
      PROVE  Graph(r) \subseteq finished
  <2>1. Learned /\ Settled
    BY <1>3 DEF History, Components
  <2>2. r \in Module /\ Learnt(m, r)
    BY <1>1, <1>3, <2>1, StartsLearnt
  <2>3. CASE Fin(r)
    BY <2>3 DEF Fin
  <2>4. CASE records[r].cycleRoot # None /\ m \in Parents(records[r].cycleRoot)
    <3>1. records[r].cycleRoot \in Module
      BY <1>1, <2>2, <2>4, RecordsType
    <3>2. Complete(records[r].cycleRoot)
      BY <1>1, <1>3, <2>4, <3>1, StartsWaits
    <3>3. Orderly(r)
      <4>1. r \in Graph(m)
        BY <1>1, <1>3, <2>2, GraphRules
      <4> QED BY <1>1, <1>3, <2>2, <4>1, GraphRules DEF Orderly
    <3> QED BY <2>1, <2>2, <2>4, <3>2, <3>3 DEF Settled, Fin
  <2> QED BY <2>2, <2>3, <2>4 DEF Learnt
<1>4. \A i \in DOMAIN requested(m) : requested(m)[i] \in Requests(m)
  BY DEF Requests
<1> QED BY <1>2, <1>3, <1>4 DEF Done

(* A body runs at most once, and when it starts, each module it imports from  *)
(* outside its own cycle has completed with its whole graph, for any graphs    *)
(* and any number of imports and requires: whether innerModuleEvaluation       *)
(* starts it, a completion or a require, unless a require entered that graph   *)
(* while it was running or a completion was abandoned.                         *)
THEOREM OrderCorrect == Spec => BodiesInOrder
<1>1. ASSUME History, [Next]_vars
      PROVE  [ \A m \in Module : started' = Append(started, m) =>
                 /\ \A i \in DOMAIN started : started[i] # m
                 /\ Orderly(m) /\ ~abandoned =>
                      \A i \in DOMAIN requested(m) :
                        LET r == requested(m)[i]
                        IN  r \notin Cycle(m) => Graph(r) \subseteq finished ]_started
  <2>1. CASE UNCHANGED vars
    BY <2>1 DEF vars, bodies
  <2>2. CASE Next
    BY <1>1, <2>2, OrderStep
  <2> QED BY <1>1, <2>1, <2>2
<1> QED BY <1>1, HistoryHolds, PTL DEF Spec, BodiesInOrder
===============================================================================
