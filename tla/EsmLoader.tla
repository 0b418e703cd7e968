------------------------------ MODULE EsmLoader ------------------------------
(***************************************************************************)
(* Evaluation of ES modules by src/src/esm_loader.js: evaluate and the      *)
(* depth-first innerModuleEvaluation with its components, top-level await,  *)
(* and what follows when an awaited body settles.                           *)
(*                                                                         *)
(* A program is a linked graph of modules.  Modules are imported from jobs  *)
(* of their own and required from bodies, any body may throw, and one with  *)
(* a top-level await settles at any later time or never.                    *)
(***************************************************************************)
EXTENDS Integers, Sequences, FiniteSets

CONSTANTS
  Module,      \* the module records
  None,
  Programs,    \* the graphs: what each module requests, its kind, what is imported
  MaxCalls     \* bound: imports and requires

Kind == {"sync", "tla", "commonjs"}

ASSUME EsmAssumption ==
  /\ IsFiniteSet(Module) /\ None \notin Module /\ MaxCalls \in Nat
  /\ Programs \subseteq [requested : [Module -> Seq(Module)], kind : [Module -> Kind],
                         entries : SUBSET Module]
  /\ \A p \in Programs, m \in Module : p.kind[m] = "commonjs" => p.requested[m] = <<>>

VARIABLES
  program,     \* the graph, which does not change
  records,     \* the module records
  calls,       \* the loader's functions and the bodies on the JavaScript stack
  asyncOrder,
  suspended,   \* modules whose body is a promise that has not settled
  asked,       \* bound: imports and requires made
  tangled,     \* history: modules required while part of their graph was running
  started,     \* history: the bodies run, in order
  finished,    \* history: the bodies that completed
  abandoned    \* history: a completion ended in an exception of the loader's own

vars == <<program, records, calls, asyncOrder, suspended, asked, tangled, started, finished,
          abandoned>>

requested(m) == program.requested[m]
hasTLA(m) == program.kind[m] = "tla"
cyclic(m) == program.kind[m] # "commonjs"
Evaluated(m) == records[m].status = "evaluated"
hasError(m) == records[m].error # None

\* A function on the stack: the module and the request it looks at, the modules
\* it still has to visit, and those it collects.
Frame(at, m) == [at |-> at, m |-> m, i |-> 1, todo |-> <<>>, list |-> {}]
Top == calls[Len(calls)]
Below == SubSeq(calls, 1, Len(calls) - 1)
Idle == calls = <<>>
On(at) == ~Idle /\ Top.at = at
Replace(frame) == Append(Below, frame)

\* A CommonJS record, which is not cyclic, is "evaluated" once its body has begun.
Record ==
  [status |-> "linked", error |-> None, dfsIndex |-> 0, dfsAncestorIndex |-> 0,
   cycleRoot |-> None, asyncEvaluation |-> FALSE, asyncEvaluationOrder |-> 0,
   topLevelCapability |-> "none", asyncParentModules |-> <<>>, pendingAsyncDependencies |-> 0]

Init ==
  /\ program \in Programs
  /\ records = [m \in Module |-> Record]
  /\ calls = <<>> /\ asyncOrder = 0 /\ suspended = {} /\ asked = 0 /\ tangled = {}
  /\ started = <<>> /\ finished = {} /\ abandoned = FALSE

bodies == <<suspended, started, finished>>
history == <<program, asked, tangled, abandoned>>

----------------------------------------------------------------------------
(* evaluate *)

\* A module of a finished component is evaluated as the root of its component.
Root(m) ==
  IF cyclic(m) /\ records[m].status \in {"evaluating-async", "evaluated"}
       /\ records[m].cycleRoot # None
  THEN records[m].cycleRoot ELSE m

evaluate(m) ==
  /\ records[Root(m)].topLevelCapability = "none"
  /\ records' = [records EXCEPT ![Root(m)].topLevelCapability = "pending"]
  /\ calls' = Append(calls, Frame("evaluate", Root(m)))
  /\ asked < MaxCalls /\ asked' = asked + 1
  /\ UNCHANGED <<program, asyncOrder, bodies, abandoned>>

\* dynamicImport and runMain evaluate from a job of their own, and so, with an
\* empty stack, does a require in a callback.
Import(m) == Idle /\ m \in program.entries /\ evaluate(m) /\ UNCHANGED tangled

\* The modules that m requests, directly or not, and m itself.
Closed(S) == \A m \in S : \A i \in DOMAIN requested(m) : requested(m)[i] \in S
Graph(m) == {d \in Module : \A S \in SUBSET Module : m \in S /\ Closed(S) => d \in S}

Underway(m) == records[m].status = "evaluating" \/ \E i \in DOMAIN calls : calls[i].m = m

\* require of an ES module, which refuses a graph with a top-level await
requireModule(m) ==
  /\ On("body") /\ m \in program.entries /\ cyclic(m)
  /\ \A d \in Graph(m) : ~hasTLA(d)
  /\ evaluate(m)
  /\ tangled' = IF \E d \in Graph(m) : Underway(d) THEN tangled \cup Graph(m) ELSE tangled

----------------------------------------------------------------------------
(* innerModuleEvaluation.  A frame looks at one module after the other: the one  *)
(* it evaluates, or those it requests.  It looks again at one that it evaluated. *)

Looking == On("evaluate") \/ (On("inner") /\ Top.i <= Len(requested(Top.m)))
Callee == IF Top.at = "evaluate" THEN Top.m ELSE requested(Top.m)[Top.i]

\* The evaluate that the top of the stack belongs to; its todo is the stack of
\* modules in evaluation, and its i the next index.
Base == CHOOSE k \in DOMAIN calls :
          calls[k].at = "evaluate" /\ \A j \in k + 1 .. Len(calls) : calls[j].at # "evaluate"

Enter ==
  /\ Looking /\ cyclic(Callee) /\ records[Callee].status = "linked"
  /\ records' = [records EXCEPT ![Callee].status = "evaluating",
                                ![Callee].dfsIndex = calls[Base].i,
                                ![Callee].dfsAncestorIndex = calls[Base].i]
  /\ calls' = Append([calls EXCEPT ![Base].i = @ + 1, ![Base].todo = Append(@, Callee)],
                     Frame("inner", Callee))
  /\ UNCHANGED <<asyncOrder, bodies, history>>

Start(m, s) ==
  /\ calls' = Append(s, Frame("body", m))
  /\ started' = Append(started, m)

\* evaluateSynthetic, the first time
EnterSynthetic ==
  /\ Looking /\ ~cyclic(Callee) /\ ~Evaluated(Callee)
  /\ records' = [records EXCEPT ![Callee].status = "evaluated"]
  /\ Start(Callee, calls)
  /\ UNCHANGED <<asyncOrder, suspended, finished, history>>

\* evaluate's catch: all that was being evaluated has failed.
Unwind(e) ==
  LET root == calls[Base].m
      failed == {calls[Base].todo[i] : i \in DOMAIN calls[Base].todo}
                  \cup (IF cyclic(root) THEN {} ELSE {root})
                  \cup (IF On("body") /\ ~cyclic(Top.m) THEN {Top.m} ELSE {})
      settled == [records EXCEPT ![root].topLevelCapability = "rejected"]
  IN  /\ records' = [m \in Module |->
                      IF m \in failed
                      THEN [settled[m] EXCEPT !.error = e, !.status = "evaluated"]
                      ELSE settled[m]]
      /\ calls' = SubSeq(calls, 1, Base - 1)

\* What looking at a module again throws.
ErrorOf(m) ==
  IF hasError(m) THEN records[m].error
  ELSE IF On("inner") /\ cyclic(m) /\ records[m].status # "evaluating"
       THEN records[records[m].cycleRoot].error
  ELSE None

Seen == Looking /\ ~(cyclic(Callee) /\ records[Callee].status = "linked")
                /\ ~(~cyclic(Callee) /\ ~Evaluated(Callee))

Rethrow ==
  /\ Seen /\ ErrorOf(Callee) # None
  /\ Unwind(ErrorOf(Callee))
  /\ UNCHANGED <<asyncOrder, bodies, history>>

Least(x, y) == IF x < y THEN x ELSE y

\* Mutant of Awaited: a module of a finished component is awaited by itself.
AwaitedAlone(m) == m

\* A module of a finished component completes with the root of its component.
Awaited(m) ==
  IF cyclic(m) /\ records[m].status # "evaluating" THEN records[m].cycleRoot ELSE m

\* What a module learns of one it requests, and waits for if that is asynchronous.
Depend ==
  LET m == Top.m
      r == Awaited(Callee)
      joined == IF records[r].status = "evaluating"
                THEN [records EXCEPT ![m].dfsAncestorIndex = Least(@, records[r].dfsAncestorIndex)]
                ELSE records
  IN  /\ On("inner") /\ Seen /\ ErrorOf(Callee) = None
      /\ calls' = Replace([Top EXCEPT !.i = @ + 1])
      /\ records' = IF records[r].asyncEvaluation
                    THEN [joined EXCEPT ![m].pendingAsyncDependencies = @ + 1,
                                        ![r].asyncParentModules = Append(@, m)]
                    ELSE joined
      /\ UNCHANGED <<asyncOrder, bodies, history>>

\* The modules m requests have been looked at: its body runs, unless it has to wait.
Looked == On("inner") /\ Top.i = Len(requested(Top.m)) + 1
Ran == Replace([Top EXCEPT !.i = @ + 1])
Waits(m) == records[m].pendingAsyncDependencies > 0

\* Mutant of Execute: a module that waits for another runs at once.
ExecuteEager ==
  /\ Looked /\ ~hasTLA(Top.m)
  /\ Start(Top.m, Ran)
  /\ UNCHANGED <<records, asyncOrder, suspended, finished, history>>

Execute ==
  /\ Looked /\ ~Waits(Top.m) /\ ~hasTLA(Top.m)
  /\ Start(Top.m, Ran)
  /\ UNCHANGED <<records, asyncOrder, suspended, finished, history>>

EvaluateAsync ==
  /\ Looked /\ (Waits(Top.m) \/ hasTLA(Top.m))
  /\ records' = [records EXCEPT ![Top.m].asyncEvaluation = TRUE,
                                ![Top.m].asyncEvaluationOrder = asyncOrder + 1]
  /\ asyncOrder' = asyncOrder + 1
  /\ IF Waits(Top.m) THEN calls' = Ran /\ UNCHANGED started ELSE Start(Top.m, Ran)
  /\ UNCHANGED <<suspended, finished, history>>

\* The end of innerModuleEvaluation: the root of a component closes it.
Close ==
  LET m == Top.m
      todo == calls[Base].todo
      at == CHOOSE i \in DOMAIN todo : todo[i] = m
      component == {todo[i] : i \in at .. Len(todo)}
  IN  /\ On("inner") /\ Top.i = Len(requested(m)) + 2
      /\ IF records[m].dfsAncestorIndex = records[m].dfsIndex
         THEN /\ records' = [c \in Module |->
                   IF c \in component
                   THEN [records[c] EXCEPT
                           !.status = IF records[c].asyncEvaluation
                                      THEN "evaluating-async" ELSE "evaluated",
                           !.cycleRoot = m]
                   ELSE records[c]]
              /\ calls' = [Below EXCEPT ![Base].todo = SubSeq(@, 1, at - 1)]
         ELSE calls' = Below /\ UNCHANGED records
      /\ UNCHANGED <<asyncOrder, bodies, history>>

\* The end of evaluate.
Conclude ==
  /\ On("evaluate") /\ Seen /\ ErrorOf(Top.m) = None
  /\ calls' = Below
  /\ records' = [records EXCEPT ![Top.m].topLevelCapability =
                   IF cyclic(Top.m) /\ records[Top.m].asyncEvaluation THEN @ ELSE "fulfilled"]
  /\ UNCHANGED <<asyncOrder, bodies, history>>

----------------------------------------------------------------------------
(* Bodies, and the jobs that follow one that was awaited *)

\* A module that completed by itself settles its own capability.
Fulfilled(recs, m) ==
  [recs EXCEPT ![m].asyncEvaluation = FALSE, ![m].status = "evaluated",
               ![m].topLevelCapability = IF @ = "pending" THEN "fulfilled" ELSE @]

\* Run from a completion, and not by innerModuleEvaluation
Resumed == On("body") /\ Len(calls) > 1 /\ calls[Len(calls) - 1].at = "completion"

BodyReturns ==
  /\ On("body") /\ ~hasTLA(Top.m)
  /\ finished' = finished \cup {Top.m}
  /\ calls' = Below
  /\ records' = IF Resumed THEN Fulfilled(records, Top.m) ELSE records
  /\ UNCHANGED <<asyncOrder, suspended, started, history>>

BodySuspends ==
  /\ On("body") /\ hasTLA(Top.m)
  /\ suspended' = suspended \cup {Top.m}
  /\ calls' = Below
  /\ UNCHANGED <<records, asyncOrder, started, finished, history>>

\* asyncModuleExecutionRejected: m and those that wait for it, directly or not
Parents(m) == {records[m].asyncParentModules[i] : i \in DOMAIN records[m].asyncParentModules}
Waiting(S) == \A m \in S : \A p \in Parents(m) : Evaluated(p) \/ p \in S

\* Mutant of Dependents: only the modules that wait for m itself.
DependentsDirect(m) == IF Evaluated(m) THEN {} ELSE {m} \cup Parents(m)

Dependents(m) ==
  {d \in Module : ~Evaluated(m) /\ \A S \in SUBSET Module : m \in S /\ Waiting(S) => d \in S}

Rejected(m) ==
  [d \in Module |->
     IF d \in Dependents(m)
     THEN [records[d] EXCEPT !.error = m, !.status = "evaluated",
                             !.topLevelCapability = IF @ = "pending" THEN "rejected" ELSE @]
     ELSE records[d]]

BodyThrows ==
  /\ On("body") /\ ~hasTLA(Top.m)
  /\ IF Resumed THEN records' = Rejected(Top.m) /\ calls' = Below
               ELSE Unwind(Top.m)
  /\ UNCHANGED <<asyncOrder, bodies, history>>

asyncModuleExecutionRejected(m) ==
  /\ Idle /\ m \in suspended
  /\ suspended' = suspended \ {m}
  /\ records' = Rejected(m)
  /\ UNCHANGED <<calls, asyncOrder, started, finished, history>>

asyncModuleExecutionFulfilled(m) ==
  /\ Idle /\ m \in suspended
  /\ suspended' = suspended \ {m} /\ finished' = finished \cup {m}
  /\ IF Evaluated(m) THEN UNCHANGED <<records, calls>>
     ELSE /\ records' = Fulfilled(records, m)
          /\ calls' = <<[Frame("completion", m) EXCEPT !.todo = records[m].asyncParentModules]>>
  /\ UNCHANGED <<asyncOrder, started, history>>

\* Mutant of Onward: also the importers of a module that has yet to await.
OnwardAlways(p) == records[p].asyncParentModules

\* The importers to look at after one that is ready: those it completes for.
Onward(p) == IF hasTLA(p) THEN <<>> ELSE records[p].asyncParentModules

\* gatherAvailableAncestors, one importer at a time.  One whose own evaluation
\* failed has no cycleRoot to read: the completion ends there.
Gather ==
  LET p == Head(Top.todo)
      rest == Tail(Top.todo)
      last == records[p].pendingAsyncDependencies = 1
      next == [Top EXCEPT !.todo = IF last THEN Onward(p) \o rest ELSE rest,
                          !.list = IF last THEN @ \cup {p} ELSE @]
  IN  /\ On("completion") /\ Top.todo # <<>>
      /\ IF p \notin Top.list /\ records[p].cycleRoot = None
         THEN calls' = Below /\ abandoned' = TRUE /\ UNCHANGED records
         ELSE /\ UNCHANGED abandoned
              /\ IF p \in Top.list \/ hasError(records[p].cycleRoot)
                 THEN calls' = Replace([Top EXCEPT !.todo = rest]) /\ UNCHANGED records
                 ELSE /\ calls' = Replace(next)
                      /\ records' = [records EXCEPT ![p].pendingAsyncDependencies = @ - 1]
      /\ UNCHANGED <<program, asyncOrder, bodies, asked, tangled>>

\* Then those gathered run, sorted by asyncEvaluationOrder.
Gathered == On("completion") /\ Top.todo = <<>>
First == CHOOSE p \in Top.list :
           \A q \in Top.list : records[p].asyncEvaluationOrder <= records[q].asyncEvaluationOrder
Left == [Top EXCEPT !.list = @ \ {First}]

ExecuteGathered ==
  /\ Gathered /\ Top.list # {} /\ ~Evaluated(First)
  /\ Start(First, Replace(Left))
  /\ UNCHANGED <<records, asyncOrder, suspended, finished, history>>

SkipGathered ==
  /\ Gathered /\ Top.list # {} /\ Evaluated(First)
  /\ calls' = Replace(Left)
  /\ UNCHANGED <<records, asyncOrder, bodies, history>>

Completed ==
  /\ Gathered /\ Top.list = {}
  /\ calls' = Below
  /\ UNCHANGED <<records, asyncOrder, bodies, history>>

----------------------------------------------------------------------------
(* The specification *)

Runtime ==
  \/ Enter \/ EnterSynthetic \/ Rethrow \/ Depend \/ Execute \/ EvaluateAsync \/ Close
  \/ Conclude \/ Gather \/ ExecuteGathered \/ SkipGathered \/ Completed
Ends == BodyReturns \/ BodySuspends \/ BodyThrows
Settles(m) == asyncModuleExecutionFulfilled(m) \/ asyncModuleExecutionRejected(m)

Next ==
  \/ \E m \in Module : Import(m) \/ requireModule(m) \/ Settles(m)
  \/ Runtime \/ Ends

Spec == Init /\ [][Next]_vars

\* Code that is called comes to its end, and an awaited body settles: a
\* property under this fairness is one of programs that leave no await open.
Fairness == WF_vars(Runtime) /\ WF_vars(Ends) /\ \A m \in Module : WF_vars(Settles(m))
FairSpec == Spec /\ Fairness

----------------------------------------------------------------------------
(* Properties *)

TypeOK ==
  /\ program \in Programs
  /\ records \in [Module ->
       [status : {"linked", "evaluating", "evaluating-async", "evaluated"},
        error : Module \cup {None}, dfsIndex : Nat, dfsAncestorIndex : Nat,
        cycleRoot : Module \cup {None}, asyncEvaluation : BOOLEAN,
        asyncEvaluationOrder : Nat, asyncParentModules : Seq(Module),
        topLevelCapability : {"none", "pending", "fulfilled", "rejected"},
        pendingAsyncDependencies : Nat]]
  /\ calls \in Seq([at : {"evaluate", "inner", "body", "completion"}, m : Module, i : Nat,
                     todo : Seq(Module), list : SUBSET Module])
  /\ asyncOrder \in Nat /\ asked \in 0 .. MaxCalls
  /\ suspended \subseteq Module /\ finished \subseteq Module /\ tangled \subseteq Module
  /\ started \in Seq(Module) /\ abandoned \in BOOLEAN

\* Modules whose graph no require entered while it was running
Orderly(m) == Graph(m) \cap tangled = {}
Cycle(m) == {d \in Graph(m) : m \in Graph(d)}

\* A body runs at most once, and when it starts, each module it imports from
\* outside its own cycle has completed with its whole graph: whether
\* innerModuleEvaluation starts it, a completion or a require.  A completion
\* that was abandoned forgets a module it had counted down for.
BodiesInOrder ==
  [][ \A m \in Module : started' = Append(started, m) =>
        /\ \A i \in DOMAIN started : started[i] # m
        /\ Orderly(m) /\ ~abandoned =>
             \A i \in DOMAIN requested(m) :
               LET r == requested(m)[i]
               IN  r \notin Cycle(m) => Graph(r) \subseteq finished ]_started

\* What import() learns is true: its promise is fulfilled only when the whole
\* graph has completed, cycles and awaited parts included, unless a completion
\* was abandoned, and is rejected only with what a body of that graph threw.
CapabilitiesHonest ==
  \A m \in Module : Orderly(m) =>
    /\ records[m].topLevelCapability = "fulfilled" /\ ~abandoned => Graph(m) \subseteq finished
    /\ records[m].topLevelCapability = "rejected" =>
         \E d \in Graph(m) \ finished :
           records[m].error = d /\ \E i \in DOMAIN started : started[i] = d

\* A module counts as pending exactly the modules it waits for that have not
\* completed: one too many and it never runs, one too few and it runs early.
\* In a cycle whose root failed no completion counts any more.
PendingCounted ==
  \A p \in Module : Idle /\ ~abandoned /\ records[p].status = "evaluating-async"
                    /\ ~hasError(records[p].cycleRoot) =>
    records[p].pendingAsyncDependencies =
      Cardinality(UNION {{<<d, i>> : i \in {j \in DOMAIN records[d].asyncParentModules :
                                               records[d].asyncParentModules[j] = p}}
                         : d \in {e \in Module : records[e].asyncEvaluation /\ ~hasError(e)}})

\* Every record has its type and its count of pending dependencies is right.
RecordsSound == TypeOK /\ PendingCounted

\* Every import is answered, once the bodies it waits for have settled, unless
\* a completion was abandoned.
EvaluationsSettle ==
  \A m \in Module :
    records[m].topLevelCapability = "pending" ~>
      (abandoned \/ records[m].topLevelCapability # "pending")

=============================================================================
