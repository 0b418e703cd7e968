--------------------------- MODULE EsmLoaderProofs ---------------------------
(***************************************************************************)
(* Theorems about EsmLoader, for every value of its constants.             *)
(***************************************************************************)
EXTENDS EsmLoader, FiniteSetTheorems, SequenceTheorems, WellFoundedInduction, TLAPS

----------------------------------------------------------------------------
(* Numbers. *)

LEMMA LeastOf ==
  ASSUME NEW N \in SUBSET Nat, N # {}
  PROVE  \E n \in N : \A k \in N : n <= k
<1>1. IsWellFoundedOn(OpToRel(<, Nat), Nat)
  BY NatLessThanWellFounded
<1>2. \E x \in N : \A y \in N : ~ (<<y, x>> \in OpToRel(<, Nat))
  BY <1>1, WFMin
<1> DEFINE R == OpToRel(<, Nat)
<1>3. PICK x \in N : \A y \in N : ~ (<<y, x>> \in R)
  BY <1>2
<1>4. \A y \in Nat : y < x => <<y, x>> \in R
  BY DEF OpToRel
<1> HIDE DEF R
<1>5. \A y \in N : ~ (y < x)
  BY <1>3, <1>4
<1> QED BY <1>5

LEMMA GreatestOf ==
  ASSUME NEW N \in SUBSET Nat, N # {}, NEW b \in Nat, \A n \in N : n <= b
  PROVE  \E n \in N : \A k \in N : k <= n
<1> DEFINE M == {b - n : n \in N}
<1>1. M \in SUBSET Nat /\ M # {}
  <2>1. \A n \in N : b - n \in Nat
    OBVIOUS
  <2> QED BY <2>1
<1>2. PICK m \in M : \A k \in M : m <= k
  BY <1>1, LeastOf
<1>3. PICK n \in N : m = b - n
  BY <1>2
<1>4. \A k \in N : b - n <= b - k
  BY <1>2, <1>3
<1> QED BY <1>4

----------------------------------------------------------------------------
(* Graphs. *)

Requests(x) == {requested(x)[i] : i \in DOMAIN requested(x)}
TLAIn(S) == \E t \in S : hasTLA(t)

(* What a program says of a module. *)
LEMMA ProgramType ==
  ASSUME TypeOK, NEW x \in Module
  PROVE  /\ requested(x) \in Seq(Module) /\ Len(requested(x)) \in Nat
         /\ DOMAIN requested(x) = 1 .. Len(requested(x))
         /\ \A i \in 1 .. Len(requested(x)) : requested(x)[i] \in Module
         /\ ~cyclic(x) => requested(x) = <<>> /\ ~hasTLA(x)
         /\ program.entries \subseteq Module
<1> QED BY LenProperties, ElementOfSeq, EsmAssumption DEF requested, TypeOK, cyclic, hasTLA

(* The graph does not change. *)
LEMMA ProgramKept ==
  ASSUME program' = program
  PROVE  /\ \A x : requested(x)' = requested(x) /\ cyclic(x)' = cyclic(x) /\ hasTLA(x)' = hasTLA(x)
         /\ \A x : Graph(x)' = Graph(x) /\ Requests(x)' = Requests(x)
         /\ \A S : TLAIn(S)' = TLAIn(S)
BY DEF requested, cyclic, hasTLA, Graph, Closed, Requests, TLAIn

(* A graph holds the module and what any module of it requests, and no more. *)
LEMMA GraphRules ==
  ASSUME TypeOK, NEW x \in Module
  PROVE  /\ Graph(x) \subseteq Module /\ x \in Graph(x)
         /\ \A y \in Graph(x), r \in Module : r \in Requests(y) => r \in Graph(x)
         /\ \A y \in Graph(x) : Graph(y) \subseteq Graph(x)
         /\ \A S \in SUBSET Module : x \in S /\ Closed(S) => Graph(x) \subseteq S
<1> QED BY DEF Graph, Closed, Requests

(* A graph is the module and the graphs of what it requests. *)
LEMMA GraphParts ==
  ASSUME TypeOK, NEW x \in Module, NEW F \in SUBSET Module, x \in F,
         \A r \in Requests(x) : Graph(r) \subseteq F
  PROVE  Graph(x) \subseteq F
<1> DEFINE S == {x} \cup UNION {Graph(r) : r \in Requests(x)}
<1>1. Requests(x) \subseteq Module
  BY ProgramType DEF Requests
<1>2. ASSUME NEW y \in S, NEW i \in DOMAIN requested(y)
      PROVE  requested(y)[i] \in S
  <2>1. requested(y)[i] \in Module /\ requested(y)[i] \in Requests(y)
    BY ProgramType, <1>1, GraphRules DEF Requests
  <2> QED BY <1>1, <2>1, GraphRules
<1>3. Closed(S)
  BY <1>2 DEF Closed
<1> QED BY <1>3, GraphRules, <1>1

----------------------------------------------------------------------------
(* The stack. *)

Call == [at : {"evaluate", "inner", "body", "completion"}, m : Module, i : Nat,
         todo : Seq(Module), list : SUBSET Module]
Size == Len(calls)

LEMMA CallsType ==
  ASSUME TypeOK
  PROVE  /\ calls \in Seq(Call) /\ Size \in Nat /\ DOMAIN calls = 1 .. Size
         /\ \A j \in 1 .. Size : calls[j] \in Call
         /\ ~Idle => /\ Size > 0 /\ Top = calls[Size] /\ Top \in Call
                     /\ Below \in Seq(Call) /\ Len(Below) = Size - 1
                     /\ \A j \in 1 .. Size - 1 : Below[j] = calls[j]
         /\ Idle <=> Size = 0
<1>1. calls \in Seq(Call)
  BY DEF TypeOK, Call
<1>2. Size \in Nat /\ DOMAIN calls = 1 .. Size
  BY <1>1, LenProperties DEF Size
<1> QED BY <1>1, <1>2, SubSeqProperties, EmptySeq, ElementOfSeq DEF Below, Size, Top, Idle

(* A call is pushed, popped, or goes on. *)
Grows(f) == /\ Size' = Size + 1 /\ f \in Call /\ calls'[Size + 1] = f
            /\ \A j \in 1 .. Size : calls'[j] = calls[j]
Shrinks == /\ Size > 0 /\ Size' = Size - 1
           /\ \A j \in 1 .. Size - 1 : calls'[j] = calls[j]
Turns(f) == /\ Size > 0 /\ Size' = Size /\ f \in Call /\ calls'[Size] = f
            /\ \A j \in 1 .. Size - 1 : calls'[j] = calls[j]
Runs(f, g) == /\ Size > 0 /\ Size' = Size + 1 /\ f \in Call /\ g \in Call
              /\ calls'[Size] = f /\ calls'[Size + 1] = g
              /\ \A j \in 1 .. Size - 1 : calls'[j] = calls[j]
Cuts(k) == /\ k \in 1 .. Size /\ Size' = k - 1
           /\ \A j \in 1 .. k - 1 : calls'[j] = calls[j]

LEMMA Pushes ==
  ASSUME TypeOK, NEW f \in Call, calls' = Append(calls, f)
  PROVE  Grows(f) /\ calls' \in Seq(Call)
<1>1. calls \in Seq(Call)
  BY CallsType
<1> QED BY <1>1, AppendProperties DEF Grows, Size

LEMMA Pops ==
  ASSUME TypeOK, ~Idle, calls' = Below
  PROVE  Shrinks /\ calls' \in Seq(Call)
BY CallsType DEF Shrinks, Size

LEMMA Replaces ==
  ASSUME TypeOK, ~Idle, NEW f \in Call, NEW s, s = Replace(f)
  PROVE  /\ s \in Seq(Call) /\ Len(s) = Size /\ s[Size] = f
         /\ \A j \in 1 .. Size - 1 : s[j] = calls[j]
<1> QED BY CallsType, AppendProperties DEF Replace

LEMMA Turning ==
  ASSUME TypeOK, ~Idle, NEW f \in Call, calls' = Replace(f)
  PROVE  Turns(f) /\ calls' \in Seq(Call)
<1> QED BY Replaces, CallsType DEF Turns, Size

LEMMA Running2 ==
  ASSUME TypeOK, ~Idle, NEW f \in Call, NEW g \in Call, calls' = Append(Replace(f), g)
  PROVE  Runs(f, g) /\ calls' \in Seq(Call)
<1> DEFINE s == Replace(f)
<1>1. Size \in Nat /\ Size > 0
  BY CallsType
<1> HIDE DEF s
<1> QED BY <1>1, AppendProperties, Replaces DEF Runs, Size, s

LEMMA Cutting ==
  ASSUME TypeOK, NEW k \in 1 .. Size, calls' = SubSeq(calls, 1, k - 1)
  PROVE  Cuts(k) /\ calls' \in Seq(Call)
<1>1. calls \in Seq(Call) /\ Size \in Nat
  BY CallsType
<1> QED BY <1>1, SubSeqProperties DEF Cuts, Size

----------------------------------------------------------------------------
(* What calls what. *)

Evaluations == {k \in DOMAIN calls : calls[k].at = "evaluate"}

\* Of what is on the stack, what the evaluate at k has called.
In(j, k) == /\ k \in Evaluations /\ j \in DOMAIN calls /\ k < j
            /\ \A i \in k + 1 .. j : calls[i].at # "evaluate"
Visits(j, k) == In(j, k) /\ calls[j].at = "inner"

\* Whether the function at j may have been called by the one below it.
Follows(j) ==
  \/ /\ calls[j - 1].at = "evaluate" /\ calls[j].at \in {"inner", "body"}
     /\ calls[j].m = calls[j - 1].m /\ (calls[j].at = "inner" <=> cyclic(calls[j].m))
  \/ /\ calls[j - 1].at = "inner" /\ calls[j].at \in {"inner", "body"}
     /\ calls[j - 1].i <= Len(requested(calls[j - 1].m))
     /\ calls[j].m = requested(calls[j - 1].m)[calls[j - 1].i]
     /\ (calls[j].at = "inner" <=> cyclic(calls[j].m))
  \/ /\ calls[j - 1].at = "inner" /\ calls[j].at = "body"
     /\ calls[j - 1].i = Len(requested(calls[j - 1].m)) + 2
     /\ calls[j].m = calls[j - 1].m /\ cyclic(calls[j].m)
  \/ calls[j - 1].at = "completion" /\ calls[j].at = "body" /\ cyclic(calls[j].m)
  \/ calls[j - 1].at = "body" /\ calls[j].at = "evaluate"

ShapedAt(j) ==
  /\ calls[j].at = "completion" => j = 1
  /\ j = 1 => calls[j].at \in {"evaluate", "completion"}
  /\ j > 1 => Follows(j)
  /\ j > 1 /\ calls[j].at \in {"inner", "body"} /\ calls[j - 1].at # "completion" =>
       \E k \in Evaluations : In(j, k)
  /\ calls[j].at = "inner" =>
       cyclic(calls[j].m) /\ calls[j].i \in 1 .. Len(requested(calls[j].m)) + 2

\* The stack is one of evaluations and bodies, or of a completion and its body.
Shaped == \A j \in DOMAIN calls : ShapedAt(j)

\* The call on top belongs to an evaluate.
InEvaluation == ~Idle /\ Top.at # "completion" /\ ~Resumed

(* The evaluate that the top of the stack belongs to is the last one. *)
LEMMA Bases ==
  ASSUME TypeOK, Shaped, InEvaluation
  PROVE  /\ Base \in Evaluations /\ Base \in 1 .. Size
         /\ \A j \in Base + 1 .. Size : calls[j].at # "evaluate"
         /\ Base = Size \/ In(Size, Base)
         /\ Top.at = "evaluate" => Base = Size
         /\ Top.at # "evaluate" => In(Size, Base)
         /\ \A k \in Evaluations : k <= Base
<1>1. /\ Size \in Nat /\ Size > 0 /\ DOMAIN calls = 1 .. Size /\ Top = calls[Size]
      /\ Top.at \in {"evaluate", "inner", "body", "completion"}
  BY CallsType DEF InEvaluation, Call
<1> DEFINE P(k) == calls[k].at = "evaluate" /\ \A j \in k + 1 .. Len(calls) : calls[j].at # "evaluate"
<1>2. \E k \in DOMAIN calls : P(k)
  <2>1. CASE Top.at \in {"inner", "body"}
    <3>1. PICK k \in Evaluations : In(Size, k)
      BY <1>1, <2>1 DEF ShapedAt, Shaped, Follows, InEvaluation, Resumed, On, Size
    <3> QED BY <1>1, <3>1 DEF In, Evaluations, Size
  <2> QED BY <1>1, <2>1 DEF InEvaluation, Size
<1>3. Base \in DOMAIN calls /\ P(Base)
  BY <1>2 DEF Base
<1> HIDE DEF P
<1> QED BY <1>1, <1>3 DEF Evaluations, In, P, Size

----------------------------------------------------------------------------
(* What the actions do to the stack and to the records. *)

RecordType ==
  [status : {"linked", "evaluating", "evaluating-async", "evaluated"},
   error : Module \cup {None}, dfsIndex : Nat, dfsAncestorIndex : Nat,
   cycleRoot : Module \cup {None}, asyncEvaluation : BOOLEAN,
   asyncEvaluationOrder : Nat, asyncParentModules : Seq(Module),
   topLevelCapability : {"none", "pending", "fulfilled", "rejected"},
   pendingAsyncDependencies : Nat]
Typed == records' \in [Module -> RecordType] /\ calls' \in Seq(Call)

Index(x) == records[x].dfsIndex
Low(x) == records[x].dfsAncestorIndex
Order(x) == records[x].asyncEvaluationOrder
Cap(x) == records[x].topLevelCapability
Pending(x) == records[x].pendingAsyncDependencies

SameState == \A x \in Module : /\ records'[x].status = records[x].status
                               /\ records'[x].error = records[x].error
                               /\ records'[x].cycleRoot = records[x].cycleRoot
SameIndex == \A x \in Module : Index(x)' = Index(x) /\ Low(x)' = Low(x)
SameAsync == \A x \in Module : /\ records'[x].asyncEvaluation = records[x].asyncEvaluation
                               /\ Order(x)' = Order(x)
SameWaits == \A x \in Module : /\ records'[x].asyncParentModules = records[x].asyncParentModules
                               /\ Pending(x)' = Pending(x)
SameCaps == \A x \in Module : Cap(x)' = Cap(x)

LEMMA RecordsType ==
  ASSUME TypeOK
  PROVE  /\ records \in [Module -> RecordType]
         /\ \A x \in Module : /\ records[x] \in RecordType
                              /\ Index(x) \in Nat /\ Low(x) \in Nat
                              /\ Order(x) \in Nat /\ Pending(x) \in Nat
                              /\ records[x].asyncParentModules \in Seq(Module)
                              /\ records[x].cycleRoot \in Module \cup {None}
                              /\ records[x].error \in Module \cup {None}
BY DEF TypeOK, RecordType, Index, Low, Order, Pending

LEMMA SameRecords ==
  ASSUME TypeOK, records' = records
  PROVE  /\ records' \in [Module -> RecordType]
         /\ SameState /\ SameIndex /\ SameAsync /\ SameWaits /\ SameCaps
BY RecordsType DEF SameState, SameIndex, SameAsync, SameWaits, SameCaps, Index, Low, Order, Pending, Cap

(* The module a call looks at. *)
LEMMA CalleeType ==
  ASSUME TypeOK, Shaped, Looking
  PROVE  /\ Callee \in Module /\ InEvaluation /\ Size \in Nat /\ Size > 0 /\ Top = calls[Size]
         /\ Top \in Call /\ Top.m \in Module
         /\ Top.at = "evaluate" => Callee = Top.m
         /\ Top.at # "evaluate" => /\ Top.at = "inner" /\ Top.i \in 1 .. Len(requested(Top.m))
                                   /\ Callee = requested(Top.m)[Top.i] /\ Callee \in Requests(Top.m)
<1>1. Size \in Nat /\ Size > 0 /\ Top = calls[Size] /\ Top \in Call /\ ShapedAt(Size)
  BY CallsType DEF Shaped, Looking, On
<1> QED BY <1>1, ProgramType DEF Callee, Requests, Looking, On, ShapedAt, InEvaluation, Resumed, Call

LEMMA evaluateFacts ==
  ASSUME TypeOK, Shaped, NEW m \in Module, evaluate(m)
  PROVE  /\ Root(m) \in Module /\ Cap(Root(m)) = "none"
         /\ Grows(Frame("evaluate", Root(m))) /\ Typed
         /\ SameState /\ SameIndex /\ SameAsync /\ SameWaits
         /\ \A x \in Module : Cap(x)' = IF x = Root(m) THEN "pending" ELSE Cap(x)
<1>1. Root(m) \in Module
  BY RecordsType DEF Root
<1>2. Frame("evaluate", Root(m)) \in Call
  BY <1>1 DEF Frame, Call
<1>3. records' = [records EXCEPT ![Root(m)].topLevelCapability = "pending"] /\ Cap(Root(m)) = "none"
  BY DEF evaluate, Cap
<1>4. records' \in [Module -> RecordType]
  <2>1. \A r \in RecordType : [r EXCEPT !.topLevelCapability = "pending"] \in RecordType
    BY DEF RecordType
  <2> QED BY <1>1, <1>3, <2>1, RecordsType
<1>5. SameState /\ SameIndex /\ SameAsync /\ SameWaits
  BY <1>1, <1>3, RecordsType DEF RecordType, SameState, SameIndex, SameAsync, SameWaits, Index, Low, Order, Pending
<1> QED BY <1>1, <1>3, <1>4, <1>5, RecordsType, <1>2, Pushes DEF Typed, RecordType, Cap, evaluate

LEMMA EnterFacts ==
  ASSUME TypeOK, Shaped, Enter
  PROVE  /\ Looking /\ cyclic(Callee) /\ records[Callee].status = "linked" /\ Typed
         /\ Size' = Size + 1 /\ calls'[Size + 1] = Frame("inner", Callee)
         /\ \A j \in 1 .. Size : j # Base => calls'[j] = calls[j]
         /\ calls'[Base].at = "evaluate" /\ calls'[Base].m = calls[Base].m
         /\ calls'[Base].i = calls[Base].i + 1
         /\ calls'[Base].todo = Append(calls[Base].todo, Callee)
         /\ \A x \in Module :
              /\ records'[x].status = IF x = Callee THEN "evaluating" ELSE records[x].status
              /\ Index(x)' = IF x = Callee THEN calls[Base].i ELSE Index(x)
              /\ Low(x)' = IF x = Callee THEN calls[Base].i ELSE Low(x)
              /\ records'[x].error = records[x].error
              /\ records'[x].cycleRoot = records[x].cycleRoot
         /\ SameAsync /\ SameWaits /\ SameCaps
<1>1. /\ Callee \in Module /\ InEvaluation /\ Size \in Nat /\ Base \in 1 .. Size /\ calls[Base] \in Call
      /\ calls[Base].at = "evaluate"
  BY CalleeType, Bases, CallsType DEF Evaluations, Enter
<1>2. calls[Base].i \in Nat /\ calls[Base].todo \in Seq(Module)
  BY <1>1 DEF Call
<1> DEFINE s == [calls EXCEPT ![Base].i = @ + 1, ![Base].todo = Append(@, Callee)]
           b == [calls[Base] EXCEPT !.i = @ + 1, !.todo = Append(@, Callee)]
           f == Frame("inner", Callee)
<1>3. f \in Call
  BY <1>1 DEF Frame, Call
<1>4. Append(calls[Base].todo, Callee) \in Seq(Module)
  BY <1>1, <1>2, AppendProperties
<1>5. b \in Call
  <2>1. calls[Base].i + 1 \in Nat
    BY <1>2
  <2> QED BY <1>1, <1>4, <2>1 DEF Call
<1>6. s = [calls EXCEPT ![Base] = b]
  BY <1>1
<1>7. calls \in Seq(Call) /\ Base \in 1 .. Len(calls) /\ DOMAIN calls = 1 .. Size
  BY <1>1, CallsType DEF Size
<1>8. s \in Seq(Call) /\ Len(s) = Size
  <2> HIDE DEF b
  <2> QED BY <1>5, <1>6, <1>7, ExceptSeq DEF Size
<1>9. calls' = Append(s, f)
  BY DEF Enter
<1>10. /\ calls' \in Seq(Call) /\ Len(calls') = Size + 1 /\ calls'[Size + 1] = f
       /\ \A j \in 1 .. Size : calls'[j] = s[j]
  <2> HIDE DEF s, f
  <2> QED BY <1>3, <1>8, <1>9, AppendProperties
<1>11. /\ Size' = Size + 1 /\ calls'[Size + 1] = Frame("inner", Callee)
       /\ \A j \in 1 .. Size : j # Base => calls'[j] = calls[j]
       /\ calls'[Base] = b
  <2> HIDE DEF s, b
  <2> QED BY <1>1, <1>10, <1>7, <1>6 DEF Size
<1>12. /\ b.at = "evaluate" /\ b.m = calls[Base].m
       /\ b.i = calls[Base].i + 1
       /\ b.todo = Append(calls[Base].todo, Callee)
  BY <1>1 DEF Call
<1>13. records' = [records EXCEPT ![Callee].status = "evaluating",
                                  ![Callee].dfsIndex = calls[Base].i,
                                  ![Callee].dfsAncestorIndex = calls[Base].i]
  BY DEF Enter
<1>14. records' \in [Module -> RecordType]
  <2>1. \A r \in RecordType, n \in Nat :
          [r EXCEPT !.status = "evaluating", !.dfsIndex = n, !.dfsAncestorIndex = n] \in RecordType
    BY DEF RecordType
  <2> QED BY <1>1, <1>2, <1>13, <2>1, RecordsType
<1>15. \A x \in Module :
         /\ records'[x].status = IF x = Callee THEN "evaluating" ELSE records[x].status
         /\ Index(x)' = IF x = Callee THEN calls[Base].i ELSE Index(x)
         /\ Low(x)' = IF x = Callee THEN calls[Base].i ELSE Low(x)
         /\ records'[x].error = records[x].error
         /\ records'[x].cycleRoot = records[x].cycleRoot
  BY RecordsType, <1>1, <1>13 DEF RecordType, Index, Low
<1>16. SameAsync /\ SameWaits /\ SameCaps
  BY RecordsType, <1>1, <1>13 DEF RecordType, SameAsync, SameWaits, SameCaps, Order, Pending, Cap
<1> HIDE DEF b
<1> QED BY <1>10, <1>11, <1>12, <1>14, <1>15, <1>16 DEF Typed, Enter

----------------------------------------------------------------------------

Members(k) == {calls[k].todo[i] : i \in DOMAIN calls[k].todo}

\* A finished component has a root, which is its own root, and what was
\* evaluated without one has failed.
Rooted ==
  \A x \in Module :
    /\ records[x].status = "evaluating-async" => records[x].cycleRoot # None
    /\ records[x].cycleRoot # None => cyclic(x) /\ records[x].status \in {"evaluating-async", "evaluated"}
    /\ cyclic(x) /\ Evaluated(x) => records[x].cycleRoot # None \/ hasError(x)
    /\ hasError(x) => Evaluated(x)
    /\ records[x].cycleRoot # None =>
         /\ records[records[x].cycleRoot].cycleRoot = records[x].cycleRoot
    /\ ~cyclic(x) => records[x].status \in {"linked", "evaluated"}

LEMMA FrameType ==
  ASSUME NEW at \in {"evaluate", "inner", "body", "completion"}, NEW m \in Module
  PROVE  /\ Frame(at, m) \in Call /\ Frame(at, m).at = at /\ Frame(at, m).m = m
         /\ Frame(at, m).i = 1 /\ Frame(at, m).todo = <<>> /\ Frame(at, m).list = {}
BY DEF Frame, Call

LEMMA CallFields ==
  ASSUME NEW f \in Call
  PROVE  /\ f.at \in {"evaluate", "inner", "body", "completion"} /\ f.m \in Module /\ f.i \in Nat
         /\ f.todo \in Seq(Module) /\ f.list \in SUBSET Module
BY DEF Call

Step(f) == [f EXCEPT !.i = @ + 1]

LEMMA StepType ==
  ASSUME NEW f \in Call
  PROVE  /\ Step(f) \in Call /\ Step(f).at = f.at /\ Step(f).m = f.m /\ Step(f).i = f.i + 1
         /\ Step(f).todo = f.todo /\ Step(f).list = f.list
<1> QED BY CallFields DEF Step, Call

LEMMA EnterSyntheticFacts ==
  ASSUME TypeOK, Shaped, EnterSynthetic
  PROVE  /\ Looking /\ ~cyclic(Callee) /\ ~Evaluated(Callee)
         /\ Grows(Frame("body", Callee)) /\ Typed /\ started' = Append(started, Callee)
         /\ \A x \in Module :
              /\ records'[x].status = IF x = Callee THEN "evaluated" ELSE records[x].status
              /\ records'[x].error = records[x].error
              /\ records'[x].cycleRoot = records[x].cycleRoot
         /\ SameIndex /\ SameAsync /\ SameWaits /\ SameCaps
<1>1. Looking /\ ~cyclic(Callee) /\ ~Evaluated(Callee) /\ Callee \in Module
  BY CalleeType DEF EnterSynthetic
<1>2. Grows(Frame("body", Callee)) /\ calls' \in Seq(Call) /\ started' = Append(started, Callee)
  BY <1>1, FrameType, Pushes DEF EnterSynthetic, Start
<1>3. records' = [records EXCEPT ![Callee].status = "evaluated"]
  BY DEF EnterSynthetic
<1>4. records' \in [Module -> RecordType]
  <2>1. \A r \in RecordType : [r EXCEPT !.status = "evaluated"] \in RecordType
    BY DEF RecordType
  <2> QED BY <1>1, <1>3, <2>1, RecordsType
<1>5. SameIndex /\ SameAsync /\ SameWaits /\ SameCaps
  BY <1>1, <1>3, RecordsType DEF RecordType, SameIndex, SameAsync, SameWaits, SameCaps, Index, Low, Order, Pending,
     Cap
<1> QED BY <1>1, <1>2, <1>4, <1>5, <1>3, RecordsType DEF Typed, RecordType

\* What an exception of the evaluate at the top leaves failed.
Failed == Members(Base) \cup (IF cyclic(calls[Base].m) THEN {} ELSE {calls[Base].m})
            \cup (IF On("body") /\ ~cyclic(Top.m) THEN {Top.m} ELSE {})

LEMMA UnwindFacts ==
  ASSUME TypeOK, Shaped, InEvaluation, NEW e \in Module, Unwind(e)
  PROVE  /\ Cuts(Base) /\ Typed
         /\ \A x \in Module :
              /\ records'[x].status = IF x \in Failed THEN "evaluated" ELSE records[x].status
              /\ records'[x].error = IF x \in Failed THEN e ELSE records[x].error
              /\ records'[x].cycleRoot = records[x].cycleRoot
              /\ Cap(x)' = IF x = calls[Base].m THEN "rejected" ELSE Cap(x)
         /\ SameIndex /\ SameAsync /\ SameWaits
<1>1. Base \in 1 .. Size /\ calls[Base] \in Call /\ calls[Base].m \in Module
  BY Bases, CallsType, CallFields
<1> DEFINE root == calls[Base].m
           settled == [records EXCEPT ![root].topLevelCapability = "rejected"]
<1>2. records' = [m \in Module |-> IF m \in Failed THEN [settled[m] EXCEPT !.error = e, !.status = "evaluated"]
                                                  ELSE settled[m]]
  BY DEF Unwind, Failed, Members
<1>3. calls' = SubSeq(calls, 1, Base - 1)
  BY DEF Unwind
<1>4. settled \in [Module -> RecordType]
  <2>1. \A r \in RecordType : [r EXCEPT !.topLevelCapability = "rejected"] \in RecordType
    BY DEF RecordType
  <2> QED BY <1>1, <2>1, RecordsType
<1>5. \A x \in Module : /\ settled[x].status = records[x].status /\ settled[x].error = records[x].error
                        /\ settled[x].cycleRoot = records[x].cycleRoot
                        /\ settled[x].topLevelCapability = IF x = root THEN "rejected" ELSE Cap(x)
  BY <1>1, RecordsType DEF RecordType, Cap
<1>6. \A x \in Module : /\ settled[x].dfsIndex = Index(x) /\ settled[x].dfsAncestorIndex = Low(x)
                        /\ settled[x].asyncEvaluation = records[x].asyncEvaluation
                        /\ settled[x].asyncEvaluationOrder = Order(x)
                        /\ settled[x].asyncParentModules = records[x].asyncParentModules
                        /\ settled[x].pendingAsyncDependencies = Pending(x)
  BY <1>1, RecordsType DEF RecordType, Index, Low, Order, Pending
<1> HIDE DEF settled
<1>7. records' \in [Module -> RecordType]
  <2>1. \A r \in RecordType : [r EXCEPT !.error = e, !.status = "evaluated"] \in RecordType
    BY DEF RecordType
  <2> QED BY <1>2, <1>4, <2>1
<1>8. \A x \in Module :
        /\ records'[x].status = IF x \in Failed THEN "evaluated" ELSE settled[x].status
        /\ records'[x].error = IF x \in Failed THEN e ELSE settled[x].error
        /\ records'[x].cycleRoot = settled[x].cycleRoot
        /\ Cap(x)' = settled[x].topLevelCapability
  BY <1>2, <1>4 DEF RecordType, Cap
<1>9. \A x \in Module :
        /\ records'[x].dfsIndex = settled[x].dfsIndex
        /\ records'[x].dfsAncestorIndex = settled[x].dfsAncestorIndex
        /\ records'[x].asyncEvaluation = settled[x].asyncEvaluation
        /\ records'[x].asyncEvaluationOrder = settled[x].asyncEvaluationOrder
        /\ records'[x].asyncParentModules = settled[x].asyncParentModules
        /\ records'[x].pendingAsyncDependencies = settled[x].pendingAsyncDependencies
  BY <1>2, <1>4 DEF RecordType
<1> QED BY <1>5, <1>7, <1>8, <1>6, <1>9, <1>1, <1>3, Cutting DEF Typed, SameIndex, SameAsync, SameWaits, Index,
     Low, Order, Pending

(* What is looked at again has been evaluated or is in evaluation. *)
LEMMA SeenFacts ==
  ASSUME TypeOK, Shaped, Rooted, Seen
  PROVE  /\ Looking /\ Callee \in Module
         /\ cyclic(Callee) => records[Callee].status \in {"evaluating", "evaluating-async", "evaluated"}
         /\ ~cyclic(Callee) => Evaluated(Callee)
         /\ ErrorOf(Callee) \in Module \cup {None}
         /\ ErrorOf(Callee) = None => ~hasError(Callee) /\ Awaited(Callee) \in Module
         /\ ErrorOf(Callee) = None /\ Top.at = "inner" => ~hasError(Awaited(Callee))
         /\ cyclic(Callee) /\ records[Callee].status # "evaluating" /\ ~hasError(Callee) =>
              records[Callee].cycleRoot # None
<1> QED BY RecordsType, CalleeType DEF Awaited, Rooted, Evaluated, ErrorOf, hasError, Seen, RecordType, On, Looking

LEMMA RethrowFacts ==
  ASSUME TypeOK, Shaped, Rooted, Rethrow
  PROVE  /\ Looking /\ ErrorOf(Callee) \in Module /\ InEvaluation
         /\ Cuts(Base) /\ Typed
         /\ \A x \in Module :
              /\ records'[x].status = IF x \in Failed THEN "evaluated" ELSE records[x].status
              /\ records'[x].error = IF x \in Failed THEN ErrorOf(Callee) ELSE records[x].error
              /\ records'[x].cycleRoot = records[x].cycleRoot
              /\ Cap(x)' = IF x = calls[Base].m THEN "rejected" ELSE Cap(x)
         /\ SameIndex /\ SameAsync /\ SameWaits
<1> QED BY UnwindFacts, SeenFacts, CalleeType DEF Rethrow

LEMMA DependFacts ==
  ASSUME TypeOK, Shaped, Rooted, Depend
  PROVE  LET m == Top.m
             r == Awaited(Callee)
         IN  /\ Looking /\ Top.at = "inner" /\ Seen /\ ErrorOf(Callee) = None
             /\ m \in Module /\ r \in Module /\ ~hasError(r)
             /\ Turns(Step(Top)) /\ Typed
             /\ \A x \in Module :
                  /\ Index(x)' = Index(x)
                  /\ Low(x)' = IF x = m /\ records[r].status = "evaluating" THEN Least(Low(x), Low(r)) ELSE Low(x)
                  /\ Pending(x)' = IF x = m /\ records[r].asyncEvaluation THEN Pending(x) + 1 ELSE Pending(x)
                  /\ records'[x].asyncParentModules =
                       IF x = r /\ records[r].asyncEvaluation THEN Append(records[x].asyncParentModules, m)
                       ELSE records[x].asyncParentModules
             /\ SameState /\ SameAsync /\ SameCaps
<1> DEFINE m == Top.m
           r == Awaited(Callee)
           joined == IF records[r].status = "evaluating"
                     THEN [records EXCEPT ![m].dfsAncestorIndex = Least(@, records[r].dfsAncestorIndex)]
                     ELSE records
<1>1. Looking /\ Top.at = "inner" /\ Seen /\ ErrorOf(Callee) = None /\ r \in Module /\ ~hasError(r)
  BY SeenFacts DEF Depend, On, Seen
<1>2. m \in Module /\ Top \in Call /\ ~Idle
  BY <1>1, CalleeType DEF Looking, On
<1>3. Turns(Step(Top)) /\ calls' \in Seq(Call)
  BY <1>2, Turning, StepType DEF Step, Depend
<1>4. records' = IF records[r].asyncEvaluation
                 THEN [joined EXCEPT ![m].pendingAsyncDependencies = @ + 1,
                                     ![r].asyncParentModules = Append(@, m)]
                 ELSE joined
  BY DEF Depend
<1>5. joined \in [Module -> RecordType]
  <2>1. \A q \in RecordType, n \in Nat : [q EXCEPT !.dfsAncestorIndex = n] \in RecordType
    BY DEF RecordType
  <2> QED BY <1>2, <2>1, RecordsType, <1>1 DEF Low, Least
<1>6. \A x \in Module :
        /\ joined[x].dfsIndex = Index(x)
        /\ joined[x].dfsAncestorIndex =
             IF x = m /\ records[r].status = "evaluating" THEN Least(Low(x), Low(r)) ELSE Low(x)
        /\ joined[x].pendingAsyncDependencies = Pending(x)
        /\ joined[x].asyncParentModules = records[x].asyncParentModules
  BY <1>1, <1>2, RecordsType DEF RecordType, Low, Index, Pending
<1>7. \A x \in Module :
        /\ joined[x].status = records[x].status /\ joined[x].error = records[x].error
        /\ joined[x].cycleRoot = records[x].cycleRoot
        /\ joined[x].asyncEvaluation = records[x].asyncEvaluation
        /\ joined[x].asyncEvaluationOrder = Order(x) /\ joined[x].topLevelCapability = Cap(x)
  BY <1>1, <1>2, RecordsType DEF RecordType, Order, Cap
<1> HIDE DEF m, r, joined
<1> DEFINE last == [joined EXCEPT ![m].pendingAsyncDependencies = @ + 1,
                                  ![r].asyncParentModules = Append(@, m)]
           step == [joined EXCEPT ![m].pendingAsyncDependencies = @ + 1]
<1>8. step \in [Module -> RecordType]
  <2>1. \A q \in RecordType, n \in Nat : [q EXCEPT !.pendingAsyncDependencies = n] \in RecordType
    BY DEF RecordType
  <2> QED BY <1>2, <1>5, <2>1 DEF RecordType
<1>9. last = [step EXCEPT ![r].asyncParentModules = Append(@, m)]
  OBVIOUS
<1>10. last \in [Module -> RecordType]
  <2> HIDE DEF step, last
  <2>1. \A q \in RecordType, s \in Seq(Module) : [q EXCEPT !.asyncParentModules = s] \in RecordType
    BY DEF RecordType
  <2>2. step[r].asyncParentModules \in Seq(Module)
    BY <1>1, <1>8 DEF RecordType, r
  <2> QED BY <1>1, <1>8, <1>9, <2>1, <1>2, <2>2, AppendProperties DEF r, m
<1>11. \A x \in Module :
         /\ last[x].dfsIndex = joined[x].dfsIndex
         /\ last[x].dfsAncestorIndex = joined[x].dfsAncestorIndex
         /\ last[x].pendingAsyncDependencies = IF x = m THEN joined[x].pendingAsyncDependencies + 1
                                               ELSE joined[x].pendingAsyncDependencies
         /\ last[x].asyncParentModules = IF x = r THEN Append(joined[x].asyncParentModules, m)
                                         ELSE joined[x].asyncParentModules
  BY <1>5 DEF RecordType
<1>12. \A x \in Module :
         /\ last[x].status = joined[x].status /\ last[x].error = joined[x].error
         /\ last[x].cycleRoot = joined[x].cycleRoot
         /\ last[x].asyncEvaluation = joined[x].asyncEvaluation
         /\ last[x].asyncEvaluationOrder = joined[x].asyncEvaluationOrder
         /\ last[x].topLevelCapability = joined[x].topLevelCapability
  BY <1>5 DEF RecordType
<1> HIDE DEF last, step
<1>13. \A x \in Module :
         /\ Index(x)' = Index(x)
         /\ Low(x)' = IF x = m /\ records[r].status = "evaluating" THEN Least(Low(x), Low(r)) ELSE Low(x)
         /\ Pending(x)' = IF x = m /\ records[r].asyncEvaluation THEN Pending(x) + 1 ELSE Pending(x)
         /\ records'[x].asyncParentModules =
              IF x = r /\ records[r].asyncEvaluation THEN Append(records[x].asyncParentModules, m)
              ELSE records[x].asyncParentModules
  <2>1. records' = IF records[r].asyncEvaluation THEN last ELSE joined
    BY <1>4 DEF last
  <2> QED BY <1>6, <1>11, <2>1 DEF Index, Low, Pending
<1>14. SameState /\ SameAsync /\ SameCaps
  <2>1. records' = IF records[r].asyncEvaluation THEN last ELSE joined
    BY <1>4 DEF last
  <2> QED BY <1>7, <1>12, <2>1 DEF SameState, SameAsync, SameCaps, Order, Cap
<1> QED BY <1>1, <1>2, <1>3, <1>13, <1>14, <1>4, <1>5, <1>10 DEF Typed, m, r, last

----------------------------------------------------------------------------

LEMMA LookedFacts ==
  ASSUME TypeOK, Looked
  PROVE  /\ ~Idle /\ Size \in Nat /\ Size > 0 /\ Top = calls[Size] /\ Top \in Call
         /\ Top.at = "inner" /\ Top.m \in Module /\ Top.i = Len(requested(Top.m)) + 1
         /\ InEvaluation /\ Frame("body", Top.m) \in Call /\ Step(Top) \in Call
<1> QED BY FrameType, StepType, CallFields, CallsType DEF InEvaluation, Resumed, On, Looked

LEMMA ExecuteFacts ==
  ASSUME TypeOK, Execute
  PROVE  /\ Looked /\ Pending(Top.m) = 0 /\ ~hasTLA(Top.m)
         /\ Runs(Step(Top), Frame("body", Top.m)) /\ Typed /\ started' = Append(started, Top.m)
         /\ SameState /\ SameIndex /\ SameAsync /\ SameWaits /\ SameCaps
<1>1. Pending(Top.m) = 0
  BY LookedFacts, RecordsType DEF Waits, Pending, Execute, Start, Ran, Step
<1> QED BY <1>1, SameRecords, LookedFacts, Running2 DEF Typed, Execute, Start, Ran, Step

LEMMA EvaluateAsyncFacts ==
  ASSUME TypeOK, EvaluateAsync
  PROVE  /\ Looked /\ (Pending(Top.m) > 0 \/ hasTLA(Top.m))
         /\ IF Pending(Top.m) > 0
            THEN Turns(Step(Top)) /\ started' = started
            ELSE Runs(Step(Top), Frame("body", Top.m)) /\ started' = Append(started, Top.m)
         /\ Typed
         /\ \A x \in Module :
              /\ records'[x].asyncEvaluation = (x = Top.m \/ records[x].asyncEvaluation)
              /\ Order(x)' = IF x = Top.m THEN asyncOrder + 1 ELSE Order(x)
         /\ SameState /\ SameIndex /\ SameWaits /\ SameCaps
<1>1. Looked /\ (Pending(Top.m) > 0 \/ hasTLA(Top.m))
  BY DEF EvaluateAsync, Waits, Pending
<1>2. records' = [records EXCEPT ![Top.m].asyncEvaluation = TRUE,
                                 ![Top.m].asyncEvaluationOrder = asyncOrder + 1]
  BY DEF EvaluateAsync
<1>3. Top.m \in Module /\ asyncOrder + 1 \in Nat
  BY <1>1, LookedFacts DEF TypeOK
<1>4. records' \in [Module -> RecordType]
  <2>1. \A r \in RecordType, n \in Nat :
          [r EXCEPT !.asyncEvaluation = TRUE, !.asyncEvaluationOrder = n] \in RecordType
    BY DEF RecordType
  <2> QED BY <1>2, <1>3, <2>1, RecordsType
<1>5. \A x \in Module :
        /\ records'[x].asyncEvaluation = (x = Top.m \/ records[x].asyncEvaluation)
        /\ Order(x)' = IF x = Top.m THEN asyncOrder + 1 ELSE Order(x)
  BY RecordsType, <1>3, <1>2 DEF RecordType, Order
<1>6. SameState /\ SameIndex /\ SameWaits /\ SameCaps
  BY <1>2, <1>3, RecordsType DEF RecordType, SameState, SameIndex, SameWaits, SameCaps, Index, Low, Pending, Cap
<1> QED BY <1>1, <1>4, <1>5, <1>6, LookedFacts, Running2, Turning DEF Typed, EvaluateAsync, Waits, Pending, Ran,
     Step, Start

\* The members of the component that the module on top closes.
Component(i) == {calls[Base].todo[j] : j \in i .. Len(calls[Base].todo)}

(* The root of a component closes it; another module leaves it to the root. *)
LEMMA CloseFacts ==
  ASSUME TypeOK, Shaped, Close, Top.m \in Members(Base)
  PROVE  /\ ~Idle /\ Top.at = "inner" /\ Top.m \in Module /\ Top.i = Len(requested(Top.m)) + 2
         /\ InEvaluation /\ Typed
         /\ Low(Top.m) # Index(Top.m) =>
              /\ Shrinks /\ SameState
         /\ Low(Top.m) = Index(Top.m) =>
              \E p \in 1 .. Len(calls[Base].todo) :
                /\ calls[Base].todo[p] = Top.m
                /\ Base < Size /\ Size' = Size - 1
                /\ \A j \in 1 .. Size - 1 : j # Base => calls'[j] = calls[j]
                /\ calls'[Base].at = "evaluate" /\ calls'[Base].m = calls[Base].m
                /\ calls'[Base].i = calls[Base].i
                /\ Len(calls'[Base].todo) = p - 1
                /\ \A j \in 1 .. p - 1 : calls'[Base].todo[j] = calls[Base].todo[j]
                /\ \A x \in Module :
                     /\ records'[x].status = IF x \in Component(p)
                          THEN IF records[x].asyncEvaluation THEN "evaluating-async" ELSE "evaluated"
                          ELSE records[x].status
                     /\ records'[x].cycleRoot = IF x \in Component(p) THEN Top.m ELSE records[x].cycleRoot
                     /\ records'[x].error = records[x].error
         /\ SameIndex /\ SameAsync /\ SameWaits /\ SameCaps
<1>1. ~Idle /\ Top.at = "inner" /\ Top.i = Len(requested(Top.m)) + 2
  BY DEF Close, On
<1>2. InEvaluation /\ Size \in Nat /\ Size > 0 /\ Top = calls[Size] /\ Top \in Call
  BY <1>1, CallsType DEF InEvaluation, Resumed, On
<1>3. Top.m \in Module
  BY <1>2, CallFields
<1>4. Base \in 1 .. Size /\ Base < Size /\ calls[Base] \in Call /\ calls[Base].at = "evaluate"
  BY <1>1, <1>2, Bases, CallsType DEF In, Evaluations
<1>5. Low(Top.m) = records[Top.m].dfsAncestorIndex /\ Index(Top.m) = records[Top.m].dfsIndex
  BY DEF Low, Index
<1>6. CASE Low(Top.m) # Index(Top.m)
  BY <1>1, <1>2, <1>3, <1>6, Pops, SameRecords, <1>5 DEF Typed, Close
<1>7. CASE Low(Top.m) = Index(Top.m)
  <2> DEFINE todo == calls[Base].todo
             p == CHOOSE i \in DOMAIN todo : todo[i] = Top.m
             t == SubSeq(todo, 1, p - 1)
             b == [calls[Base] EXCEPT !.todo = t]
             s == [Below EXCEPT ![Base].todo = SubSeq(@, 1, p - 1)]
  <2>1. todo \in Seq(Module) /\ DOMAIN todo = 1 .. Len(todo) /\ Len(todo) \in Nat
    BY <1>4, CallFields, LenProperties
  <2>2. p \in 1 .. Len(todo) /\ todo[p] = Top.m
    BY <2>1 DEF Members
  <2>3. /\ records' = [c \in Module |->
                         IF c \in Component(p)
                         THEN [records[c] EXCEPT
                                 !.status = IF records[c].asyncEvaluation
                                            THEN "evaluating-async" ELSE "evaluated",
                                 !.cycleRoot = Top.m]
                         ELSE records[c]]
        /\ calls' = s
    BY <1>5, <1>7 DEF Close, Component
  <2>4. t \in Seq(Module) /\ Len(t) = p - 1 /\ \A j \in 1 .. p - 1 : t[j] = todo[j]
    <3> HIDE DEF todo, p
    <3> QED BY SubSeqProperties, <2>1, <2>2, ElementOfSeq
  <2> HIDE DEF p, t
  <2>5. b \in Call /\ b.at = "evaluate" /\ b.m = calls[Base].m /\ b.i = calls[Base].i /\ b.todo = t
    BY <1>4, <2>4 DEF Call
  <2>6. s = [Below EXCEPT ![Base] = b]
    BY <1>2, <1>4, LenProperties, <1>1, CallsType DEF t
  <2>7. s \in Seq(Call) /\ Len(s) = Size - 1 /\ s[Base] = b
        /\ \A j \in 1 .. Size - 1 : j # Base => s[j] = calls[j]
    <3> HIDE DEF b, s
    <3> QED BY <1>1, <2>6, CallsType, <2>5, ExceptSeq, <1>2, <1>4, LenProperties
  <2> HIDE DEF s, b
  <2>8. records' \in [Module -> RecordType]
    <3>1. \A r \in RecordType, st \in {"evaluating-async", "evaluated"}, m \in Module :
            [r EXCEPT !.status = st, !.cycleRoot = m] \in RecordType
      BY DEF RecordType
    <3> QED BY <1>3, <2>3, <3>1, RecordsType
  <2>9. \A x \in Module :
          /\ records'[x].status = IF x \in Component(p)
               THEN IF records[x].asyncEvaluation THEN "evaluating-async" ELSE "evaluated"
               ELSE records[x].status
          /\ records'[x].cycleRoot = IF x \in Component(p) THEN Top.m ELSE records[x].cycleRoot
          /\ records'[x].error = records[x].error
    BY <2>3, RecordsType DEF RecordType
  <2>10. SameIndex /\ SameAsync /\ SameWaits /\ SameCaps
    BY <2>3, RecordsType DEF RecordType, SameIndex, SameAsync, SameWaits, SameCaps, Index, Low, Order, Pending, Cap
  <2>11. Size' = Size - 1 /\ calls' \in Seq(Call)
    BY <2>3, <2>7 DEF Size
  <2>12. Low(Top.m) = Index(Top.m) =>
              \E q \in 1 .. Len(calls[Base].todo) :
                /\ calls[Base].todo[q] = Top.m
                /\ Base < Size /\ Size' = Size - 1
                /\ \A j \in 1 .. Size - 1 : j # Base => calls'[j] = calls[j]
                /\ calls'[Base].at = "evaluate" /\ calls'[Base].m = calls[Base].m
                /\ calls'[Base].i = calls[Base].i
                /\ Len(calls'[Base].todo) = q - 1
                /\ \A j \in 1 .. q - 1 : calls'[Base].todo[j] = calls[Base].todo[j]
                /\ \A x \in Module :
                     /\ records'[x].status = IF x \in Component(q)
                          THEN IF records[x].asyncEvaluation THEN "evaluating-async" ELSE "evaluated"
                          ELSE records[x].status
                     /\ records'[x].cycleRoot = IF x \in Component(q) THEN Top.m ELSE records[x].cycleRoot
                     /\ records'[x].error = records[x].error
    <3> QED BY <1>4, <2>2, <2>3, <2>4, <2>5, <2>7, <2>9, <2>11
  <2> QED BY <1>1, <1>2, <1>3, <1>7, <2>8, <2>10, <2>11, <2>12 DEF Typed
<1> QED BY <1>6, <1>7

LEMMA ConcludeFacts ==
  ASSUME TypeOK, Shaped, Conclude
  PROVE  /\ On("evaluate") /\ Seen /\ Looking /\ ErrorOf(Top.m) = None /\ Top.m \in Module /\ Callee = Top.m
         /\ Shrinks /\ Typed
         /\ SameState /\ SameIndex /\ SameAsync /\ SameWaits
         /\ \A x \in Module : Cap(x)' =
              IF x = Top.m /\ ~(cyclic(x) /\ records[x].asyncEvaluation) THEN "fulfilled" ELSE Cap(x)
<1>1. Top.m \in Module
  BY CalleeType DEF Conclude, On, Seen, Callee
<1> DEFINE v == IF cyclic(Top.m) /\ records[Top.m].asyncEvaluation THEN Cap(Top.m) ELSE "fulfilled"
<1>2. records' = [records EXCEPT ![Top.m].topLevelCapability = v]
  BY <1>1, RecordsType DEF Conclude, Cap
<1>3. v \in {"none", "pending", "fulfilled", "rejected"}
  BY <1>1, RecordsType DEF Cap, RecordType
<1> HIDE DEF v
<1>4. records' \in [Module -> RecordType]
  <2>1. \A r \in RecordType, c \in {"none", "pending", "fulfilled", "rejected"} :
          [r EXCEPT !.topLevelCapability = c] \in RecordType
    BY DEF RecordType
  <2> QED BY <1>1, <1>2, <1>3, <2>1, RecordsType
<1>5. SameState /\ SameIndex /\ SameAsync /\ SameWaits
  BY <1>1, <1>2, RecordsType DEF RecordType, SameState, SameIndex, SameAsync, SameWaits, Index, Low, Order, Pending
<1>6. \A x \in Module : Cap(x)' = IF x = Top.m THEN v ELSE Cap(x)
  BY <1>1, <1>2, RecordsType DEF RecordType, Cap
<1> QED BY <1>1, <1>4, <1>5, <1>6, Pops DEF Typed, v, Conclude, On, Seen, Callee

----------------------------------------------------------------------------

(* A body is on top of what called it. *)
LEMMA BodyFacts ==
  ASSUME TypeOK, Shaped, On("body")
  PROVE  /\ ~Idle /\ Size \in Nat /\ Size > 1 /\ Top = calls[Size] /\ Top \in Call /\ Top.at = "body" /\ Top.m \in Module
         /\ Resumed => /\ Size = 2 /\ calls[1].at = "completion" /\ cyclic(Top.m)
         /\ ~Resumed => InEvaluation
<1>1. ASSUME Resumed
      PROVE  Size = 2 /\ calls[1].at = "completion" /\ cyclic(Top.m)
  <2>1. calls[Size - 1].at = "completion"
    BY <1>1 DEF Resumed, Size
  <2> QED BY <2>1, CallsType, CallFields DEF ShapedAt, Follows, Shaped, On
<1> QED BY <1>1, CallFields, CallsType DEF InEvaluation, ShapedAt, Shaped, On

\* Of the completion that is alone on the stack, or has one body above it.
LEMMA CompletionFacts ==
  ASSUME TypeOK, Shaped, On("completion")
  PROVE  /\ ~Idle /\ Size = 1 /\ Top = calls[1] /\ Top \in Call /\ Top.at = "completion"
         /\ Top.m \in Module /\ Top.todo \in Seq(Module) /\ Top.list \in SUBSET Module
         /\ Evaluations = {}
<1> QED BY CallFields, CallsType DEF Evaluations, ShapedAt, Shaped, On

LEMMA FulfilledFacts ==
  ASSUME TypeOK, NEW m \in Module, records' = Fulfilled(records, m)
  PROVE  /\ records' \in [Module -> RecordType]
         /\ \A x \in Module :
              /\ records'[x].status = IF x = m THEN "evaluated" ELSE records[x].status
              /\ records'[x].error = records[x].error
              /\ records'[x].cycleRoot = records[x].cycleRoot
              /\ records'[x].asyncEvaluation = (x # m /\ records[x].asyncEvaluation)
              /\ Order(x)' = Order(x)
              /\ Cap(x)' = IF x = m /\ Cap(x) = "pending" THEN "fulfilled" ELSE Cap(x)
         /\ SameIndex /\ SameWaits
<1> DEFINE v == IF Cap(m) = "pending" THEN "fulfilled" ELSE Cap(m)
<1>1. records' = [records EXCEPT ![m].asyncEvaluation = FALSE, ![m].status = "evaluated",
                                 ![m].topLevelCapability = v]
  BY RecordsType DEF Fulfilled, Cap, RecordType
<1>2. v \in {"none", "pending", "fulfilled", "rejected"}
  BY RecordsType DEF Cap, RecordType
<1> HIDE DEF v
<1>3. \A x \in Module : records'[x] =
        IF x = m THEN [records[x] EXCEPT !.asyncEvaluation = FALSE, !.status = "evaluated",
                                         !.topLevelCapability = v]
        ELSE records[x]
  BY <1>1, RecordsType
<1>4. records' \in [Module -> RecordType]
  <2>1. \A x \in Module : records'[x] \in RecordType
    <3> TAKE x \in Module
    <3>1. records[x] \in RecordType
      BY RecordsType
    <3>2. [records[x] EXCEPT !.asyncEvaluation = FALSE, !.status = "evaluated", !.topLevelCapability = v] \in RecordType
      BY <1>2, <3>1 DEF RecordType
    <3> QED BY <1>3, <3>1, <3>2
  <2> QED BY <2>1, <1>1, RecordsType
<1>5. \A x \in Module :
              /\ records'[x].status = IF x = m THEN "evaluated" ELSE records[x].status
              /\ records'[x].error = records[x].error
              /\ records'[x].cycleRoot = records[x].cycleRoot
              /\ Order(x)' = Order(x)
              /\ Cap(x)' = IF x = m THEN v ELSE Cap(x)
  <2>1. \A x \in Module : x # m => records'[x] = records[x]
    BY <1>3
  <2>2. records'[m] = [records[m] EXCEPT !.asyncEvaluation = FALSE, !.status = "evaluated",
                                         !.topLevelCapability = v]
    BY <1>3
  <2>3. /\ records'[m].status = "evaluated" /\ records'[m].error = records[m].error
        /\ records'[m].cycleRoot = records[m].cycleRoot
        /\ records'[m].asyncEvaluationOrder = records[m].asyncEvaluationOrder
        /\ records'[m].topLevelCapability = v
    BY <2>2, RecordsType DEF RecordType
  <2> QED BY <2>1, <2>3 DEF Order, Cap
<1>6. \A x \in Module : records'[x].asyncEvaluation = (x # m /\ records[x].asyncEvaluation)
  <2>1. \A x \in Module : x # m => records'[x].asyncEvaluation = records[x].asyncEvaluation
    BY <1>3
  <2>2. records'[m].asyncEvaluation = FALSE
    BY <1>3, RecordsType DEF RecordType
  <2> QED BY <2>1, <2>2, RecordsType DEF RecordType
<1>7. SameIndex /\ SameWaits
  <2>1. \A x \in Module : x # m => records'[x] = records[x]
    BY <1>3
  <2>2. records'[m] = [records[m] EXCEPT !.asyncEvaluation = FALSE, !.status = "evaluated",
                                         !.topLevelCapability = v]
    BY <1>3
  <2>3. /\ records'[m].dfsIndex = records[m].dfsIndex
        /\ records'[m].dfsAncestorIndex = records[m].dfsAncestorIndex
        /\ records'[m].asyncParentModules = records[m].asyncParentModules
        /\ records'[m].pendingAsyncDependencies = records[m].pendingAsyncDependencies
    BY <2>2, RecordsType DEF RecordType
  <2> QED BY <2>1, <2>3 DEF SameIndex, SameWaits, Index, Low, Pending
<1> QED BY <1>4, <1>5, <1>6, <1>7 DEF v

(* The modules that fail with m. *)
LEMMA DependentRules ==
  ASSUME TypeOK, NEW m \in Module
  PROVE  /\ Dependents(m) \subseteq Module
         /\ Evaluated(m) => Dependents(m) = {}
         /\ ~Evaluated(m) => m \in Dependents(m)
         /\ \A x \in Dependents(m) : ~Evaluated(x)
         /\ \A x \in Dependents(m), p \in Module : p \in Parents(x) => Evaluated(p) \/ p \in Dependents(m)
         /\ \A S \in SUBSET Module : m \in S /\ Waiting(S) => Dependents(m) \subseteq S
<1>1. \A x \in Dependents(m) : ~Evaluated(x)
  <2> DEFINE S == {x \in Module : ~Evaluated(x)}
  <2>1. \A x \in S : Parents(x) \subseteq Module
    BY RecordsType, ElementOfSeq, LenProperties DEF Parents
  <2> QED BY <2>1 DEF Dependents, Waiting
<1> QED BY <1>1 DEF Dependents, Waiting

LEMMA RejectedFacts ==
  ASSUME TypeOK, NEW m \in Module, records' = Rejected(m)
  PROVE  /\ records' \in [Module -> RecordType]
         /\ \A x \in Module :
              /\ records'[x].status = IF x \in Dependents(m) THEN "evaluated" ELSE records[x].status
              /\ records'[x].error = IF x \in Dependents(m) THEN m ELSE records[x].error
              /\ records'[x].cycleRoot = records[x].cycleRoot
              /\ Cap(x)' = IF x \in Dependents(m) /\ Cap(x) = "pending" THEN "rejected" ELSE Cap(x)
         /\ SameIndex /\ SameAsync /\ SameWaits
<1> DEFINE v(x) == IF Cap(x) = "pending" THEN "rejected" ELSE Cap(x)
<1>1. \A x \in Module : records'[x] =
        IF x \in Dependents(m)
        THEN [records[x] EXCEPT !.error = m, !.status = "evaluated", !.topLevelCapability = v(x)]
        ELSE records[x]
  BY RecordsType DEF Rejected, Cap, RecordType
<1>2. \A x \in Module : v(x) \in {"none", "pending", "fulfilled", "rejected"}
  BY RecordsType DEF Cap, RecordType
<1>3. records' \in [Module -> RecordType]
  <2> HIDE DEF v
  <2>1. \A x \in Module : records'[x] \in RecordType
    <3> TAKE x \in Module
    <3>1. records[x] \in RecordType /\ v(x) \in {"none", "pending", "fulfilled", "rejected"}
      BY <1>2, RecordsType
    <3>2. CASE x \in Dependents(m)
      <4>1. records'[x] = [records[x] EXCEPT !.error = m, !.status = "evaluated", !.topLevelCapability = v(x)]
        BY <1>1, <3>2
      <4> QED BY <3>1, <4>1 DEF RecordType
    <3>3. CASE x \notin Dependents(m)
      BY <1>1, <3>1, <3>3
    <3> QED BY <3>2, <3>3
  <2>2. records' = [x \in Module |-> records'[x]]
    BY DEF Rejected
  <2> QED BY <2>1, <2>2
<1> HIDE DEF v
<1>4. \A x \in Module :
         /\ records'[x].status = IF x \in Dependents(m) THEN "evaluated" ELSE records[x].status
         /\ records'[x].error = IF x \in Dependents(m) THEN m ELSE records[x].error
         /\ records'[x].cycleRoot = records[x].cycleRoot
         /\ Cap(x)' = IF x \in Dependents(m) THEN v(x) ELSE Cap(x)
  BY <1>1, RecordsType DEF RecordType, Cap
<1>5. SameIndex /\ SameAsync /\ SameWaits
  <2>1. \A x \in Module : x \notin Dependents(m) => records'[x] = records[x]
    BY <1>1
  <2>2. \A x \in Dependents(m) : x \in Module =>
          records'[x] = [records[x] EXCEPT !.error = m, !.status = "evaluated", !.topLevelCapability = v(x)]
    BY <1>1
  <2>3. ASSUME NEW x \in Dependents(m), x \in Module
        PROVE
          /\ records'[x].dfsIndex = records[x].dfsIndex
          /\ records'[x].dfsAncestorIndex = records[x].dfsAncestorIndex
          /\ records'[x].asyncEvaluation = records[x].asyncEvaluation
          /\ records'[x].asyncEvaluationOrder = records[x].asyncEvaluationOrder
          /\ records'[x].asyncParentModules = records[x].asyncParentModules
          /\ records'[x].pendingAsyncDependencies = records[x].pendingAsyncDependencies
    <3>1. records'[x] = [records[x] EXCEPT !.error = m, !.status = "evaluated", !.topLevelCapability = v(x)]
      BY <2>2, <2>3
    <3> QED BY <3>1, <2>3, RecordsType DEF RecordType
  <2> QED BY <2>1, <2>3 DEF SameIndex, SameAsync, SameWaits, Index, Low, Order, Pending
<1> QED BY <1>3, <1>4, <1>5 DEF v

LEMMA ReturnFacts ==
  ASSUME TypeOK, Shaped, BodyReturns
  PROVE  /\ On("body") /\ ~hasTLA(Top.m) /\ finished' = finished \cup {Top.m}
         /\ Shrinks /\ Typed
         /\ IF Resumed THEN records' = Fulfilled(records, Top.m) ELSE records' = records
<1> QED BY BodyFacts, Pops, FulfilledFacts, RecordsType DEF Typed, BodyReturns

LEMMA SuspendFacts ==
  ASSUME TypeOK, Shaped, BodySuspends
  PROVE  /\ On("body") /\ hasTLA(Top.m) /\ suspended' = suspended \cup {Top.m}
         /\ Shrinks /\ Typed /\ records' = records
<1> QED BY RecordsType, BodyFacts, Pops DEF Typed, BodySuspends

LEMMA ThrowFacts ==
  ASSUME TypeOK, Shaped, BodyThrows
  PROVE  /\ On("body") /\ ~hasTLA(Top.m) /\ Top.m \in Module /\ Typed
         /\ IF Resumed THEN records' = Rejected(Top.m) /\ Shrinks ELSE InEvaluation /\ Unwind(Top.m)
<1> QED BY UnwindFacts, BodyFacts, RejectedFacts, Pops DEF BodyThrows, Typed

LEMMA SettledFacts ==
  ASSUME TypeOK, NEW m \in Module, asyncModuleExecutionFulfilled(m)
  PROVE  /\ Idle /\ m \in suspended /\ suspended' = suspended \ {m} /\ finished' = finished \cup {m} /\ Typed
         /\ Evaluated(m) => records' = records /\ calls' = calls
         /\ ~Evaluated(m) =>
              /\ records' = Fulfilled(records, m) /\ Size' = 1
              /\ calls'[1].at = "completion" /\ calls'[1].m = m
              /\ calls'[1].todo = records[m].asyncParentModules /\ calls'[1].list = {}
<1>1. CASE ~Evaluated(m)
  <2> DEFINE t == records[m].asyncParentModules
             f == [Frame("completion", m) EXCEPT !.todo = t]
  <2>1. records' = Fulfilled(records, m) /\ calls' = <<f>>
    BY <1>1 DEF asyncModuleExecutionFulfilled
  <2>2. t \in Seq(Module)
    BY RecordsType
  <2>3. f \in Call /\ f.at = "completion" /\ f.m = m /\ f.todo = t /\ f.list = {}
    <3> HIDE DEF t
    <3> QED BY <2>2 DEF Frame, Call
  <2> HIDE DEF f, t
  <2> QED BY <1>1, <2>1, <2>3, FulfilledFacts DEF t, asyncModuleExecutionFulfilled, Typed, Size
<1> QED BY <1>1, RecordsType, CallsType DEF Typed, asyncModuleExecutionFulfilled

LEMMA GatherFacts ==
  ASSUME TypeOK, Shaped, Gather,
         Head(Top.todo) \notin Top.list /\ records[Head(Top.todo)].cycleRoot # None => Pending(Head(Top.todo)) > 0
  PROVE  LET p == Head(Top.todo)
             R == records[p].cycleRoot
             last == Pending(p) = 1
         IN  /\ On("completion") /\ Top.todo # <<>> /\ p \in Module /\ Typed
             /\ \/ /\ p \notin Top.list /\ R = None
                   /\ Shrinks /\ records' = records /\ abandoned' = TRUE
                \/ /\ p \in Top.list \/ (R \in Module /\ hasError(R))
                   /\ Turns([Top EXCEPT !.todo = Tail(Top.todo)])
                   /\ records' = records /\ abandoned' = abandoned
                \/ /\ p \notin Top.list /\ R \in Module /\ ~hasError(R) /\ abandoned' = abandoned
                   /\ Turns([Top EXCEPT !.todo = IF last THEN Onward(p) \o Tail(Top.todo) ELSE Tail(Top.todo),
                                        !.list = IF last THEN @ \cup {p} ELSE @])
                   /\ \A x \in Module : /\ Pending(x)' = IF x = p THEN Pending(x) - 1 ELSE Pending(x)
                                        /\ records'[x].asyncParentModules = records[x].asyncParentModules
                   /\ SameState /\ SameIndex /\ SameAsync /\ SameCaps
<1> DEFINE p == Head(Top.todo)
           R == records[p].cycleRoot
           rest == Tail(Top.todo)
           last == records[p].pendingAsyncDependencies = 1
           next == [Top EXCEPT !.todo = IF last THEN Onward(p) \o rest ELSE rest,
                               !.list = IF last THEN @ \cup {p} ELSE @]
           skip == [Top EXCEPT !.todo = rest]
<1>1. On("completion") /\ Top.todo # <<>> /\ ~Idle /\ Top \in Call
      /\ Top.todo \in Seq(Module) /\ Top.list \in SUBSET Module
  BY CompletionFacts DEF Gather
<1>2. p \in Module /\ rest \in Seq(Module)
  BY <1>1, HeadTailProperties
<1>3. CASE ~(p \notin Top.list /\ R = None) /\ ~(p \in Top.list \/ hasError(R))
  <2>1. abandoned' = abandoned /\ calls' = Replace(next)
        /\ records' = [records EXCEPT ![p].pendingAsyncDependencies = @ - 1]
    BY <1>3 DEF Gather
  <2>2. R \in Module /\ p \notin Top.list /\ ~hasError(R)
    BY <1>2, <1>3, RecordsType
  <2>3. Pending(p) \in Nat /\ Pending(p) > 0
    BY <1>2, <2>2, RecordsType, EsmAssumption
  <2>4. Turns(next) /\ calls' \in Seq(Call)
    BY <1>1, <2>1, Turning, <1>2, RecordsType, ConcatProperties, EmptySeq DEF Call, Onward
  <2>5. records' \in [Module -> RecordType]
    <3>1. \A q \in RecordType, n \in Nat : [q EXCEPT !.pendingAsyncDependencies = n] \in RecordType
      BY DEF RecordType
    <3>2. records[p].pendingAsyncDependencies - 1 \in Nat
      BY <2>3 DEF Pending
    <3> QED BY <1>2, <2>1, <3>1, <3>2, RecordsType
  <2>6. \A x \in Module : /\ Pending(x)' = IF x = p THEN Pending(x) - 1 ELSE Pending(x)
                          /\ records'[x].asyncParentModules = records[x].asyncParentModules
    BY <1>2, <2>1, RecordsType DEF RecordType, Pending
  <2>7. SameState /\ SameIndex /\ SameAsync /\ SameCaps
    BY <1>2, <2>1, RecordsType DEF RecordType, SameState, SameIndex, SameAsync, SameCaps, Index, Low, Order, Cap
  <2>8. Turns([Top EXCEPT !.todo = IF Pending(p) = 1 THEN Onward(p) \o Tail(Top.todo) ELSE Tail(Top.todo),
                          !.list = IF Pending(p) = 1 THEN @ \cup {p} ELSE @])
    BY <2>4 DEF Pending
  <2> QED BY <1>1, <1>2, <2>1, <2>2, <2>4, <2>5, <2>6, <2>7, <2>8 DEF Typed
<1> QED BY <1>3, <1>1, <1>2, RecordsType, Turning, Pops DEF Typed, Call, Gather

(* The first of those gathered, which is the one that began to wait first. *)
LEMMA FirstFacts ==
  ASSUME TypeOK, Shaped, On("completion"), Top.list # {}
  PROVE  /\ First \in Top.list /\ First \in Module
         /\ \A q \in Top.list : Order(First) <= Order(q)
<1>1. Top.list \in SUBSET Module
  BY CompletionFacts
<1> DEFINE N == {Order(q) : q \in Top.list}
<1>2. N \subseteq Nat /\ N # {}
  BY <1>1, RecordsType
<1>3. \E n \in N : \A k \in N : n <= k
  <2> HIDE DEF N
  <2> QED BY <1>2, LeastOf
<1> QED BY <1>1, <1>3 DEF First, Order

LEMMA RunGatheredFacts ==
  ASSUME TypeOK, Shaped, ExecuteGathered
  PROVE  /\ On("completion") /\ Top.todo = <<>> /\ Top.list # {} /\ First \in Module /\ ~Evaluated(First)
         /\ Runs(Left, Frame("body", First)) /\ Typed /\ started' = Append(started, First)
         /\ records' = records /\ Left.at = "completion" /\ Left.m = Top.m /\ Left.todo = <<>>
         /\ Left.list = Top.list \ {First}
<1>1. Left \in Call /\ Left.at = Top.at /\ Left.m = Top.m /\ Left.todo = Top.todo /\ Left.list = Top.list \ {First}
  BY CompletionFacts, FirstFacts DEF Left, Call, ExecuteGathered, Gathered, Start
<1> QED BY <1>1, RecordsType, FrameType, Running2, CompletionFacts, FirstFacts DEF Typed, On, ExecuteGathered,
     Gathered, Start

LEMMA SkipFacts ==
  ASSUME TypeOK, Shaped, SkipGathered
  PROVE  /\ On("completion") /\ Top.todo = <<>> /\ Top.list # {} /\ First \in Module /\ Evaluated(First)
         /\ Turns(Left) /\ Typed
         /\ records' = records /\ Left.at = "completion" /\ Left.m = Top.m /\ Left.todo = <<>>
         /\ Left.list = Top.list \ {First}
<1> QED BY RecordsType, Turning, CompletionFacts, FirstFacts DEF Typed, On, SkipGathered, Gathered, Left, Call

LEMMA CompletedFacts ==
  ASSUME TypeOK, Shaped, Completed
  PROVE  /\ On("completion") /\ Top.todo = <<>> /\ Top.list = {}
         /\ Shrinks /\ Typed /\ records' = records
<1> QED BY RecordsType, Pops DEF Typed, On, Completed, Gathered

----------------------------------------------------------------------------
(* The shape of the stack. *)

\* The first q calls are the same functions of the same modules, and only the
\* last of them may have gone on.
Keeps(q) ==
  /\ q \in Nat /\ q <= Size /\ q <= Size'
  /\ \A j \in 1 .. q : calls'[j].at = calls[j].at /\ calls'[j].m = calls[j].m
  /\ \A j \in 1 .. q : j < q /\ calls[j].at = "inner" => calls'[j].i = calls[j].i

LEMMA Prefix ==
  ASSUME TypeOK, calls' \in Seq(Call), NEW q, Keeps(q)
  PROVE  /\ Size \in Nat /\ Size' \in Nat /\ DOMAIN calls = 1 .. Size /\ DOMAIN calls' = 1 .. Size'
         /\ \A j \in 1 .. q : \A k : In(j, k)' <=> In(j, k)
         /\ \A j \in 1 .. q : \A k : Visits(j, k)' <=> Visits(j, k)
         /\ \A k \in 1 .. q : k \in Evaluations' <=> k \in Evaluations
<1>1. Size \in Nat /\ Size' \in Nat /\ DOMAIN calls = 1 .. Size /\ DOMAIN calls' = 1 .. Size'
  BY CallsType, LenProperties DEF Size
<1> QED BY <1>1 DEF Visits, Keeps, Evaluations, In

(* The stack keeps its shape when the last call that stays stays in its range *)
(* and a call that is pushed is one it makes.                                 *)
LEMMA ShapedStep ==
  ASSUME TypeOK, Shaped, program' = program, calls' \in Seq(Call), NEW q, Keeps(q),
         Size' = q \/ Size' = q + 1,
         q > 0 /\ calls[q].at = "inner" => calls'[q].i \in 1 .. Len(requested(calls[q].m)) + 2,
         Size' = q + 1 =>
           /\ q = 0 => calls'[q + 1].at \in {"evaluate", "completion"}
           /\ q > 0 => Follows(q + 1)' /\ calls'[q + 1].at # "completion"
           /\ calls'[q + 1].at = "inner" => cyclic(calls'[q + 1].m) /\ calls'[q + 1].i = 1
  PROVE  Shaped'
<1>1. /\ Size \in Nat /\ Size' \in Nat /\ DOMAIN calls = 1 .. Size /\ DOMAIN calls' = 1 .. Size'
      /\ \A j \in 1 .. q : \A k : In(j, k)' <=> In(j, k)
      /\ \A k \in 1 .. q : k \in Evaluations' <=> k \in Evaluations
  BY Prefix
<1>2. /\ \A x : requested(x)' = requested(x) /\ cyclic(x)' = cyclic(x)
      /\ q \in Nat /\ q <= Size
  BY ProgramKept DEF Keeps
<1>3. ASSUME NEW j \in 1 .. q
      PROVE  ShapedAt(j)'
  <2>1. ShapedAt(j) /\ calls'[j].at = calls[j].at /\ calls'[j].m = calls[j].m
    BY <1>1, <1>2 DEF Shaped, Keeps
  <2>2. j > 1 => /\ calls'[j - 1].at = calls[j - 1].at /\ calls'[j - 1].m = calls[j - 1].m
                 /\ calls[j - 1].at = "inner" => calls'[j - 1].i = calls[j - 1].i
    BY <1>2 DEF Keeps
  <2>3. j > 1 => Follows(j)'
    <3> SUFFICES ASSUME j > 1 PROVE Follows(j)'
      OBVIOUS
    <3>1. Follows(j)
      BY <2>1 DEF ShapedAt
    <3> QED BY <1>2, <2>1, <2>2, <3>1 DEF Follows
  <2>4. calls[j].at = "inner" => calls'[j].i \in 1 .. Len(requested(calls[j].m)) + 2
    BY <1>2, <2>1 DEF ShapedAt, Keeps
  <2>5. j > 1 /\ calls[j].at \in {"inner", "body"} /\ calls[j - 1].at # "completion" =>
          \E k \in Evaluations' : In(j, k)'
    <3> SUFFICES ASSUME j > 1 /\ calls[j].at \in {"inner", "body"} /\ calls[j - 1].at # "completion"
                 PROVE  \E k \in Evaluations' : In(j, k)'
      OBVIOUS
    <3>1. PICK k \in Evaluations : In(j, k)
      BY <2>1 DEF ShapedAt
    <3>2. In(j, k)'
      BY <1>1, <3>1
    <3> QED BY <3>2 DEF In
  <2> QED BY <1>2, <2>1, <2>2, <2>3, <2>4, <2>5 DEF ShapedAt
<1>4. ASSUME Size' = q + 1
      PROVE  ShapedAt(q + 1)'
  <2> DEFINE n == q + 1
  <2>1. CASE q = 0
    BY <1>2, <1>4, <2>1 DEF ShapedAt
  <2>2. CASE q > 0
    <3>1. Follows(n)' /\ calls'[n].at # "completion" /\ n > 1 /\ n - 1 = q
      BY <1>2, <1>4, <2>2
    <3>2. ASSUME calls'[n].at \in {"inner", "body"}, calls'[q].at # "completion"
          PROVE  \E k \in Evaluations' : In(n, k)'
      <4>1. calls'[q].at = calls[q].at /\ calls[q].at \in {"evaluate", "inner"} /\ ShapedAt(q)
        <5>1. calls'[q].at \in {"evaluate", "inner"}
          BY <3>1, <3>2 DEF Follows
        <5> QED BY <1>1, <1>2, <2>2, <5>1 DEF Keeps, Shaped
      <4>2. CASE calls[q].at = "evaluate"
        <5>1. q \in Evaluations' /\ In(n, q)'
          BY <1>1, <1>2, <1>4, <2>2, <3>2, <4>1, <4>2 DEF In, Evaluations
        <5> QED BY <5>1
      <4>3. CASE calls[q].at = "inner"
        <5>1. q > 1 /\ calls[q - 1].at # "completion"
          BY <1>2, <2>2, <4>1, <4>3 DEF ShapedAt, Follows
        <5>2. PICK k \in Evaluations : In(q, k)
          BY <4>1, <4>3, <5>1 DEF ShapedAt
        <5>3. In(q, k)'
          BY <1>1, <1>2, <2>2, <5>2
        <5>4. k \in Evaluations' /\ k < n /\ \A i \in k + 1 .. n : calls'[i].at # "evaluate"
          <6>1. k \in Evaluations' /\ k \in Nat /\ k < q /\ \A i \in k + 1 .. q : calls'[i].at # "evaluate"
            BY <1>1, <5>3 DEF In, Evaluations
          <6> QED BY <1>2, <3>2, <6>1
        <5>5. In(n, k)'
          BY <1>1, <1>2, <1>4, <2>2, <5>4 DEF In
        <5> QED BY <5>4, <5>5
      <4> QED BY <4>1, <4>2, <4>3
    <3>3. ASSUME calls'[n].at = "inner"
          PROVE  (cyclic(calls[n].m))' /\ (calls[n].i \in 1 .. Len(requested(calls[n].m)) + 2)'
      <4>1. calls'[n].m \in Module
        BY <1>1, <1>2, <1>4, ElementOfSeq, CallFields DEF Size
      <4>2. Len(requested(calls'[n].m)) \in Nat
        BY <4>1, ProgramType
      <4>3. cyclic(calls'[n].m) /\ calls'[n].i = 1
        BY <1>2, <1>4, <3>3
      <4> QED BY <1>2, <4>2, <4>3
    <3>4. ShapedAt(n)'
      <4> HIDE DEF n
      <4> QED BY <3>1, <3>2, <3>3 DEF ShapedAt
    <3> QED BY <3>4
  <2> QED BY <1>2, <2>1, <2>2
<1> QED BY <1>1, <1>2, <1>3, <1>4 DEF Shaped

----------------------------------------------------------------------------

(* What the operations on the stack leave. *)
LEMMA KeepsRules ==
  ASSUME TypeOK
  PROVE  /\ \A f : Grows(f) => Keeps(Size) /\ Size' = Size + 1
         /\ Shrinks => Keeps(Size - 1) /\ Size' = Size - 1
         /\ \A f : Turns(f) /\ f.at = Top.at /\ f.m = Top.m => Keeps(Size) /\ Size' = Size
         /\ \A f, g : Runs(f, g) /\ f.at = Top.at /\ f.m = Top.m => Keeps(Size) /\ Size' = Size + 1
         /\ \A k : Cuts(k) => Keeps(k - 1) /\ Size' = k - 1
<1>1. Size \in Nat /\ (Size > 0 => Top = calls[Size])
  BY CallsType
<1> QED BY <1>1 DEF Cuts, Keeps, Runs, Turns, Shrinks, Grows

\* Pending dependencies of what a completion counts down for.
Countable == On("completion") /\ Top.todo # <<>> => Pending(Head(Top.todo)) > 0

(* program does not change *)
LEMMA ProgramStays ==
  ASSUME [Next]_vars
  PROVE  program' = program
BY DEF Next, vars, Import, requireModule, evaluate, Settles, asyncModuleExecutionFulfilled,
   asyncModuleExecutionRejected, Runtime, Ends, history, Enter, EnterSynthetic, Rethrow, Depend, Execute,
   EvaluateAsync, Close, Conclude, Gather, ExecuteGathered, SkipGathered, Completed,
   BodyReturns, BodySuspends, BodyThrows

(* The last call of a shaped stack, and what it may have been called by. *)
LEMMA LastShape ==
  ASSUME TypeOK, Shaped, NEW q \in 1 .. Size
  PROVE  /\ calls[q] \in Call /\ calls[q].m \in Module
         /\ calls[q].at = "inner" => /\ cyclic(calls[q].m) /\ Len(requested(calls[q].m)) \in Nat
                                     /\ calls[q].i \in 1 .. Len(requested(calls[q].m)) + 2
         /\ calls[q].at = "completion" => q = 1
BY CallsType, CallFields, ProgramType DEF Shaped, ShapedAt

(* Removing calls keeps the shape. *)
LEMMA ShapedShorter ==
  ASSUME TypeOK, Shaped, program' = program, calls' \in Seq(Call), NEW q, Keeps(q), Size' = q,
         q > 0 /\ calls[q].at = "inner" => calls'[q].i = calls[q].i
  PROVE  Shaped'
<1>1. q \in Nat /\ q <= Size /\ Size \in Nat /\ Size' # q + 1
  BY CallsType DEF Keeps
<1> QED BY <1>1, ShapedStep, LastShape

(* Every step keeps the shape of the stack. *)
LEMMA ShapedEvaluate ==
  ASSUME TypeOK, Shaped, program' = program, NEW m \in Module, evaluate(m), Idle \/ On("body")
  PROVE  Shaped'
<1>1. PICK q \in Nat : q = Size
  BY CallsType
<1>2. Keeps(Size) /\ Size' = Size + 1 /\ calls'[Size + 1] = Frame("evaluate", Root(m)) /\ Size \in Nat
      /\ \A j \in 1 .. Size : calls'[j] = calls[j]
  BY <1>1, KeepsRules, CallsType, evaluateFacts DEF Grows, Typed
<1>3. Size > 0 => Follows(q + 1)'
  BY <1>1, <1>2, CallsType, FrameType, evaluateFacts DEF Follows, On, Typed
<1>4. Size > 0 /\ calls[Size].at = "inner" => calls'[Size].i \in 1 .. Len(requested(calls[Size].m)) + 2
  BY <1>1, <1>2, LastShape
<1> QED BY <1>1, <1>2, <1>3, <1>4, ShapedStep, evaluateFacts, FrameType DEF Keeps, Typed

LEMMA ShapedEnter ==
  ASSUME TypeOK, Shaped, program' = program, Enter
  PROVE  Shaped' /\ Keeps(Size)
<1>1. PICK q \in Nat : q = Size
  BY CallsType
<1>2. /\ Looking /\ cyclic(Callee) /\ records[Callee].status = "linked" /\ Typed
      /\ Size' = Size + 1 /\ calls'[Size + 1] = Frame("inner", Callee)
      /\ \A j \in 1 .. Size : j # Base => calls'[j] = calls[j]
      /\ calls'[Base].at = "evaluate" /\ calls'[Base].m = calls[Base].m
  BY EnterFacts
<1>3. /\ Callee \in Module /\ InEvaluation /\ Size \in Nat /\ Size > 0 /\ Top = calls[Size] /\ Top.m \in Module
      /\ Top.at = "evaluate" => Callee = Top.m
      /\ Top.at # "evaluate" => /\ Top.at = "inner" /\ Top.i \in 1 .. Len(requested(Top.m))
                                /\ Callee = requested(Top.m)[Top.i]
  BY <1>1, <1>2, CalleeType
<1>4. Keeps(Size)
  BY <1>1, <1>2, <1>3, Bases DEF Keeps, Evaluations, In
<1>5. Follows(q + 1)'
  <2>1. Top.at # "evaluate" => Top.i <= Len(requested(Top.m))
    BY <1>1, <1>3, ProgramType
  <2> QED BY <1>1, <1>3, <2>1, ProgramKept, <1>2, Bases, FrameType DEF Follows, Evaluations, In
<1>6. calls[Size].at = "inner" => calls'[Size].i \in 1 .. Len(requested(calls[Size].m)) + 2
  BY <1>1, <1>3, LastShape, <1>2, Bases DEF Evaluations, In
<1> QED BY <1>1, <1>2, <1>3, <1>4, <1>5, <1>6, ShapedStep, FrameType DEF Typed

LEMMA ShapedSynthetic ==
  ASSUME TypeOK, Shaped, program' = program, EnterSynthetic
  PROVE  Shaped'
<1>1. PICK q \in Nat : q = Size
  BY CallsType
<1>2. Keeps(Size) /\ Size' = Size + 1 /\ calls'[Size] = Top
  BY <1>1, KeepsRules, CalleeType, EnterSyntheticFacts DEF Grows
<1>3. Follows(q + 1)'
  <2>1. Top.at # "evaluate" => Top.i <= Len(requested(Top.m))
    BY <1>1, ProgramType, CalleeType, EnterSyntheticFacts
  <2> QED BY <1>1, <1>2, <2>1, ProgramKept, FrameType, CalleeType, EnterSyntheticFacts DEF Follows, Grows
<1> QED BY <1>1, <1>2, <1>3, ShapedStep, LastShape, FrameType, CalleeType, EnterSyntheticFacts DEF Typed, Grows

(* The body of a module that has looked at all it requests. *)
LEMMA ShapedRuns ==
  ASSUME TypeOK, Shaped, program' = program, calls' \in Seq(Call), Looked,
         Runs(Step(Top), Frame("body", Top.m)) \/ Turns(Step(Top))
  PROVE  Shaped' /\ Keeps(Size)
<1>1. PICK q \in Nat : q = Size
  BY CallsType
<1>2. /\ ~Idle /\ Size \in Nat /\ Size > 0 /\ Top = calls[Size] /\ Top \in Call
      /\ Top.at = "inner" /\ Top.m \in Module /\ Top.i = Len(requested(Top.m)) + 1
  BY LookedFacts
<1>3. Step(Top).at = "inner" /\ Step(Top).m = Top.m /\ Step(Top).i = Len(requested(Top.m)) + 2
      /\ Len(requested(Top.m)) \in Nat /\ cyclic(Top.m)
  BY <1>1, <1>2, StepType, LastShape
<1>4. Keeps(Size) /\ calls'[Size] = Step(Top) /\ (Size' = Size \/ Size' = Size + 1)
  BY <1>1, <1>2, <1>3, KeepsRules DEF Runs, Turns
<1>5. calls'[Size].i \in 1 .. Len(requested(calls[Size].m)) + 2
  BY <1>1, <1>2, <1>3, <1>4
<1>6. ASSUME Size' = Size + 1
      PROVE  Follows(q + 1)' /\ calls'[Size + 1].at = "body"
  <2>1. calls'[Size + 1].at = "body" /\ calls'[Size + 1].m = Top.m
    BY <1>1, <1>2, <1>6, FrameType DEF Runs, Turns
  <2>2. q + 1 - 1 = q
    BY <1>1, <1>2
  <2>3. \A x : requested(x)' = requested(x) /\ cyclic(x)' = cyclic(x)
    BY ProgramKept
  <2>4. (cyclic(calls[q + 1].m))'
    BY <1>1, <1>3, <2>1, <2>3
  <2> QED BY <1>1, <1>2, <1>3, <1>4, <2>1, <2>2, <2>3, <2>4 DEF Follows
<1> QED BY <1>1, <1>2, <1>4, <1>5, <1>6, ShapedStep

LEMMA ShapedDepend ==
  ASSUME TypeOK, Shaped, Rooted, program' = program, Depend
  PROVE  Shaped' /\ Keeps(Size)
<1>1. calls'[Size].i \in 1 .. Len(requested(calls[Size].m)) + 2
  BY KeepsRules, CalleeType, DependFacts, StepType, LastShape DEF Turns
<1> QED BY <1>1, ShapedStep, KeepsRules, CalleeType, DependFacts, StepType, LastShape DEF Typed, Turns

LEMMA ShapedClose ==
  ASSUME TypeOK, Shaped, program' = program, Close, Top.m \in Members(Base)
  PROVE  Shaped' /\ Keeps(Size - 1)
<1>1. Size \in Nat /\ Typed /\ Base \in 1 .. Size /\ calls[Base].at = "evaluate" /\ Size > 0
  BY CloseFacts, Bases, CallsType DEF Evaluations
<1>2. CASE Low(Top.m) # Index(Top.m)
  <2>1. Shrinks
    BY <1>2, CloseFacts
  <2>2. Keeps(Size - 1) /\ Size' = Size - 1
    BY <2>1, KeepsRules
  <2>3. Size - 1 > 0 => calls'[Size - 1].i = calls[Size - 1].i
    BY <1>1, <2>1 DEF Shrinks
  <2> QED BY <1>1, <2>2, <2>3, ShapedShorter DEF Typed
<1>3. CASE Low(Top.m) = Index(Top.m)
  <2>1. /\ Base < Size /\ Size' = Size - 1
        /\ \A j \in 1 .. Size - 1 : j # Base => calls'[j] = calls[j]
        /\ calls'[Base].at = "evaluate" /\ calls'[Base].m = calls[Base].m
    BY <1>3, CloseFacts
  <2>2. Keeps(Size - 1)
    BY <1>1, <2>1 DEF Keeps
  <2>3. Size - 1 > 0 /\ calls[Size - 1].at = "inner" => calls'[Size - 1].i = calls[Size - 1].i
    BY <1>1, <2>1
  <2> QED BY <1>1, <2>1, <2>2, <2>3, ShapedShorter DEF Typed
<1> QED BY <1>2, <1>3

LEMMA ShapedShrinks ==
  ASSUME TypeOK, Shaped, program' = program, calls' \in Seq(Call), Shrinks \/ \E k \in 1 .. Size : Cuts(k)
  PROVE  Shaped'
<1>1. ASSUME NEW k \in 1 .. Size, Cuts(k)
      PROVE  Shaped'
  <2>1. Keeps(k - 1) /\ Size' = k - 1 /\ (k - 1 > 0 => calls'[k - 1] = calls[k - 1])
    <3>1. Keeps(k - 1) /\ Size' = k - 1
      BY <1>1, KeepsRules
    <3> QED BY <3>1, <1>1, CallsType DEF Cuts
  <2> QED BY <2>1, ShapedShorter
<1> QED BY <1>1, ShapedShorter, KeepsRules, CallsType DEF Shrinks

LEMMA ShapedFulfilled ==
  ASSUME TypeOK, Shaped, program' = program, NEW m \in Module, asyncModuleExecutionFulfilled(m)
  PROVE  Shaped'
<1>1. Size = 0
  BY CallsType, SettledFacts
<1>2. CASE ~Evaluated(m)
  <2>1. Size' = 1 /\ calls'[1].at = "completion"
    BY <1>2, SettledFacts
  <2> QED BY <1>1, <2>1, ShapedStep, SettledFacts DEF Typed, Keeps, Size
<1> QED BY <1>2, <1>1, ShapedShorter, SettledFacts DEF Typed, Keeps, Size

(* The steps of a completion. *)
LEMMA ShapedCompletion ==
  ASSUME TypeOK, Shaped, program' = program, calls' \in Seq(Call), On("completion"), NEW f, f.at = "completion", f.m = Top.m,
         \/ Shrinks
         \/ Turns(f)
         \/ \E x \in Module : cyclic(x) /\ Runs(f, Frame("body", x))
  PROVE  Shaped'
<1>1. ASSUME NEW x \in Module, cyclic(x), Runs(f, Frame("body", x))
      PROVE  Shaped'
  <2>1. Follows(1 + 1)'
    BY <1>1, ProgramKept, FrameType, KeepsRules, CompletionFacts DEF Follows, Runs
  <2> QED BY <2>1, ShapedStep, CompletionFacts, FrameType, <1>1, KeepsRules DEF Runs
<1> QED BY <1>1, ShapedShrinks, ShapedStep, CompletionFacts, KeepsRules

----------------------------------------------------------------------------
(* What one evaluate is evaluating. *)

\* Its modules are on its list in the order of their indices.
Numbered(k) ==
  /\ calls[k].i >= 1
  /\ \A x \in Members(k) : /\ records[x].status = "evaluating" /\ cyclic(x)
                           /\ 1 <= Low(x) /\ Low(x) <= Index(x) /\ Index(x) < calls[k].i
  /\ \A i, j \in DOMAIN calls[k].todo : i < j => Index(calls[k].todo[i]) < Index(calls[k].todo[j])

\* Those it is visiting are on the list.
Visited(k) ==
  /\ \A j : Visits(j, k) => calls[j].m \in Members(k)
  /\ \A i, j : Visits(i, k) /\ Visits(j, k) /\ i < j => Index(calls[i].m) < Index(calls[j].m)

\* Its own module is the first.
FromRoot(k) ==
  /\ records[calls[k].m].status = "linked" => calls[k].i = 1
  /\ Members(k) # {} => calls[k].m \in Members(k) /\ Index(calls[k].m) = 1

\* The visit at j is the last to have begun before x.
Nearest(j, k, x) ==
  /\ Visits(j, k) /\ Index(calls[j].m) <= Index(x)
  /\ \A i : Visits(i, k) /\ j < i => Index(x) < Index(calls[i].m)

\* What the visit at j has yet to learn of x.
Coming(j, k, x) ==
  /\ calls[j].i <= Len(requested(calls[j].m))
  /\ LET c == requested(calls[j].m)[calls[j].i]
     IN  c \in Members(k) /\ Index(calls[j].m) < Index(c) /\ Index(c) <= Index(x) /\ Low(c) <= Low(x)

\* A visit knows the lowest index that what it has left behind can reach.
Lowest(k) ==
  \A x \in Members(k) : \A j :
    Nearest(j, k, x) => calls[j].m = x \/ Low(calls[j].m) <= Low(x) \/ Coming(j, k, x)

\* A module that reaches no lower is still being visited.
Open_(k) == \A x \in Members(k) : Low(x) = Index(x) => \E j : Visits(j, k) /\ calls[j].m = x

\* Modules that no require entered again.
Clean(k, x) == k = 1 \/ Orderly(x)

\* The low index of a module is one it reaches, and so it reaches its visit.
Linked(k) ==
  \A x \in Members(k) : Low(x) < Index(x) /\ Clean(k, x) =>
    \E y \in Members(k) : Index(y) = Low(x) /\ y \in Graph(x)
Reaching(k) ==
  \A x \in Members(k) : \A j :
    Visits(j, k) /\ Clean(k, x) /\ (Index(x) <= Index(calls[j].m) \/ Nearest(j, k, x)) => calls[j].m \in Graph(x)

\* All is in the graph of the module that is evaluated, and what a visit has
\* found is in the graph of its module.
Under(k) ==
  /\ \A x \in Members(k) : x \in Graph(calls[k].m)
  /\ \A j : In(j, k) => calls[j].m \in Graph(calls[k].m)
  /\ \A x \in Members(k) : \A j : Visits(j, k) /\ Index(calls[j].m) <= Index(x) => x \in Graph(calls[j].m)

Tree(k) ==
  /\ Numbered(k) /\ Visited(k) /\ FromRoot(k) /\ Lowest(k) /\ Open_(k)
  /\ Linked(k) /\ Reaching(k) /\ Under(k)

Trees ==
  /\ \A k \in Evaluations : Tree(k)
  /\ \A k, l \in Evaluations : k # l => Members(k) \cap Members(l) = {}
  /\ \A x \in Module : records[x].status = "evaluating" => \E k \in Evaluations : x \in Members(k)

LEMMA MembersType ==
  ASSUME TypeOK, NEW k \in 1 .. Size
  PROVE  /\ calls[k].todo \in Seq(Module) /\ Len(calls[k].todo) \in Nat
         /\ DOMAIN calls[k].todo = 1 .. Len(calls[k].todo)
         /\ Members(k) \subseteq Module
         /\ calls[k].m \in Module
<1> QED BY LenProperties, ElementOfSeq, CallsType, CallFields DEF Members

(* What lies above the last evaluate is its own. *)
LEMMA Regions ==
  ASSUME TypeOK, Shaped, InEvaluation
  PROVE  /\ Base \in Evaluations /\ Base \in 1 .. Size /\ Size \in Nat
         /\ \A k \in Evaluations : k <= Base /\ k \in 1 .. Size
         /\ \A j, k : In(j, k) => j \in 1 .. Size /\ k \in 1 .. Size
         /\ \A j, k : In(j, k) /\ k # Base => j < Base
         /\ \A j \in Base + 1 .. Size : In(j, Base)
<1> QED BY Bases, CallsType DEF In, Evaluations

(* Orderly modules only become fewer, and the graph of one is orderly. *)
LEMMA OrderlyRules ==
  ASSUME TypeOK, program' = program, tangled \subseteq tangled'
  PROVE  /\ \A x \in Module : Orderly(x)' => Orderly(x)
         /\ \A k : \A x \in Module : Clean(k, x)' => Clean(k, x)
         /\ \A x \in Module : Orderly(x) => \A y \in Graph(x) : Orderly(y)
         /\ \A k : \A x \in Module : Clean(k, x) => \A y \in Graph(x) : Clean(k, y)
<1> QED BY GraphRules, ProgramKept DEF Clean, Orderly

\* Nothing of what the evaluate at k is evaluating changes.
Untouched(k) ==
  /\ calls'[k].m = calls[k].m /\ calls'[k].i = calls[k].i /\ calls'[k].todo = calls[k].todo
  /\ \A j : In(j, k)' => In(j, k) \/ (~Visits(j, k)' /\ calls'[j].m \in Graph(calls[k].m))
  /\ \A j : Visits(j, k)' <=> Visits(j, k)
  /\ \A j : In(j, k) /\ In(j, k)' => calls'[j].m = calls[j].m
  /\ \A j : Visits(j, k) => calls'[j].i = calls[j].i \/ calls[j].i > Len(requested(calls[j].m))
  /\ \A x \in Members(k) : Index(x)' = Index(x) /\ Low(x)' = Low(x) /\ records'[x].status = records[x].status
  /\ records'[calls[k].m].status = "linked" => records[calls[k].m].status = "linked"

LEMMA TreeKept ==
  ASSUME TypeOK, program' = program, tangled \subseteq tangled', NEW k \in Evaluations, Tree(k), Untouched(k)
  PROVE  Tree(k)'
<1>1. Members(k)' = Members(k) /\ Members(k) \subseteq Module /\ calls[k].m \in Module
  BY MembersType, CallsType DEF Members, Untouched, Evaluations
<1>2. /\ \A x : requested(x)' = requested(x) /\ cyclic(x)' = cyclic(x) /\ Graph(x)' = Graph(x)
      /\ \A x \in Members(k) : Clean(k, x)' => Clean(k, x)
  BY <1>1, ProgramKept, OrderlyRules
<1>3. \A j : Visits(j, k)' <=> Visits(j, k)
  BY DEF Untouched
<1>4. \A j : Visits(j, k) => /\ calls[j].m \in Members(k) /\ calls'[j].m = calls[j].m
                             /\ Index(calls[j].m)' = Index(calls[j].m)
  BY <1>3 DEF Tree, Visited, Untouched, Visits, Index
<1>5. Numbered(k)'
  BY <1>1, <1>2 DEF Tree, Numbered, Untouched, Members
<1>6. Visited(k)'
  BY <1>1, <1>3, <1>4 DEF Tree, Visited
<1>7. ASSUME NEW x \in Members(k), NEW j, Visits(j, k), Coming(j, k, x)
      PROVE  Coming(j, k, x)'
  <2>1. j \in 1 .. Size /\ calls[j].i \in Nat /\ Len(requested(calls[j].m)) \in Nat
    BY CallsType, CallFields, ProgramType, <1>7 DEF Visits, In
  <2>2. PICK c : c = requested(calls[j].m)[calls[j].i]
    OBVIOUS
  <2> QED BY <1>1, <1>4, <1>7, <1>2, <2>2, <2>1 DEF Coming, Untouched
<1>8. Lowest(k)'
  BY <1>1, <1>7, <1>4, <1>3 DEF Lowest, Untouched, Low, Tree, Nearest
<1>9. Open_(k)'
  BY <1>1, <1>3, <1>4 DEF Tree, Open_, Untouched
<1>10. Linked(k)'
  BY <1>1, <1>2 DEF Tree, Linked, Untouched
<1>11. Reaching(k)'
  BY <1>1, <1>2, <1>4, <1>3 DEF Reaching, Tree, Untouched, Nearest
<1>12. Under(k)'
  BY <1>1, <1>2, <1>3, <1>4 DEF Under, Tree, Untouched
<1> QED BY <1>5, <1>6, <1>8, <1>9, <1>10, <1>11, <1>12, <1>1 DEF Tree, FromRoot, Untouched, Index

----------------------------------------------------------------------------

(* A visit on top is the nearest to all that began after it. *)
LEMMA TopVisit ==
  ASSUME TypeOK, Shaped, Trees, InEvaluation, Top.at = "inner"
  PROVE  /\ Visits(Size, Base) /\ Top = calls[Size] /\ Top.m \in Members(Base) /\ Top.m \in Module
         /\ Base \in Evaluations /\ Tree(Base) /\ Base < Size
         /\ \A i : Visits(i, Base) => i \in Base + 1 .. Size
         /\ \A x \in Members(Base) : Index(Top.m) <= Index(x) => Nearest(Size, Base, x)
         /\ \A x \in Members(Base) : Clean(Base, x) => Top.m \in Graph(x)
<1>1. /\ Base \in Evaluations /\ Base \in 1 .. Size /\ Size \in Nat /\ In(Size, Base) /\ Base < Size /\ Top = calls[Size]
  BY Bases, CallsType DEF InEvaluation, In
<1>2. \A i : Visits(i, Base) => i \in Base + 1 .. Size
  BY <1>1, CallsType DEF Visits, In
<1> QED BY <1>1, <1>2, RecordsType, MembersType DEF Tree, Reaching, Visited, Visits, Trees, Nearest

LEMMA TreesEnter ==
  ASSUME TypeOK, Shaped, Trees, program' = program, tangled' = tangled, Enter
  PROVE  Trees'
<1>1. PICK b \in Nat, c \in Module, n \in Nat, s \in Nat :
        b = Base /\ c = Callee /\ n = calls[Base].i /\ s = Size
  <2>1. Looking
    BY EnterFacts
  <2>2. Callee \in Module /\ Size \in Nat /\ Base \in 1 .. Size
    BY <2>1, CalleeType, Bases
  <2>3. calls[Base] \in Call /\ Base \in Nat
    BY <2>2, CallsType
  <2>4. calls[Base].i \in Nat
    BY <2>3, CallFields
  <2> QED BY <2>2, <2>3, <2>4
<1>2. /\ Looking /\ cyclic(c) /\ records[c].status = "linked" /\ calls' \in Seq(Call)
      /\ Size' = s + 1 /\ calls'[s + 1] = Frame("inner", c)
      /\ \A j \in 1 .. s : j # b => calls'[j] = calls[j]
      /\ calls'[b].at = "evaluate" /\ calls'[b].m = calls[b].m
      /\ calls'[b].i = n + 1 /\ calls'[b].todo = Append(calls[b].todo, c)
      /\ \A x \in Module :
           /\ records'[x].status = IF x = c THEN "evaluating" ELSE records[x].status
           /\ Index(x)' = IF x = c THEN n ELSE Index(x)
           /\ Low(x)' = IF x = c THEN n ELSE Low(x)
  BY <1>1, EnterFacts DEF Typed
<1>3. /\ b \in Evaluations /\ b \in 1 .. s /\ InEvaluation
      /\ \A k \in Evaluations : k <= b /\ k \in 1 .. s
      /\ \A j, k : In(j, k) => j \in 1 .. s /\ k \in 1 .. s
      /\ \A j, k : In(j, k) /\ k # b => j < b
      /\ \A j \in b + 1 .. s : In(j, b)
  BY <1>1, <1>2, CalleeType, Regions
<1>4. /\ Top = calls[s] /\ Top.m \in Module
      /\ Top.at = "evaluate" => c = Top.m /\ s = b
      /\ Top.at # "evaluate" => /\ Top.at = "inner" /\ c \in Requests(Top.m) /\ b < s
  BY <1>1, <1>2, CalleeType, Bases DEF In
<1>5. Keeps(s) /\ DOMAIN calls' = 1 .. s + 1 /\ DOMAIN calls = 1 .. s
  <2>1. Keeps(Size)
    BY ShapedEnter
  <2> QED BY <1>1, <1>2, <2>1, CallsType, LenProperties DEF Size, Keeps
<1>6. /\ \A j \in 1 .. s : \A k : In(j, k)' <=> In(j, k)
      /\ \A j \in 1 .. s : \A k : Visits(j, k)' <=> Visits(j, k)
      /\ \A k \in 1 .. s : k \in Evaluations' <=> k \in Evaluations
  BY <1>2, <1>5, Prefix
<1>7. calls'[s + 1].at = "inner" /\ calls'[s + 1].m = c /\ calls'[s + 1].i = 1
  BY <1>2, FrameType
<1>8. Evaluations' = Evaluations
  BY <1>3, <1>5, <1>6, <1>7 DEF Evaluations
<1>9. /\ \A k : In(s + 1, k)' <=> k = b
      /\ \A k : Visits(s + 1, k)' <=> k = b
  <2>1. \A j \in b + 1 .. s : calls'[j].at # "evaluate"
    BY <1>1, <1>2, <1>3, Bases
  <2>2. In(s + 1, b)'
    BY <1>3, <1>5, <1>7, <1>8, <2>1 DEF In
  <2>3. \A k : In(s + 1, k)' => k = b
    <3> SUFFICES ASSUME NEW k, In(s + 1, k)', k # b PROVE FALSE
      OBVIOUS
    <3>1. k \in Evaluations /\ k < b
      BY <1>3, <1>8 DEF In
    <3>2. b \in k + 1 .. s + 1 /\ calls'[b].at = "evaluate"
      BY <1>2, <1>3, <3>1
    <3> QED BY <3>2 DEF In
  <2> QED BY <1>7, <2>2, <2>3 DEF Visits
<1>10. \A j, k : In(j, k)' => j \in 1 .. s + 1
  BY <1>5 DEF In
<1>11. /\ calls[b].todo \in Seq(Module) /\ Len(calls[b].todo) \in Nat
       /\ DOMAIN calls[b].todo = 1 .. Len(calls[b].todo) /\ Members(b) \subseteq Module
       /\ \A i \in 1 .. Len(calls[b].todo) : calls[b].todo[i] \in Members(b)
       /\ DOMAIN calls'[b].todo = 1 .. Len(calls[b].todo) + 1
       /\ calls'[b].todo[Len(calls[b].todo) + 1] = c
       /\ \A i \in 1 .. Len(calls[b].todo) : calls'[b].todo[i] = calls[b].todo[i]
  <2>1. /\ calls[b].todo \in Seq(Module) /\ Len(calls[b].todo) \in Nat
        /\ DOMAIN calls[b].todo = 1 .. Len(calls[b].todo) /\ Members(b) \subseteq Module
    BY <1>1, <1>3, MembersType
  <2>2. PICK t, u : t = calls[b].todo /\ u = calls'[b].todo
    OBVIOUS
  <2>3. t \in Seq(Module) /\ u = Append(t, c)
    BY <1>2, <2>1, <2>2
  <2>4. /\ u \in Seq(Module) /\ Len(u) = Len(t) + 1 /\ u[Len(t) + 1] = c
        /\ \A i \in 1 .. Len(t) : u[i] = t[i]
    BY <2>3, AppendProperties
  <2>5. DOMAIN u = 1 .. Len(t) + 1
    BY <2>4, LenProperties
  <2>6. \A i \in 1 .. Len(t) : t[i] \in Members(b)
    BY <2>1, <2>2 DEF Members
  <2> QED BY <2>1, <2>2, <2>4, <2>5, <2>6
<1>12. /\ Members(b)' = Members(b) \cup {c} /\ Members(b) \subseteq Module /\ c \notin Members(b)
       /\ \A x \in Members(b) : records[x].status = "evaluating" /\ x # c
  <2>1. \A y : y \in Members(b)' <=> y \in Members(b) \cup {c}
    <3>1. ASSUME NEW y \in Members(b)' PROVE y \in Members(b) \cup {c}
      <4>1. PICK i \in DOMAIN calls'[b].todo : y = calls'[b].todo[i]
        BY <3>1 DEF Members
      <4>2. i = Len(calls[b].todo) + 1 \/ i \in 1 .. Len(calls[b].todo)
        BY <1>11, <4>1
      <4> QED BY <1>11, <4>1, <4>2
    <3>2. ASSUME NEW y \in Members(b) PROVE y \in Members(b)'
      <4>1. PICK i \in 1 .. Len(calls[b].todo) : y = calls[b].todo[i]
        BY <1>11 DEF Members
      <4>2. i \in DOMAIN calls'[b].todo /\ y = calls'[b].todo[i]
        BY <1>11, <4>1
      <4> QED BY <4>2 DEF Members
    <3>3. c \in Members(b)'
      <4>1. Len(calls[b].todo) + 1 \in DOMAIN calls'[b].todo
        BY <1>11
      <4> QED BY <1>11, <4>1 DEF Members
    <3> QED BY <3>1, <3>2, <3>3
  <2> QED BY <1>2, <1>3, <1>11, <2>1 DEF Trees, Tree, Numbered
<1>13. \A k \in Evaluations : k # b => Untouched(k)
  <2> SUFFICES ASSUME NEW k \in Evaluations, k # b PROVE Untouched(k)
    OBVIOUS
  <2>1. calls'[k] = calls[k] /\ k \in 1 .. s
    BY <1>2, <1>3
  <2>2. \A j : In(j, k)' <=> In(j, k)
    BY <1>3, <1>6, <1>9, <1>10
  <2>3. \A j : Visits(j, k)' <=> Visits(j, k)
    BY <1>3, <1>6, <1>9, <1>10 DEF Visits
  <2>4. \A j : In(j, k) => calls'[j] = calls[j]
    BY <1>2, <1>3
  <2>5. \A x \in Members(k) : x \in Module /\ x # c
    BY <1>1, <1>2, <2>1, MembersType DEF Trees, Tree, Numbered
  <2>6. records'[calls[k].m].status = "linked" => records[calls[k].m].status = "linked"
    BY <1>1, <1>2, <2>1, MembersType
  <2> QED BY <1>2, <2>1, <2>2, <2>3, <2>4, <2>5, <2>6 DEF Untouched, Visits
<1>14. \A k \in Evaluations : k # b => Tree(k)' /\ Members(k)' = Members(k)
  BY <1>13, TreeKept DEF Trees, Untouched, Members
<1>15. Tree(b)
  BY <1>3 DEF Trees
<1>16. Top.at = "evaluate" => Members(b) = {} /\ n = 1 /\ calls[b].m = c
  BY <1>1, <1>2, <1>3, <1>4, <1>12, <1>15 DEF Tree, FromRoot
<1>17. Top.at # "evaluate" =>
         /\ Visits(s, b) /\ Top.m \in Members(b) /\ \A x \in Members(b) : Clean(b, x) => Top.m \in Graph(x)
  BY <1>1, <1>3, <1>4, TopVisit
<1>18. /\ \A x : requested(x)' = requested(x) /\ cyclic(x)' = cyclic(x) /\ Graph(x)' = Graph(x)
       /\ \A x \in Module : Clean(b, x)' => Clean(b, x)
  BY ProgramKept, OrderlyRules
<1>19. \A x \in Members(b) : Index(x)' = Index(x) /\ Low(x)' = Low(x) /\ Index(x) < n /\ Index(x) \in Nat /\ Low(x) \in Nat
  BY <1>1, <1>2, <1>12, <1>15, RecordsType DEF Tree, Numbered
<1>20. n >= 1 /\ Index(c)' = n /\ Low(c)' = n
  BY <1>1, <1>2, <1>15 DEF Tree, Numbered
<1>21. \A j : Visits(j, b) => /\ j \in 1 .. s /\ j # b /\ calls'[j] = calls[j] /\ calls[j].m \in Members(b)
  BY <1>2, <1>3, <1>15 DEF Visits, In, Tree, Visited
<1>22. \A j : Visits(j, b)' <=> Visits(j, b) \/ j = s + 1
  BY <1>3, <1>6, <1>9, <1>10 DEF Visits
<1>23. Numbered(b)'
  <2>1. \A x \in Members(b)' : /\ records'[x].status = "evaluating" /\ cyclic(x)'
                               /\ 1 <= Low(x)' /\ Low(x)' <= Index(x)' /\ Index(x)' < calls'[b].i
    <3> SUFFICES ASSUME NEW x \in Members(b)'
                 PROVE  /\ records'[x].status = "evaluating" /\ cyclic(x)'
                        /\ 1 <= Low(x)' /\ Low(x)' <= Index(x)' /\ Index(x)' < calls'[b].i
      OBVIOUS
    <3>1. CASE x = c
      BY <1>2, <1>18, <1>20, <1>1, <3>1
    <3>2. CASE x \in Members(b)
      <4>1. /\ records[x].status = "evaluating" /\ cyclic(x)
            /\ 1 <= Low(x) /\ Low(x) <= Index(x) /\ x \in Module
        BY <1>12, <1>15, <3>2 DEF Tree, Numbered
      <4> QED BY <1>1, <1>2, <1>12, <1>18, <1>19, <3>2, <4>1
    <3> QED BY <1>12, <3>1, <3>2
  <2>2. /\ calls[b].todo \in Seq(Module) /\ Len(calls[b].todo) \in Nat
        /\ DOMAIN calls[b].todo = 1 .. Len(calls[b].todo)
    BY <1>1, <1>3, MembersType
  <2>3. /\ DOMAIN calls'[b].todo = 1 .. Len(calls[b].todo) + 1
        /\ calls'[b].todo[Len(calls[b].todo) + 1] = c
        /\ \A i \in 1 .. Len(calls[b].todo) : calls'[b].todo[i] = calls[b].todo[i] /\ calls[b].todo[i] \in Members(b)
    BY <1>11
  <2>4. ASSUME NEW i \in DOMAIN calls'[b].todo, NEW j \in DOMAIN calls'[b].todo, i < j
        PROVE  (Index(calls[b].todo[i]) < Index(calls[b].todo[j]))'
    <3>1. i \in 1 .. Len(calls[b].todo)
      BY <2>2, <2>3, <2>4
    <3>2. PICK x : x = calls[b].todo[i]
      OBVIOUS
    <3>3. x \in Members(b) /\ calls'[b].todo[i] = x
      BY <2>3, <3>1, <3>2
    <3>4. CASE j = Len(calls[b].todo) + 1
      BY <1>19, <1>20, <2>3, <3>3, <3>4
    <3>5. CASE j \in 1 .. Len(calls[b].todo)
      <4>1. PICK y : y = calls[b].todo[j]
        OBVIOUS
      <4>2. y \in Members(b) /\ calls'[b].todo[j] = y /\ Index(x) < Index(y)
        BY <1>15, <2>2, <2>3, <2>4, <3>1, <3>2, <3>5, <4>1 DEF Tree, Numbered
      <4> QED BY <1>19, <3>3, <4>2
    <3> QED BY <2>2, <2>3, <3>4, <3>5
  <2>5. (calls[b].i >= 1)'
    BY <1>1, <1>2
  <2> QED BY <2>1, <2>4, <2>5 DEF Numbered
<1>24. \A j : Visits(j, b) => Index(calls[j].m)' = Index(calls[j].m) /\ Low(calls[j].m)' = Low(calls[j].m)
                              /\ Index(calls[j].m) < n /\ Index(calls[j].m) \in Nat
  <2> SUFFICES ASSUME NEW j, Visits(j, b)
               PROVE  Index(calls[j].m)' = Index(calls[j].m) /\ Low(calls[j].m)' = Low(calls[j].m)
                              /\ Index(calls[j].m) < n /\ Index(calls[j].m) \in Nat
    OBVIOUS
  <2>1. PICK x \in Members(b) : x = calls[j].m /\ x = calls'[j].m
    BY <1>21
  <2> QED BY <1>19, <2>1
<1>25. (Index(calls[s + 1].m))' = n /\ (Low(calls[s + 1].m))' = n
  BY <1>7, <1>20
<1>26. Visited(b)'
  <2>1. \A j : Visits(j, b)' => (calls[j].m \in Members(b))'
    BY <1>7, <1>12, <1>21, <1>22
  <2>2. \A i, j : Visits(i, b)' /\ Visits(j, b)' /\ i < j => (Index(calls[i].m) < Index(calls[j].m))'
    BY <1>15, <1>21, <1>22, <1>24, <1>25 DEF Tree, Visited
  <2> QED BY <2>1, <2>2 DEF Visited
<1>27. FromRoot(b)'
  <2>1. (records[calls[b].m].status = "linked")' => (calls[b].i = 1)'
    <3> SUFFICES ASSUME (records[calls[b].m].status = "linked")' PROVE FALSE
      OBVIOUS
    <3>1. calls[b].m # c /\ calls[b].m \in Module /\ records[calls[b].m].status = "linked"
      BY <1>1, <1>2, <1>3, MembersType
    <3>2. Members(b) # {}
      BY <1>4, <1>16, <1>17, <3>1
    <3> QED BY <1>12, <1>15, <3>1, <3>2 DEF Tree, FromRoot
  <2>2. (calls[b].m \in Members(b) /\ Index(calls[b].m) = 1)'
    <3>1. CASE Top.at = "evaluate"
      BY <1>2, <1>12, <1>16, <1>20, <3>1
    <3>2. CASE Top.at # "evaluate"
      <4>1. PICK x \in Members(b) : x = calls[b].m /\ Index(x) = 1
        BY <1>15, <1>17, <3>2 DEF Tree, FromRoot
      <4> QED BY <1>2, <1>12, <1>19, <4>1
    <3> QED BY <3>1, <3>2
  <2> QED BY <2>1, <2>2 DEF FromRoot
<1>28. \A x \in Members(b) : \A j : Nearest(j, b, x)' => Nearest(j, b, x)
  BY <1>19, <1>21, <1>22, <1>24, <1>25 DEF Nearest
<1>29. \A j : Nearest(j, b, c)' => j = s + 1
  BY <1>20, <1>21, <1>22, <1>24, <1>25 DEF Nearest
<1>30. Lowest(b)'
  <2> SUFFICES ASSUME NEW x \in Members(b)', NEW j, Nearest(j, b, x)'
               PROVE  (calls[j].m = x)' \/ (Low(calls[j].m) <= Low(x))' \/ Coming(j, b, x)'
    BY DEF Lowest
  <2>1. CASE x = c
    BY <1>7, <1>29, <2>1
  <2>2. CASE x \in Members(b)
    <3>1. Nearest(j, b, x) /\ Visits(j, b)
      BY <1>28, <2>2 DEF Nearest
    <3>2. CASE calls[j].m = x \/ Low(calls[j].m) <= Low(x)
      BY <1>19, <1>21, <1>24, <2>2, <3>1, <3>2
    <3>3. CASE Coming(j, b, x)
      <4>1. PICK y : y = requested(calls[j].m)[calls[j].i]
        OBVIOUS
      <4>2. y \in Members(b) /\ Index(calls[j].m) < Index(y) /\ Index(y) <= Index(x) /\ Low(y) <= Low(x)
            /\ calls[j].i <= Len(requested(calls[j].m))
        BY <3>3, <4>1 DEF Coming
      <4>3. y = (requested(calls[j].m)[calls[j].i])' /\ (calls[j].i <= Len(requested(calls[j].m)))'
        BY <1>18, <1>21, <3>1, <4>1, <4>2
      <4> QED BY <1>12, <1>19, <1>24, <2>2, <3>1, <4>2, <4>3 DEF Coming
    <3> QED BY <1>15, <2>2, <3>1, <3>2, <3>3 DEF Tree, Lowest
  <2> QED BY <1>12, <2>1, <2>2
<1>31. Open_(b)'
  <2> SUFFICES ASSUME NEW x \in Members(b)', Low(x)' = Index(x)'
               PROVE  \E j : Visits(j, b)' /\ calls'[j].m = x
    BY DEF Open_
  <2>1. CASE x = c
    BY <1>7, <1>22, <2>1
  <2>2. CASE x \in Members(b)
    BY <1>15, <1>19, <1>21, <1>22, <2>2 DEF Tree, Open_
  <2> QED BY <1>12, <2>1, <2>2
<1>32. Linked(b)'
  <2> SUFFICES ASSUME NEW x \in Members(b)', (Low(x) < Index(x))', Clean(b, x)'
               PROVE  \E y \in Members(b)' : (Index(y) = Low(x) /\ y \in Graph(x))'
    BY DEF Linked
  <2>1. x \in Members(b)
    BY <1>12, <1>20
  <2>2. PICK y \in Members(b) : Index(y) = Low(x) /\ y \in Graph(x)
    BY <1>12, <1>15, <1>18, <1>19, <2>1 DEF Tree, Linked
  <2> QED BY <1>12, <1>18, <1>19, <2>1, <2>2
<1>33. Reaching(b)'
  <2> SUFFICES ASSUME NEW x \in Members(b)', NEW j, Visits(j, b)', Clean(b, x)',
                      (Index(x) <= Index(calls[j].m))' \/ Nearest(j, b, x)'
               PROVE  (calls[j].m \in Graph(x))'
    BY DEF Reaching
  <2>1. CASE x = c
    <3>1. j = s + 1
      BY <1>20, <1>22, <1>24, <1>29, <2>1
    <3> QED BY <1>7, <1>18, <2>1, <3>1, GraphRules
  <2>2. CASE x \in Members(b) /\ j = s + 1
    <3>1. Top.at # "evaluate" /\ Clean(b, x) /\ x \in Module
      BY <1>12, <1>16, <1>18, <2>2
    <3>2. Top.m \in Graph(x) /\ c \in Requests(Top.m)
      BY <1>4, <1>17, <2>2, <3>1
    <3>3. c \in Graph(x)
      BY <3>1, <3>2, GraphRules
    <3> QED BY <1>7, <1>18, <2>2, <3>3
  <2>3. CASE x \in Members(b) /\ j # s + 1
    <3>1. Visits(j, b) /\ Clean(b, x) /\ (Index(x) <= Index(calls[j].m) \/ Nearest(j, b, x))
      BY <1>12, <1>18, <1>19, <1>22, <1>24, <1>28, <2>3
    <3>2. calls[j].m \in Graph(x) /\ calls'[j] = calls[j]
      BY <1>15, <1>21, <2>3, <3>1 DEF Tree, Reaching
    <3> QED BY <1>18, <3>2
  <2> QED BY <1>12, <2>1, <2>2, <2>3
<1>34. Under(b)'
  <2>1. calls[b].m \in Module /\ \A j \in 1 .. s : calls[j].m \in Module
    BY <1>1, <1>3, CallsType, CallFields
  <2>2. c \in Graph(calls[b].m)
    <3>1. CASE Top.at = "evaluate"
      BY <1>16, <2>1, <3>1, GraphRules
    <3>2. CASE Top.at # "evaluate"
      <4>1. Top.m \in Graph(calls[b].m) /\ c \in Requests(Top.m)
        BY <1>4, <1>15, <1>17, <3>2 DEF Tree, Under
      <4> QED BY <2>1, <4>1, GraphRules
    <3> QED BY <3>1, <3>2
  <2>3. \A x \in Members(b)' : (x \in Graph(calls[b].m))'
    BY <1>2, <1>12, <1>15, <1>18, <2>2 DEF Tree, Under
  <2>4. ASSUME NEW j, In(j, b)'
        PROVE  (calls[j].m \in Graph(calls[b].m))'
    <3>1. CASE j = s + 1
      BY <1>2, <1>7, <1>18, <2>2, <3>1
    <3>2. CASE j # s + 1
      <4>1. In(j, b) /\ j # b
        BY <1>3, <1>6, <1>10, <2>4, <3>2 DEF In
      <4>2. calls'[j] = calls[j] /\ calls[j].m \in Graph(calls[b].m)
        BY <1>2, <1>3, <1>15, <4>1 DEF Tree, Under
      <4> QED BY <1>2, <1>18, <4>2
    <3> QED BY <3>1, <3>2
  <2>5. ASSUME NEW x \in Members(b)', NEW j, Visits(j, b)', (Index(calls[j].m) <= Index(x))'
        PROVE  (x \in Graph(calls[j].m))'
    <3>1. CASE j = s + 1
      <4>1. x = c
        BY <1>12, <1>19, <1>25, <2>5, <3>1
      <4> QED BY <1>7, <1>18, <3>1, <4>1, GraphRules
    <3>2. CASE j # s + 1 /\ x = c
      <4>1. Visits(j, b) /\ calls'[j] = calls[j] /\ j \in 1 .. s
        BY <1>21, <1>22, <2>5, <3>2
      <4>2. Top.at # "evaluate"
        BY <1>16, <1>21, <4>1
      <4>3. Top.m \in Members(b) /\ Visits(s, b) /\ Index(calls[j].m) <= Index(Top.m) /\ c \in Requests(Top.m)
        <5>1. Top.m \in Members(b) /\ Visits(s, b) /\ c \in Requests(Top.m)
          BY <1>4, <1>17, <4>2
        <5>2. j < s => Index(calls[j].m) < Index(calls[s].m)
          BY <1>15, <4>1, <5>1 DEF Tree, Visited
        <5>3. Index(Top.m) \in Nat
          BY <1>19, <5>1
        <5> QED BY <1>4, <1>24, <4>1, <5>1, <5>2, <5>3
      <4>4. Top.m \in Graph(calls[j].m)
        BY <1>15, <4>1, <4>3 DEF Tree, Under
      <4>5. c \in Graph(calls[j].m)
        BY <2>1, <4>1, <4>3, <4>4, GraphRules
      <4> QED BY <1>18, <3>2, <4>1, <4>5
    <3>3. CASE j # s + 1 /\ x \in Members(b)
      <4>1. Visits(j, b) /\ calls'[j] = calls[j] /\ Index(calls[j].m) <= Index(x)
        BY <1>19, <1>21, <1>22, <1>24, <2>5, <3>3
      <4>2. x \in Graph(calls[j].m)
        BY <1>15, <3>3, <4>1 DEF Tree, Under
      <4> QED BY <1>18, <4>1, <4>2
    <3> QED BY <1>12, <2>5, <3>1, <3>2, <3>3
  <2> QED BY <2>3, <2>4, <2>5 DEF Under
<1>35. Tree(b)'
  BY <1>23, <1>26, <1>27, <1>30, <1>31, <1>32, <1>33, <1>34 DEF Tree
<1>36. \A k, l \in Evaluations : k # l => Members(k)' \cap Members(l)' = {}
  <2>1. \A k \in Evaluations : c \notin Members(k)
    BY <1>2 DEF Trees, Tree, Numbered
  <2> QED BY <1>12, <1>14, <2>1 DEF Trees
<1>37. \A x \in Module : records'[x].status = "evaluating" => \E k \in Evaluations : x \in Members(k)'
  BY <1>2, <1>3, <1>12, <1>14 DEF Trees
<1> QED BY <1>8, <1>14, <1>35, <1>36, <1>37 DEF Trees

----------------------------------------------------------------------------

(* Steps that change nothing of what is being evaluated. *)

LEMMA TreesKept ==
  ASSUME TypeOK, Trees, program' = program, tangled \subseteq tangled',
         \A k \in Evaluations' : k \in Evaluations => Untouched(k),
         \A k \in Evaluations' : k \notin Evaluations =>
           calls'[k].todo = <<>> /\ calls'[k].i = 1 /\ \A j : ~In(j, k)',
         \A k \in Evaluations : k \notin Evaluations' => \A x \in Members(k) : records'[x].status # "evaluating",
         \A x \in Module : records'[x].status = "evaluating" => records[x].status = "evaluating"
  PROVE  Trees'
<1>1. \A k \in Evaluations' : k \in Evaluations => Tree(k)' /\ Members(k)' = Members(k)
  BY TreeKept DEF Trees, Untouched, Members
<1>2. ASSUME NEW k \in Evaluations', k \notin Evaluations
      PROVE  Tree(k)' /\ Members(k)' = {}
  <2>1. calls'[k].todo = <<>> /\ calls'[k].i = 1 /\ \A j : ~In(j, k)' /\ ~Visits(j, k)'
    BY <1>2 DEF Visits
  <2>2. DOMAIN calls'[k].todo = {} /\ Members(k)' = {}
    BY <2>1 DEF Members
  <2> QED BY <2>1, <2>2 DEF Tree, Numbered, Visited, FromRoot, Lowest, Open_, Linked, Reaching, Under
<1>3. ASSUME NEW x \in Module, records'[x].status = "evaluating"
      PROVE  \E k \in Evaluations' : x \in Members(k)'
  <2>1. PICK k \in Evaluations : x \in Members(k)
    BY <1>3 DEF Trees
  <2> QED BY <1>1, <1>3, <2>1
<1> QED BY <1>3, <1>1, <1>2 DEF Trees

LEMMA UntouchedBy ==
  ASSUME TypeOK, calls' \in Seq(Call), NEW q, Keeps(q), NEW k \in Evaluations, k <= q,
         calls'[k].i = calls[k].i, calls'[k].todo = calls[k].todo,
         \A j \in q + 1 .. Size : ~Visits(j, k),
         Size' = q \/ (Size' = q + 1 /\ Size = q /\ calls'[q + 1].at # "inner"
                        /\ (In(q + 1, k)' => calls'[q + 1].m \in Graph(calls[k].m))),
         Visits(q, k) => calls'[q].i = calls[q].i \/ calls[q].i > Len(requested(calls[q].m)),
         \A x \in Members(k) : Index(x)' = Index(x) /\ Low(x)' = Low(x) /\ records'[x].status = records[x].status,
         records'[calls[k].m].status = "linked" => records[calls[k].m].status = "linked"
  PROVE  Untouched(k)
<1>1. /\ Size \in Nat /\ Size' \in Nat /\ DOMAIN calls = 1 .. Size /\ DOMAIN calls' = 1 .. Size'
      /\ \A j \in 1 .. q : In(j, k)' <=> In(j, k)
      /\ \A j \in 1 .. q : Visits(j, k)' <=> Visits(j, k)
      /\ k \in Evaluations'
  BY Prefix, CallsType DEF Evaluations
<1>2. q \in Nat /\ k \in 1 .. q
  BY CallsType DEF Keeps, Evaluations
<1>3. \A j : In(j, k)' => In(j, k) \/ (~Visits(j, k)' /\ calls'[j].m \in Graph(calls[k].m))
  <2> SUFFICES ASSUME NEW j, In(j, k)'
               PROVE  In(j, k) \/ (~Visits(j, k)' /\ calls'[j].m \in Graph(calls[k].m))
    OBVIOUS
  <2>1. j \in 1 .. Size'
    BY <1>1 DEF In
  <2> QED BY <1>1, <1>2, <2>1 DEF Visits
<1>4. \A j : Visits(j, k)' <=> Visits(j, k)
  <2>1. ASSUME NEW j, Visits(j, k)' PROVE Visits(j, k)
    <3>1. j \in 1 .. Size'
      BY <1>1, <2>1 DEF Visits, In
    <3>2. j \in 1 .. q \/ (j = q + 1 /\ Size' = q + 1)
      BY <1>1, <1>2, <3>1
    <3> QED BY <1>1, <1>2, <2>1, <3>2 DEF Visits
  <2> QED BY <2>1, <1>1, <1>2 DEF Visits, In
<1> QED BY <1>2, <1>3, <1>4, <1>1 DEF Untouched, Keeps, Visits, In

(* A call on top is made for the last evaluate. *)
LEMMA Above ==
  ASSUME TypeOK, Shaped, InEvaluation, calls' \in Seq(Call), NEW s, s = Size, Keeps(s)
  PROVE  \A k : In(s + 1, k)' => k = Base
<1>1. \A k \in 1 .. s : (k \in Evaluations)' <=> k \in Evaluations
  BY Prefix
<1> SUFFICES ASSUME NEW k, In(s + 1, k)', k # Base PROVE FALSE
  OBVIOUS
<1> QED BY <1>1, LenProperties, Regions, Bases DEF In, Evaluations, Keeps

LEMMA TreesNone ==
  ASSUME Trees, Evaluations = {}, Evaluations' = {},
         \A x \in Module : records'[x].status = "evaluating" => records[x].status = "evaluating"
  PROVE  Trees'
BY DEF Trees

LEMMA TreesEvaluate ==
  ASSUME TypeOK, Shaped, Trees, program' = program, tangled \subseteq tangled', NEW m \in Module, evaluate(m)
  PROVE  Trees'
<1>1. PICK s : s = Size
  OBVIOUS
<1>2. /\ s \in Nat /\ Root(m) \in Module /\ Grows(Frame("evaluate", Root(m))) /\ Typed /\ SameState /\ SameIndex
      /\ Keeps(s) /\ Size' = s + 1
  BY <1>1, evaluateFacts, CallsType, KeepsRules
<1>3. /\ calls' \in Seq(Call) /\ calls'[s + 1] = Frame("evaluate", Root(m))
      /\ \A j \in 1 .. s : calls'[j] = calls[j]
  BY <1>1, <1>2 DEF Typed, Grows
<1>4. calls'[s + 1].at = "evaluate" /\ calls'[s + 1].i = 1 /\ calls'[s + 1].todo = <<>>
  BY <1>2, <1>3, FrameType
<1>5. DOMAIN calls' = 1 .. s + 1 /\ DOMAIN calls = 1 .. s
  BY <1>1, <1>2, <1>3, CallsType, LenProperties DEF Size
<1>6. \A k : ~In(s + 1, k)'
  BY <1>4, <1>2, <1>5 DEF In, Evaluations
<1>7. \A k \in Evaluations : Untouched(k)
  <2> SUFFICES ASSUME NEW k \in Evaluations PROVE Untouched(k)
    OBVIOUS
  <2>1. \A x \in Members(k) : Index(x)' = Index(x) /\ Low(x)' = Low(x) /\ records'[x].status = records[x].status
    BY <1>2, <1>1, <1>5, MembersType DEF SameIndex, SameState, Evaluations
  <2>2. records'[calls[k].m].status = records[calls[k].m].status
    BY <1>2, <1>1, <1>5, MembersType DEF SameState, Evaluations
  <2>3. calls'[k] = calls[k] /\ k <= s /\ \A j \in s + 1 .. Size : ~Visits(j, k)
    BY <1>1, <1>2, <1>3, <1>5, MembersType DEF Evaluations
  <2>4. Visits(s, k) => calls'[s] = calls[s]
    BY <1>2, <1>3, <1>5 DEF Visits, In
  <2> QED BY <1>1, <1>2, <1>3, <1>4, <1>6, <2>1, <2>2, <2>3, <2>4, UntouchedBy
<1> QED BY <1>7, TreesKept, <1>2, <1>3, <1>5, <1>1, MembersType, <1>4 DEF SameState, Evaluations, In

LEMMA TreesSynthetic ==
  ASSUME TypeOK, Shaped, Trees, program' = program, tangled' = tangled, EnterSynthetic
  PROVE  Trees'
<1>1. PICK s, c, b : s = Size /\ c = Callee /\ b = Base
  OBVIOUS
<1>2. /\ Looking /\ ~cyclic(c) /\ Grows(Frame("body", c)) /\ Typed
      /\ \A x \in Module : records'[x].status = IF x = c THEN "evaluated" ELSE records[x].status
      /\ SameIndex
  BY <1>1, EnterSyntheticFacts
<1>3. /\ c \in Module /\ InEvaluation /\ s \in Nat /\ s > 0 /\ Top = calls[s] /\ Top.m \in Module
      /\ Top.at = "evaluate" => c = Top.m
      /\ Top.at # "evaluate" => Top.at = "inner" /\ c \in Requests(Top.m)
      /\ Keeps(s) /\ Size' = s + 1 /\ b \in Evaluations
      /\ Top.at = "evaluate" => b = s
  BY <1>1, <1>2, CalleeType, KeepsRules, Bases
<1>4. /\ calls' \in Seq(Call) /\ calls'[s + 1].at = "body" /\ calls'[s + 1].m = c
      /\ \A j \in 1 .. s : calls'[j] = calls[j]
  BY <1>1, <1>2, <1>3, FrameType DEF Typed, Grows
<1>5. DOMAIN calls' = 1 .. s + 1 /\ DOMAIN calls = 1 .. s
  BY <1>1, <1>3, <1>4, CallsType, LenProperties DEF Size
<1>6. c \in Graph(calls[b].m)
  BY <1>3, GraphRules, <1>1, <1>5, MembersType, TopVisit DEF Evaluations, Tree, Under
<1>7. \A k \in Evaluations : Untouched(k)
  <2> SUFFICES ASSUME NEW k \in Evaluations PROVE Untouched(k)
    OBVIOUS
  <2>1. \A x \in Members(k) : Index(x)' = Index(x) /\ Low(x)' = Low(x) /\ records'[x].status = records[x].status
    BY <1>2, <1>1, <1>5, MembersType DEF SameIndex, Evaluations, Trees, Tree, Numbered
  <2>2. records'[calls[k].m].status = "linked" => records[calls[k].m].status = "linked"
    BY <1>2, <1>1, <1>5, MembersType DEF Evaluations
  <2>3. calls'[k] = calls[k] /\ k <= s /\ \A j \in s + 1 .. Size : ~Visits(j, k)
    BY <1>1, <1>3, <1>4, <1>5, MembersType DEF Evaluations
  <2>4. Visits(s, k) => calls'[s] = calls[s]
    BY <1>3, <1>4, <1>5 DEF Visits, In
  <2>5. calls'[s + 1].at # "inner" /\ (In(s + 1, k)' => calls'[s + 1].m \in Graph(calls[k].m))
    BY <1>4, <1>6, <1>1, <1>3, Above
  <2> QED BY <1>1, <1>3, <1>4, <2>1, <2>2, <2>3, <2>4, <2>5, UntouchedBy
<1> QED BY <1>7, TreesKept, <1>2, <1>3, <1>4, <1>5 DEF Evaluations

LEMMA TreesSame ==
  ASSUME TypeOK, Shaped, Trees, program' = program, tangled' = tangled, calls' \in Seq(Call),
         SameState, SameIndex, NEW q, Keeps(q), q = Size \/ (q = Size - 1 /\ calls[Size].at # "inner"),
         \A k \in 1 .. q : k \in Evaluations => calls'[k].i = calls[k].i /\ calls'[k].todo = calls[k].todo,
         \A k : Visits(q, k) => calls'[q].i = calls[q].i \/ calls[q].i > Len(requested(calls[q].m)),
         Size' = q \/ (Size' = q + 1 /\ Size = q /\ calls'[q + 1].at = "body"
                        /\ (\A k : In(q + 1, k)' => calls'[q + 1].m \in Graph(calls[k].m))),
         q = Size - 1 /\ calls[Size].at = "evaluate" => Members(Size) = {}
  PROVE  Trees'
<1>1. /\ Size \in Nat /\ Size' \in Nat /\ DOMAIN calls = 1 .. Size /\ DOMAIN calls' = 1 .. Size' /\ q \in Nat
      /\ \A k \in 1 .. q : k \in Evaluations' <=> k \in Evaluations
  BY Prefix DEF Keeps
<1>2. ASSUME NEW k \in Evaluations, k \in 1 .. q
      PROVE  Untouched(k)
  <2>1. Members(k) \subseteq Module /\ calls[k].m \in Module
    BY <1>1, MembersType DEF Evaluations
  <2>2. records'[calls[k].m].status = records[calls[k].m].status
    BY <2>1 DEF SameState
  <2>3. \A j \in q + 1 .. Size : ~Visits(j, k)
    BY <1>1 DEF Visits
  <2> QED BY <1>1, <1>2, <2>2, <2>3, UntouchedBy, <2>1 DEF SameIndex, SameState
<1> QED BY <1>2, TreesKept, <1>1 DEF SameState, Evaluations

LEMMA TreesRuns ==
  ASSUME TypeOK, Shaped, Trees, program' = program, tangled' = tangled, calls' \in Seq(Call),
         SameState, SameIndex, Looked, Runs(Step(Top), Frame("body", Top.m)) \/ Turns(Step(Top))
  PROVE  Trees'
<1>1. PICK s, m, b : s = Size /\ m = Top.m /\ b = Base
  OBVIOUS
<1>2. /\ s \in Nat /\ s > 0 /\ Top = calls[s] /\ Top \in Call /\ Top.at = "inner" /\ m \in Module
      /\ Top.i = Len(requested(m)) + 1 /\ InEvaluation /\ Keeps(s)
  BY <1>1, LookedFacts, ShapedRuns
<1>3. /\ Step(Top).at = "inner" /\ Step(Top).m = m
      /\ Frame("body", m).at = "body" /\ Frame("body", m).m = m
  BY <1>1, <1>2, StepType, FrameType
<1> QED BY <1>1, <1>2, TreesSame, TopVisit, Above, <1>3, ProgramType DEF Tree, Under, Runs, Turns, Evaluations

LEMMA TreesPop ==
  ASSUME TypeOK, Shaped, Trees, program' = program, tangled' = tangled, calls' \in Seq(Call),
         SameState, SameIndex, Shrinks, calls[Size].at # "inner",
         calls[Size].at = "evaluate" => Members(Size) = {}
  PROVE  Trees'
<1>1. PICK s, q : s = Size /\ q = Size - 1
  OBVIOUS
<1> QED BY <1>1, TreesSame, KeepsRules, CallsType DEF Visits, In, Shrinks

(* An evaluate ends when nothing is left of what it was evaluating. *)
LEMMA NoneLeft ==
  ASSUME TypeOK, Shaped, Trees, On("evaluate")
  PROVE  Size \in Evaluations /\ Members(Size) = {} /\ Base = Size
<1>1. PICK s : s = Size
  OBVIOUS
<1>2. InEvaluation /\ Top.at = "evaluate" /\ s = Base /\ s \in Evaluations /\ s \in Nat /\ DOMAIN calls = 1 .. s
  BY <1>1, Bases, CallsType DEF On, InEvaluation, Resumed
<1>3. Members(s) # {} => FALSE
  <2> SUFFICES ASSUME Members(s) # {} PROVE FALSE
    OBVIOUS
  <2>1. PICK x \in Members(s) : Index(x) = 1
    BY <1>2 DEF Trees, Tree, FromRoot
  <2>2. PICK j : Visits(j, s)
    BY <1>2, <2>1, RecordsType, <1>1, MembersType DEF Trees, Tree, Open_, Numbered, Evaluations
  <2> QED BY <1>2, <2>2 DEF Visits, In
<1> QED BY <1>1, <1>2, <1>3

LEMMA TreesConclude ==
  ASSUME TypeOK, Shaped, Trees, program' = program, tangled' = tangled, Conclude
  PROVE  Trees'
<1> QED BY TreesPop, NoneLeft, ConcludeFacts DEF Typed, Evaluations

(* No evaluate is on the stack while a completion is. *)
LEMMA NoEvaluations ==
  ASSUME TypeOK, Shaped, Idle \/ On("completion") \/ (On("body") /\ Resumed)
  PROVE  Evaluations = {}
<1> QED BY CompletionFacts, CallsType, BodyFacts DEF Evaluations

LEMMA TreesReturns ==
  ASSUME TypeOK, Shaped, Trees, program' = program, tangled' = tangled, BodyReturns \/ BodySuspends
  PROVE  Trees'
<1>1. CASE Resumed /\ records' = Fulfilled(records, Top.m)
  <2>1. Size = 2 /\ Size' = 1 /\ calls'[1].at = "completion" /\ DOMAIN calls' = 1 .. 1
    <3>1. Size = 2 /\ calls[1].at = "completion"
      BY <1>1, BodyFacts, ReturnFacts, SuspendFacts
    <3> QED BY <3>1, LenProperties, ReturnFacts, SuspendFacts, BodyFacts DEF Typed, Size, Shrinks
  <2> QED BY TreesNone, <2>1, <1>1, FulfilledFacts, NoEvaluations, ReturnFacts, SuspendFacts, BodyFacts DEF
       Evaluations
<1> QED BY <1>1, ReturnFacts, SuspendFacts, SameRecords, TreesPop, BodyFacts DEF Typed

----------------------------------------------------------------------------

LEMMA TreesCut ==
  ASSUME TypeOK, Shaped, Trees, program' = program, tangled' = tangled, InEvaluation, NEW e \in Module, Unwind(e)
  PROVE  Trees'
<1>1. PICK b, s, q : b = Base /\ s = Size /\ q = Base - 1
  OBVIOUS
<1>2. /\ b \in Evaluations /\ b \in 1 .. s /\ s \in Nat /\ q \in Nat
      /\ \A k \in Evaluations : k <= b /\ k \in 1 .. s
      /\ \A j, k : In(j, k) /\ k # b => j < b
      /\ DOMAIN calls = 1 .. s
  BY <1>1, Regions, CallsType
<1>3. /\ Keeps(q) /\ Size' = q /\ calls' \in Seq(Call) /\ \A j \in 1 .. q : calls'[j] = calls[j]
      /\ DOMAIN calls' = 1 .. q
  BY <1>1, LenProperties, KeepsRules, UnwindFacts DEF Cuts, Size, Typed
<1>4. ASSUME NEW k \in Evaluations, k # b
      PROVE  Untouched(k)
  <2>1. \A x \in Members(k) : Index(x)' = Index(x) /\ Low(x)' = Low(x) /\ records'[x].status = records[x].status
    BY <1>1, <1>2, MembersType, <1>4, UnwindFacts DEF SameIndex, Trees, Tree, Numbered, Failed
  <2>2. records'[calls[k].m].status = "linked" => records[calls[k].m].status = "linked"
    BY <1>1, <1>2, MembersType, UnwindFacts
  <2>3. \A j \in q + 1 .. Size : ~Visits(j, k)
    BY <1>1, <1>2, <1>4 DEF Visits
  <2> QED BY <1>3, <2>1, <2>2, <2>3, UntouchedBy, <1>2, <1>1, <1>4
<1> QED BY <1>4, TreesKept, <1>2, <1>1, MembersType, <1>3, UnwindFacts DEF Failed, Evaluations

LEMMA TreesRethrow ==
  ASSUME TypeOK, Shaped, Rooted, Trees, program' = program, tangled' = tangled, Rethrow
  PROVE  Trees'
<1> QED BY TreesCut, RethrowFacts DEF Rethrow

LEMMA TreesThrows ==
  ASSUME TypeOK, Shaped, Trees, program' = program, tangled' = tangled, BodyThrows
  PROVE  Trees'
<1>1. CASE Resumed
  <2>1. Size = 2 /\ Size' = 1 /\ calls'[1].at = "completion" /\ DOMAIN calls' = 1 .. 1
    <3>1. Size = 2 /\ calls[1].at = "completion"
      BY <1>1, BodyFacts, ThrowFacts
    <3> QED BY <3>1, LenProperties, <1>1, ThrowFacts DEF Typed, Size, Shrinks
  <2> QED BY TreesNone, <2>1, <1>1, RejectedFacts, NoEvaluations, ThrowFacts DEF Evaluations
<1> QED BY <1>1, TreesCut, ThrowFacts

LEMMA TreesSettles ==
  ASSUME TypeOK, Shaped, Trees, program' = program, tangled' = tangled, NEW m \in Module, Settles(m)
  PROVE  Trees'
<1> QED BY TreesNone, RejectedFacts, SettledFacts, FulfilledFacts, LenProperties, NoEvaluations DEF Settles,
     Evaluations, asyncModuleExecutionRejected, Typed, Size, asyncModuleExecutionFulfilled

(* The stack during a completion. *)
LEMMA TreesCompletion ==
  ASSUME TypeOK, Shaped, Trees, program' = program, tangled' = tangled, calls' \in Seq(Call), SameState,
         On("completion"), NEW f, f.at = "completion",
         \/ Shrinks
         \/ Turns(f)
         \/ \E x \in Module : Runs(f, Frame("body", x))
  PROVE  Trees'
<1>1. Size = 1 /\ Evaluations = {}
  BY CompletionFacts
<1>2. CASE \E x \in Module : Runs(f, Frame("body", x))
  <2>1. PICK x \in Module : Runs(f, Frame("body", x))
    BY <1>2
  <2> QED BY <1>1, TreesNone, LenProperties, <2>1, FrameType DEF SameState, Evaluations, Size, Runs
<1> QED BY <1>2, <1>1, TreesNone, LenProperties DEF SameState, Evaluations, Size, Turns, Shrinks

----------------------------------------------------------------------------

Unsettled(x) == ~cyclic(x) \/ records[x].cycleRoot = None

\* An evaluation that meets a module already underway has tangled its graph.
Tangles ==
  \A k \in Evaluations : Unsettled(calls[k].m) =>
    /\ \A j \in 1 .. k - 1 : calls[j].m \in Graph(calls[k].m) => Graph(calls[k].m) \subseteq tangled
    /\ \A l \in Evaluations : \A x \in Members(l) : l < k /\ x \in Graph(calls[k].m) => Graph(calls[k].m) \subseteq tangled

(* An orderly module meets nothing that another evaluate is evaluating. *)
LEMMA NotTangled ==
  ASSUME TypeOK, Shaped, Rooted, Trees, Tangles, NEW b \in Evaluations, NEW x \in Members(b), Clean(b, x),
         NEW c \in Graph(x), NEW k \in Evaluations, c \in Members(k), k <= b
  PROVE  k = b
<1>1. b \in 1 .. Size /\ k \in 1 .. Size /\ Size \in Nat
  BY CallsType DEF Evaluations
<1> SUFFICES ASSUME k < b PROVE FALSE
  BY <1>1
<1>2. b # 1 /\ Orderly(x)
  BY <1>1 DEF Clean
<1> QED BY <1>2, GraphRules, <1>1, MembersType DEF Orderly, Tangles, Rooted, Unsettled, Trees, Tree, Numbered,
     FromRoot, Under

LEMMA TanglesKept ==
  ASSUME Tangles, TypeOK, program' = program, tangled \subseteq tangled', Evaluations' \subseteq Evaluations,
         \A k \in Evaluations' : \A j \in 1 .. k : calls'[j].m = calls[j].m,
         \A k, l \in Evaluations' : l < k => Members(l)' = Members(l),
         \A x \in Module : records[x].cycleRoot # None => records'[x].cycleRoot # None
  PROVE  Tangles'
<1> SUFFICES ASSUME NEW k \in Evaluations', Unsettled(calls[k].m)'
             PROVE  /\ \A j \in 1 .. k - 1 : (calls[j].m \in Graph(calls[k].m) => Graph(calls[k].m) \subseteq tangled)'
                    /\ \A l \in Evaluations' : \A x \in Members(l)' :
                         l < k /\ (x \in Graph(calls[k].m))' => (Graph(calls[k].m) \subseteq tangled)'
  BY DEF Tangles
<1>1. k \in Evaluations /\ k \in 1 .. Size /\ calls[k].m \in Module /\ Size \in Nat
  BY CallsType, CallFields DEF Evaluations
<1> QED BY <1>1, ProgramKept DEF Tangles, Unsettled

(* A module learns the index of one that is in evaluation. *)
LEMMA TreesDepend ==
  ASSUME TypeOK, Shaped, Rooted, Trees, Tangles, program' = program, tangled' = tangled, Depend
  PROVE  Trees'
<1>1. PICK s, b, m, c, r : s = Size /\ b = Base /\ m = Top.m /\ c = Callee /\ r = Awaited(Callee)
  OBVIOUS
<1>2. /\ Looking /\ Top.at = "inner" /\ Seen /\ ErrorOf(c) = None
      /\ m \in Module /\ r \in Module /\ Turns(Step(Top)) /\ Typed
      /\ \A x \in Module :
           /\ Index(x)' = Index(x)
           /\ Low(x)' = IF x = m /\ records[r].status = "evaluating" THEN Least(Low(x), Low(r)) ELSE Low(x)
      /\ SameState
  BY <1>1, DependFacts
<1>3. /\ c \in Module /\ InEvaluation /\ s \in Nat /\ s > 0 /\ Top = calls[s] /\ Top \in Call
      /\ Top.i \in 1 .. Len(requested(m)) /\ c = requested(m)[Top.i] /\ c \in Requests(m)
  BY <1>1, <1>2, CalleeType
<1>4. /\ Visits(s, b) /\ m \in Members(b) /\ b \in Evaluations /\ Tree(b) /\ b < s
      /\ \A x \in Members(b) : Index(m) <= Index(x) => Nearest(s, b, x)
  BY <1>1, <1>2, <1>3, TopVisit
<1>5. /\ \A k \in Evaluations : k <= b /\ k \in 1 .. s
      /\ \A j, k : In(j, k) => j \in 1 .. s /\ k \in 1 .. s
      /\ DOMAIN calls = 1 .. s
  BY <1>1, <1>3, Regions, CallsType
<1>6. /\ Keeps(s) /\ Size' = s /\ calls' \in Seq(Call) /\ DOMAIN calls' = 1 .. s
      /\ calls'[s].at = "inner" /\ calls'[s].m = m /\ calls'[s].i = Top.i + 1
      /\ \A j \in 1 .. s - 1 : calls'[j] = calls[j]
  BY <1>1, <1>2, LenProperties, <1>3, StepType, ShapedDepend DEF Turns, Size, Typed
<1>7. /\ \A j, k : In(j, k)' <=> In(j, k)
      /\ \A j, k : Visits(j, k)' <=> Visits(j, k)
  BY <1>5, <1>6, Prefix DEF In, Visits
<1>8. /\ \A k \in Evaluations : k \in 1 .. s - 1 /\ calls'[k] = calls[k] /\ Members(k)' = Members(k) /\ Members(k) \subseteq Module
      /\ \A j \in 1 .. s : calls'[j].m = calls[j].m
  BY <1>1, <1>3, <1>6, <1>5, MembersType, <1>2 DEF Members, Evaluations
<1>9. \A x \in Module : records'[x].status = records[x].status /\ Index(x)' = Index(x)
  BY <1>2 DEF SameState
<1>10. ASSUME NEW k \in Evaluations, k # b PROVE Untouched(k)
  <2>1. \A x \in Members(k) : Index(x)' = Index(x) /\ Low(x)' = Low(x) /\ records'[x].status = records[x].status
    BY <1>2, <1>8, <1>9, <1>4, <1>10 DEF Trees
  <2>2. \A j : Visits(j, k) => j \in 1 .. s - 1
    BY <1>3, <1>5, <1>4, <1>1, <1>10, Regions DEF Visits
  <2>3. records'[calls[k].m].status = records[calls[k].m].status
    BY <1>1, <1>5, <1>9, MembersType
  <2> QED BY <1>6, <1>7, <1>8, <2>1, <2>2, <2>3, <1>5 DEF Untouched
<1>11. /\ Index(m) \in Nat /\ Low(m) \in Nat /\ Index(r) \in Nat /\ Low(r) \in Nat /\ Low(m)' \in Nat
       /\ Low(m)' <= Low(m)
       /\ records[r].status = "evaluating" => Low(m)' <= Low(r) /\ Low(r) <= Index(r) /\ 1 <= Low(r)
  BY <1>2, RecordsType DEF Least, Trees, Tree, Numbered
<1>12. \A x \in Members(b) : x # m => Low(x)' = Low(x)
  BY <1>2, <1>8, <1>4
<1>13. /\ \A x : requested(x)' = requested(x) /\ cyclic(x)' = cyclic(x) /\ Graph(x)' = Graph(x)
       /\ \A x \in Module : Clean(b, x)' <=> Clean(b, x)
  BY ProgramKept DEF Clean, Orderly
<1>14. \A j : Visits(j, b) => /\ j \in 1 .. s /\ calls'[j].m = calls[j].m /\ calls[j].m \in Members(b)
                              /\ Index(calls[j].m)' = Index(calls[j].m)
  BY <1>9, <1>4, <1>8, <1>5 DEF Index, Visits, Tree, Visited
<1>15. Numbered(b)'
  BY <1>4, <1>8, <1>9, <1>12, <1>13, <1>11, <1>2 DEF Numbered, Tree, Index, Members, Least
<1>16. Visited(b)'
  BY <1>4, <1>7, <1>8, <1>14 DEF Tree, Visited
<1>17. FromRoot(b)'
  BY <1>4, <1>8, <1>9, <1>1, <1>5, MembersType DEF Tree, FromRoot, Index
<1>18. \A x \in Members(b) : Low(x) \in Nat /\ Index(x) \in Nat /\ x \in Module
  BY <1>4, <1>8, RecordsType
<1>19. Lowest(b)'
  <2> SUFFICES ASSUME NEW x \in Members(b), NEW j, Nearest(j, b, x)
               PROVE  calls'[j].m = x \/ (Low(calls[j].m) <= Low(x))' \/ Coming(j, b, x)'
    BY <1>4, <1>8, <1>7, <1>14, <1>9 DEF Lowest, Nearest
  <2>1. Visits(j, b) /\ j \in 1 .. s /\ calls'[j].m = calls[j].m /\ calls[j].m \in Members(b)
    BY <1>14 DEF Nearest
  <2>2. CASE j = s /\ x # m
    <3>1. Coming(s, b, x) => c \in Members(b) /\ Low(c) <= Low(x)
      BY <1>1, <1>3 DEF Coming
    <3>2. Low(m)' <= Low(x)
      <4>1. CASE Low(m) <= Low(x)
        BY <1>11, <1>18, <4>1
      <4>2. CASE Coming(s, b, x)
        BY <1>11, <1>18, <3>1, <4>2, <1>1, <1>4 DEF Tree, Numbered, Awaited
      <4> QED BY <4>1, <4>2, <2>2, <1>4, <1>1, <1>3 DEF Tree, Lowest
    <3> QED BY <1>12, <2>1, <2>2, <3>2, <1>1, <1>3
  <2>3. CASE j # s /\ x # m
    <3>1. calls'[j] = calls[j] /\ j < s
      BY <1>3, <1>6, <2>1, <2>3
    <3>2. calls[j].m # m
      <4>1. Index(calls[j].m) < Index(calls[s].m) /\ calls[s].m = m
        BY <1>1, <1>3, <1>4, <2>1, <3>1 DEF Tree, Visited
      <4> QED BY <1>11, <4>1
    <3>3. CASE Coming(j, b, x)
      <4>1. PICK y : y = requested(calls[j].m)[calls[j].i]
        OBVIOUS
      <4>2. y \in Members(b) /\ Index(calls[j].m) < Index(y) /\ Index(y) <= Index(x) /\ Low(y) <= Low(x)
            /\ calls[j].i <= Len(requested(calls[j].m))
        BY <3>3, <4>1 DEF Coming
      <4>3. Low(y)' <= Low(x)'
        BY <1>11, <1>12, <1>18, <2>3, <4>2
      <4>4. Index(y)' = Index(y) /\ Index(x)' = Index(x) /\ Index(calls[j].m)' = Index(calls[j].m)
        BY <1>9, <1>14, <1>18, <2>1, <4>2
      <4> QED BY <4>2, <4>3, <4>4, <1>4, <1>8, <1>13, <3>1, <4>1 DEF Coming
    <3> QED BY <3>3, <1>4, <2>1, <1>12, <2>3, <3>1, <3>2 DEF Tree, Lowest
  <2> QED BY <2>2, <2>3, <1>6, <1>3, <1>11, <2>1, <1>1, <1>4 DEF Nearest
<1>20. Open_(b)'
  <2> SUFFICES ASSUME NEW x \in Members(b), Low(x)' = Index(x)'
               PROVE  \E j : Visits(j, b)' /\ calls'[j].m = x
    BY <1>4, <1>8 DEF Open_
  <2>1. CASE x # m
    <3>1. PICK j : Visits(j, b) /\ calls[j].m = x
      BY <1>4, <1>9, <1>12, <1>18, <2>1 DEF Tree, Open_
    <3> QED BY <1>7, <1>14, <3>1
  <2> QED BY <2>1, <1>4, <1>6, <1>7
<1>21. Linked(b)'
  <2> SUFFICES ASSUME NEW x \in Members(b), Low(x)' < Index(x)', Clean(b, x)
               PROVE  \E y \in Members(b) : Index(y)' = Low(x)' /\ y \in Graph(x)
    BY <1>4, <1>8, <1>13, <1>18 DEF Linked
  <2>1. CASE Low(x)' # Low(x)
    <3>1. x = m /\ records[r].status = "evaluating" /\ Low(m)' = Low(r)
      BY <1>11, <2>1, <1>2, <1>12 DEF Least
    <3>2. r = c /\ c \in Graph(m)
      BY <1>2, <1>3, <3>1, GraphRules, EsmAssumption, <1>1 DEF Rooted, Awaited
    <3>3. PICK k \in Evaluations : c \in Members(k)
      BY <1>2, <3>1, <3>2 DEF Trees
    <3>4. k = b
      BY <1>4, <1>5, <3>1, <3>2, <3>3, NotTangled
    <3>5. CASE Low(c) < Index(c)
      <4>1. PICK y \in Members(b) : Index(y) = Low(c) /\ y \in Graph(c)
        BY <1>4, <3>3, <3>4, <3>5, <1>2, <3>1, <3>2, OrderlyRules DEF Tree, Linked
      <4> QED BY <3>1, <3>2, <4>1, <1>9, <1>18, <1>2, GraphRules
    <3> QED BY <1>11, <3>1, <3>2, <3>5, <3>3, <3>4, <1>9, <1>18
  <2> QED BY <2>1, <1>4, <1>9, <1>18 DEF Tree, Linked
<1>22. Reaching(b)'
  BY <1>4, <1>7, <1>8, <1>13, <1>14, <1>18, <1>9 DEF Reaching, Tree, Nearest
<1>23. Under(b)'
  BY <1>4, <1>7, <1>13, <1>14, <1>5, <1>8, <1>9, <1>18 DEF Under, Tree
<1>24. Tree(b)'
  BY <1>15, <1>16, <1>17, <1>19, <1>20, <1>21, <1>22, <1>23 DEF Tree
<1> QED BY <1>8, <1>9, <1>24, <1>10, TreeKept, <1>5, <1>6, Prefix DEF Trees, Evaluations

----------------------------------------------------------------------------

(* A module that is not the root of a component leaves what it has found to its *)
(* importer, which has yet to learn its low index.                              *)
LEMMA TreesLeave ==
  ASSUME TypeOK, Shaped, Trees, program' = program, tangled' = tangled, Close, Low(Top.m) # Index(Top.m)
  PROVE  Trees'
<1>1. PICK s, q, b, m : s = Size /\ q = Size - 1 /\ b = Base /\ m = Top.m
  OBVIOUS
<1>2. InEvaluation /\ Top.at = "inner"
  BY DEF Close, On, InEvaluation, Resumed
<1>3. /\ Visits(s, b) /\ m \in Members(b) /\ b \in Evaluations /\ Tree(b) /\ b < s /\ Top = calls[s]
      /\ \A x \in Members(b) : Index(m) <= Index(x) => Nearest(s, b, x)
      /\ \A x \in Members(b) : Clean(b, x) => m \in Graph(x)
      /\ m \in Module
  BY <1>1, <1>2, TopVisit
<1>4. /\ \A k \in Evaluations : k <= b /\ k \in 1 .. s
      /\ \A j, k : In(j, k) => j \in 1 .. s /\ k \in 1 .. s
      /\ \A j, k : In(j, k) /\ k # b => j < b
      /\ DOMAIN calls = 1 .. s /\ s \in Nat /\ q \in Nat /\ s > 0 /\ b \in 1 .. s
  BY <1>1, <1>2, <1>3, Regions, CallsType
<1>5. /\ Keeps(q) /\ Size' = q /\ calls' \in Seq(Call) /\ DOMAIN calls' = 1 .. q
      /\ \A j \in 1 .. q : calls'[j] = calls[j]
  BY <1>1, KeepsRules, LenProperties, <1>3, CloseFacts DEF Typed, Shrinks, Size
<1>6. /\ \A j, k : Visits(j, k)' <=> Visits(j, k) /\ j # s
      /\ \A j, k : In(j, k)' => In(j, k) /\ j # s /\ j \in 1 .. q
  BY <1>5, Prefix, <1>1, <1>4 DEF Visits, In
<1>7. Evaluations' = Evaluations /\ \A k \in Evaluations : k \in 1 .. q
  BY <1>5, Prefix, <1>1, <1>3, <1>4 DEF Evaluations
<1>8. \A k \in Evaluations : /\ calls'[k] = calls[k] /\ Members(k)' = Members(k) /\ Members(k) \subseteq Module
                             /\ calls[k].m \in Module
  BY <1>5, <1>7, <1>1, <1>4, MembersType DEF Members
<1>9. \A x \in Module : Index(x)' = Index(x) /\ Low(x)' = Low(x) /\ records'[x].status = records[x].status
                        /\ Index(x) \in Nat /\ Low(x) \in Nat
  BY RecordsType, <1>1, <1>3, CloseFacts DEF SameIndex, SameState
<1>10. \A k \in Evaluations : k # b => Untouched(k)
  <2> SUFFICES ASSUME NEW k \in Evaluations, k # b PROVE Untouched(k)
    OBVIOUS
  <2> QED BY <1>5, <1>7, <1>8, <1>9, UntouchedBy, <1>4, <1>1 DEF Visits
<1>11. /\ \A x : requested(x)' = requested(x) /\ cyclic(x)' = cyclic(x) /\ Graph(x)' = Graph(x)
       /\ \A x \in Module : Clean(b, x)' <=> Clean(b, x)
  BY ProgramKept DEF Clean, Orderly
<1>12. PICK p : p = calls[q].m
  OBVIOUS
<1>13. /\ Visits(q, b) /\ calls[q].i <= Len(requested(p)) /\ m = requested(p)[calls[q].i]
       /\ p \in Members(b) /\ Index(p) < Index(m)
  <2>1. s > 1 /\ Follows(s)
    BY <1>3, <1>4 DEF ShapedAt, Shaped
  <2>2. calls[q].at # "evaluate"
    BY <1>3, <1>9, <1>1, <1>2, <2>1, <1>4, Bases DEF Tree, Numbered, FromRoot, Follows
  <2>3. Visits(q, b)
    BY <1>1, <1>2, <1>3, <1>12, <2>1, <2>2, Regions, <1>4 DEF Visits, Follows, Evaluations
  <2>4. p \in Members(b) /\ Index(p) < Index(m)
    <3>1. calls[s].m = m /\ q < s
      BY <1>1, <1>3, <1>4
    <3> QED BY <1>12, <3>1, <1>3, <2>3 DEF Tree, Visited
  <2> QED BY <2>3, <2>4, <1>1, <1>2, <1>3, <1>12, <2>1, <2>2 DEF Follows
<1>14. \A j : Visits(j, b)' => /\ Visits(j, b) /\ j \in 1 .. q /\ j # s /\ calls'[j] = calls[j] /\ calls[j].m \in Members(b)
                               /\ Index(calls[j].m)' = Index(calls[j].m) /\ Low(calls[j].m)' = Low(calls[j].m)
                               /\ Index(calls[j].m) \in Nat
  BY <1>9, <1>3, <1>8, <1>5, <1>6 DEF Index, Low, Tree, Visited, Visits
<1>15. \A x \in Members(b) : x \in Module
  BY <1>3, <1>8
<1>16. ASSUME NEW x \in Members(b), NEW j, Nearest(j, b, x)'
       PROVE  Nearest(j, b, x) \/ (j = q /\ Nearest(s, b, x) /\ Index(m) <= Index(x))
  <2>1. /\ Visits(j, b) /\ j \in 1 .. q /\ Index(calls[j].m) <= Index(x)
        /\ \A i : Visits(i, b) /\ i # s /\ j < i => Index(x) < Index(calls[i].m)
    BY <1>14, <1>9, <1>15, <1>16, <1>6 DEF Nearest
  <2>2. CASE j < q
    <3>1. Index(x) < Index(p)
      BY <1>1, <1>4, <1>12, <1>13, <2>1, <2>2
    <3> QED BY <2>1, <1>1, <1>3, <1>13, <3>1, <1>9, <1>15 DEF Nearest
  <2> QED BY <1>3, <1>4, <1>9, <1>15, <2>1, <2>2, <1>1 DEF Nearest
<1>17. Numbered(b)'
  BY <1>3, <1>8, <1>9, <1>11, <1>15 DEF Numbered, Tree, Index, Members
<1>18. Visited(b)'
  BY <1>3, <1>14, <1>8 DEF Visited, Tree
<1>19. FromRoot(b)'
  BY <1>3, <1>8, <1>9 DEF Tree, FromRoot, Index
<1>20. Lowest(b)'
  <2> SUFFICES ASSUME NEW x \in Members(b), NEW j, Nearest(j, b, x)'
               PROVE  calls'[j].m = x \/ (Low(calls[j].m) <= Low(x))' \/ Coming(j, b, x)'
    BY <1>3, <1>8 DEF Lowest
  <2>1. \A y : y = requested(calls[j].m)[calls[j].i] /\ y \in Members(b) /\ Index(calls[j].m) < Index(y)
                /\ Index(y) <= Index(x) /\ Low(y) <= Low(x) /\ calls[j].i <= Len(requested(calls[j].m)) => Coming(j, b, x)'
    <3> SUFFICES ASSUME NEW y, y = requested(calls[j].m)[calls[j].i], y \in Members(b), Index(calls[j].m) < Index(y),
                        Index(y) <= Index(x), Low(y) <= Low(x), calls[j].i <= Len(requested(calls[j].m))
                 PROVE  Coming(j, b, x)'
      OBVIOUS
    <3>1. y = (requested(calls[j].m)[calls[j].i])' /\ (calls[j].i <= Len(requested(calls[j].m)))'
      BY <1>11, <1>9, <1>14, <1>15 DEF Nearest
    <3> QED BY <3>1, <1>9, <1>14, <1>15, <1>3, <1>8 DEF Coming, Nearest
  <2>2. CASE j = q /\ Nearest(s, b, x) /\ Index(m) <= Index(x)
    <3>1. ~Coming(s, b, x)
      BY <1>1, <1>3, CloseFacts, ProgramType DEF Coming
    <3> QED BY <1>3, <1>12, <1>13, <2>1, <2>2, <1>9, <3>1, <1>1 DEF Tree, Lowest
  <2> QED BY <1>16, <2>2, <1>9, <1>14, <1>15, <2>1, <1>3 DEF Nearest, Coming, Tree, Lowest
<1>21. Open_(b)'
  <2> SUFFICES ASSUME NEW x \in Members(b), Low(x)' = Index(x)'
               PROVE  \E j : Visits(j, b)' /\ calls'[j].m = x
    BY <1>3, <1>8 DEF Open_
  <2>1. PICK j : Visits(j, b) /\ calls[j].m = x
    BY <1>3, <1>1, <1>9, <1>15 DEF Tree, Open_
  <2> QED BY <1>6, <1>14, <2>1, <1>1, <1>3, <1>9, <1>15
<1>22. Linked(b)'
  <2> SUFFICES ASSUME NEW x \in Members(b), Low(x)' < Index(x)', Clean(b, x)
               PROVE  \E y \in Members(b) : Index(y)' = Low(x)' /\ y \in Graph(x)
    BY <1>3, <1>8, <1>11, <1>15 DEF Linked
  <2>1. PICK y \in Members(b) : Index(y) = Low(x) /\ y \in Graph(x)
    BY <1>3, <1>9, <1>15 DEF Tree, Linked
  <2> QED BY <1>9, <1>15, <2>1
<1>23. Reaching(b)'
  <2> SUFFICES ASSUME NEW x \in Members(b), NEW j, Visits(j, b)', Clean(b, x),
                      (Index(x) <= Index(calls[j].m))' \/ Nearest(j, b, x)'
               PROVE  calls'[j].m \in Graph(x)
    BY <1>3, <1>8, <1>11, <1>15 DEF Reaching
  <2>1. CASE j = q /\ Nearest(s, b, x) /\ Index(m) <= Index(x)
    <3>1. PICK y \in Members(b) : Index(y) = Low(m) /\ y \in Graph(m)
      BY <1>3, <1>1, <1>9, OrderlyRules, <1>15 DEF Tree, Linked, Numbered
    <3>2. Index(y) <= Index(p) \/ Nearest(q, b, y)
      <4> SUFFICES ASSUME ~(Index(y) <= Index(p)) PROVE Nearest(q, b, y)
        OBVIOUS
      <4>1. Index(y) \in Nat /\ Index(p) \in Nat /\ Index(m) \in Nat /\ Low(m) \in Nat
        BY <1>3, <1>9, <1>13, <1>15, <3>1, OrderlyRules
      <4> QED BY <1>13, <1>1, <1>3, <3>1, <4>1, <1>9, <1>12, <1>4 DEF Nearest, Tree, Numbered, Visits
    <3>3. p \in Graph(x)
      BY <1>3, <3>1, GraphRules, <1>12, <1>13, <3>2, <1>15, OrderlyRules DEF Tree, Reaching
    <3> QED BY <1>12, <2>1, <3>3, <1>14
  <2> QED BY <1>16, <2>1, <1>9, <1>14, <1>15, <1>3 DEF Tree, Reaching
<1>24. Under(b)'
  BY <1>3, <1>11, <1>14, <1>5, <1>6, <1>8, <1>9, <1>15 DEF Under, Tree
<1>25. Tree(b)'
  BY <1>17, <1>18, <1>19, <1>20, <1>21, <1>22, <1>23, <1>24 DEF Tree
<1> QED BY <1>7, <1>8, <1>9, <1>25, <1>10, TreeKept DEF Trees

----------------------------------------------------------------------------

\* The component of the module on top: what has been found since it began.
Closing == {x \in Members(Base) : Index(Top.m) <= Index(x)}

LEMMA ClosingFacts ==
  ASSUME TypeOK, Shaped, Trees, Close, Low(Top.m) = Index(Top.m)
  PROVE  /\ Top.m \in Closing /\ Closing \subseteq Members(Base) /\ Typed
         /\ Top.at = "inner" /\ Top.i = Len(requested(Top.m)) + 2
         /\ Base < Size /\ Size' = Size - 1
         /\ \A j \in 1 .. Size - 1 : j # Base => calls'[j] = calls[j]
         /\ calls'[Base].at = "evaluate" /\ calls'[Base].m = calls[Base].m
         /\ calls'[Base].i = calls[Base].i
         /\ DOMAIN calls'[Base].todo \subseteq DOMAIN calls[Base].todo
         /\ \A i \in DOMAIN calls'[Base].todo : calls'[Base].todo[i] = calls[Base].todo[i]
         /\ {calls'[Base].todo[i] : i \in DOMAIN calls'[Base].todo} = Members(Base) \ Closing
         /\ \A x \in Module :
              /\ records'[x].status = IF x \in Closing
                   THEN IF records[x].asyncEvaluation THEN "evaluating-async" ELSE "evaluated"
                   ELSE records[x].status
              /\ records'[x].cycleRoot = IF x \in Closing THEN Top.m ELSE records[x].cycleRoot
              /\ records'[x].error = records[x].error
         /\ SameIndex /\ SameAsync /\ SameWaits /\ SameCaps
         /\ \A x \in Closing : x \in Graph(Top.m) /\ (Clean(Base, x) => Top.m \in Graph(x))
<1>1. PICK s, b, m, t : s = Size /\ b = Base /\ m = Top.m /\ t = calls[Base].todo
  OBVIOUS
<1>2. InEvaluation /\ Top.at = "inner"
  BY DEF Close, On, InEvaluation, Resumed
<1>3. /\ Visits(s, b) /\ m \in Members(b) /\ b \in Evaluations /\ Tree(b) /\ b < s /\ Top = calls[s]
      /\ \A x \in Members(b) : Clean(b, x) => m \in Graph(x)
      /\ m \in Module
  BY <1>1, <1>2, TopVisit
<1>4. /\ t \in Seq(Module) /\ Len(t) \in Nat /\ DOMAIN t = 1 .. Len(t) /\ Members(b) \subseteq Module
      /\ Members(b) = {t[i] : i \in 1 .. Len(t)}
  BY <1>1, MembersType, <1>2, Regions DEF Members
<1>5. PICK p \in 1 .. Len(t) :
        /\ t[p] = m
        /\ b < s /\ Size' = s - 1
        /\ \A j \in 1 .. s - 1 : j # b => calls'[j] = calls[j]
        /\ calls'[b].at = "evaluate" /\ calls'[b].m = calls[b].m
        /\ calls'[b].i = calls[b].i
        /\ Len(calls'[b].todo) = p - 1
        /\ \A j \in 1 .. p - 1 : calls'[b].todo[j] = t[j]
        /\ \A x \in Module :
             /\ records'[x].status = IF x \in Component(p)
                  THEN IF records[x].asyncEvaluation THEN "evaluating-async" ELSE "evaluated"
                  ELSE records[x].status
             /\ records'[x].cycleRoot = IF x \in Component(p) THEN m ELSE records[x].cycleRoot
             /\ records'[x].error = records[x].error
  BY <1>1, <1>3, CloseFacts
<1>6. Typed /\ Top.i = Len(requested(m)) + 2 /\ SameIndex /\ SameAsync /\ SameWaits /\ SameCaps
  BY <1>1, <1>3, CloseFacts
<1>7. /\ \A i, j \in 1 .. Len(t) : i < j => Index(t[i]) < Index(t[j])
      /\ \A i \in 1 .. Len(t) : Index(t[i]) \in Nat /\ t[i] \in Module /\ t[i] \in Members(b)
  BY RecordsType, <1>4, <1>1, <1>3 DEF Tree, Numbered
<1>8. \A i \in 1 .. Len(t) : t[i] \in Closing <=> p <= i
  <2> SUFFICES ASSUME NEW i \in 1 .. Len(t) PROVE t[i] \in Closing <=> p <= i
    OBVIOUS
  <2>1. CASE i = p
    BY <1>7, <2>1, <1>1, <1>5 DEF Closing
  <2> QED BY <1>4, <2>1, <1>7, <1>1, <1>5 DEF Closing
<1>9. Component(p) = Closing
  <2>1. \A x \in Closing : x \in Component(p)
    <3> SUFFICES ASSUME NEW x \in Closing PROVE x \in Component(p)
      OBVIOUS
    <3>1. PICK i \in 1 .. Len(t) : x = t[i]
      BY <1>1, <1>4 DEF Closing
    <3> QED BY <1>1, <3>1, <1>4, <1>8 DEF Component
  <2> QED BY <2>1, <1>1, <1>4, <1>8 DEF Component
<1>10. DOMAIN calls'[b].todo = 1 .. p - 1
  <2>1. calls' \in Seq(Call) /\ b \in 1 .. Size'
    BY <1>3, <1>5, <1>6, <1>1, <1>2, Regions DEF Typed
  <2> QED BY <1>5, LenProperties, CallFields, <2>1, ElementOfSeq DEF Size
<1>11. {calls'[b].todo[i] : i \in DOMAIN calls'[b].todo} = Members(b) \ Closing
  <2>1. ASSUME NEW i \in 1 .. p - 1 PROVE t[i] \in Members(b) \ Closing
    BY <1>7, <1>8, <1>4
  <2>2. ASSUME NEW x \in Members(b), x \notin Closing
        PROVE  \E i \in 1 .. p - 1 : x = t[i]
    <3>1. PICK i \in 1 .. Len(t) : x = t[i]
      BY <1>4
    <3> QED BY <3>1, <1>4, <1>8, <2>2
  <2>3. \A i \in 1 .. p - 1 : calls'[b].todo[i] = t[i]
    BY <1>5
  <2> QED BY <1>10, <2>1, <2>2, <2>3
<1>12. m \in Closing /\ Closing \subseteq Members(b)
  BY <1>1, <1>3, RecordsType DEF Closing
<1>13. \A x \in Closing : x \in Graph(m) /\ (Clean(b, x) => m \in Graph(x))
  BY <1>1, <1>3, <1>12 DEF Tree, Under, Closing
<1>14. /\ DOMAIN calls'[b].todo \subseteq DOMAIN calls[b].todo
       /\ \A i \in DOMAIN calls'[b].todo : calls'[b].todo[i] = calls[b].todo[i]
  BY <1>1, <1>4, <1>5, <1>10
<1> QED BY <1>1, <1>2, <1>5, <1>6, <1>9, <1>11, <1>12, <1>13, <1>14

(* The root of a component takes it off the list. *)
LEMMA TreesComponent ==
  ASSUME TypeOK, Shaped, Trees, program' = program, tangled' = tangled, Close, Low(Top.m) = Index(Top.m)
  PROVE  Trees'
<1>1. PICK s, q, b, m : s = Size /\ q = Size - 1 /\ b = Base /\ m = Top.m
  OBVIOUS
<1>2. InEvaluation /\ Top.at = "inner"
  BY DEF Close, On, InEvaluation, Resumed
<1>3. /\ Visits(s, b) /\ m \in Members(b) /\ b \in Evaluations /\ Tree(b) /\ b < s /\ Top = calls[s]
      /\ \A x \in Members(b) : Index(m) <= Index(x) => Nearest(s, b, x)
      /\ \A x \in Members(b) : Clean(b, x) => m \in Graph(x)
      /\ m \in Module
  BY <1>1, <1>2, TopVisit
<1>4. /\ \A k \in Evaluations : k <= b /\ k \in 1 .. s
      /\ \A j, k : In(j, k) => j \in 1 .. s /\ k \in 1 .. s
      /\ \A j, k : In(j, k) /\ k # b => j < b
      /\ DOMAIN calls = 1 .. s /\ s \in Nat /\ q \in Nat /\ s > 0 /\ b \in 1 .. s
  BY <1>1, <1>2, <1>3, Regions, CallsType
<1>5. PICK K : K = Closing
  OBVIOUS
<1>6. /\ m \in K /\ K \subseteq Members(b) /\ Typed /\ Size' = q
      /\ \A j \in 1 .. q : j # b => calls'[j] = calls[j]
      /\ calls'[b].at = "evaluate" /\ calls'[b].m = calls[b].m /\ calls'[b].i = calls[b].i
      /\ DOMAIN calls'[b].todo \subseteq DOMAIN calls[b].todo
      /\ \A i \in DOMAIN calls'[b].todo : calls'[b].todo[i] = calls[b].todo[i]
      /\ Members(b)' = Members(b) \ K
      /\ \A x \in Module :
           /\ x \in K => records'[x].status \notin {"evaluating", "linked"}
           /\ x \notin K => records'[x].status = records[x].status
      /\ SameIndex
  BY <1>1, <1>5, ClosingFacts DEF Members
<1>7. /\ Keeps(q) /\ calls' \in Seq(Call) /\ DOMAIN calls' = 1 .. q
  BY <1>6, LenProperties, <1>1, <1>3, ShapedClose DEF Typed, Size
<1>8. /\ \A j, k : Visits(j, k)' <=> Visits(j, k) /\ j # s
      /\ \A j, k : In(j, k)' => In(j, k) /\ j # s /\ j \in 1 .. q
  <2>1. \A j, k : In(j, k)' => In(j, k) /\ j # s /\ j \in 1 .. q
    BY <1>1, <1>4, <1>7, Prefix DEF In
  <2> QED BY <2>1, <1>7, Prefix, <1>1, <1>4 DEF Visits
<1>9. Evaluations' = Evaluations /\ \A k \in Evaluations : k \in 1 .. q
  BY <1>7, Prefix, <1>1, <1>3, <1>4 DEF Evaluations
<1>10. \A k \in Evaluations : Members(k) \subseteq Module /\ calls[k].m \in Module
  BY <1>1, <1>4, MembersType
<1>11. \A x \in Module : Index(x)' = Index(x) /\ Low(x)' = Low(x) /\ Index(x) \in Nat /\ Low(x) \in Nat
  BY <1>6, RecordsType DEF SameIndex
<1>12. \A k \in Evaluations : k # b => Untouched(k)
  <2> SUFFICES ASSUME NEW k \in Evaluations, k # b PROVE Untouched(k)
    OBVIOUS
  <2>1. calls'[k] = calls[k]
    BY <1>6, <1>9
  <2>2. \A j \in q + 1 .. Size : ~Visits(j, k)
    BY <1>1, <1>4 DEF Visits
  <2>3. Visits(q, k) => calls'[q] = calls[q]
    BY <1>6, <1>3, <1>4 DEF Visits, Evaluations
  <2>4. \A x \in Members(k) : x \notin K /\ x \in Module
    BY <1>3, <1>6, <1>10 DEF Trees
  <2>5. records'[calls[k].m].status = "linked" => records[calls[k].m].status = "linked"
    BY <1>6, <1>10
  <2> QED BY <1>6, <1>7, <1>9, <1>11, <2>1, <2>2, <2>3, <2>4, <2>5, UntouchedBy
<1>13. \A k \in Evaluations : k # b => Tree(k)' /\ Members(k)' = Members(k)
  BY <1>12, TreeKept DEF Trees, Untouched, Members
<1>14. /\ \A x : requested(x)' = requested(x) /\ cyclic(x)' = cyclic(x) /\ Graph(x)' = Graph(x)
       /\ \A x \in Module : Clean(b, x)' <=> Clean(b, x)
  BY ProgramKept DEF Clean, Orderly
<1>15. \A x \in Members(b) : x \in Module /\ (x \in K <=> Index(m) <= Index(x))
  BY <1>1, <1>3, <1>5, <1>10 DEF Closing
<1>16. \A x \in Members(b)' : x \in Members(b) /\ x \in Module /\ x # m /\ Index(x) < Index(m)
                               /\ records'[x].status = records[x].status
  BY <1>3, <1>6, <1>11, <1>15
<1>17. \A j : Visits(j, b) /\ j # s =>
         /\ j \in 1 .. q /\ j # b /\ calls'[j] = calls[j] /\ calls[j].m \in Members(b)'
         /\ calls[j].m \in Module /\ Index(calls[j].m)' = Index(calls[j].m) /\ Low(calls[j].m)' = Low(calls[j].m)
         /\ Index(calls[j].m) < Index(m)
  <2> SUFFICES ASSUME NEW j, Visits(j, b), j # s
               PROVE  /\ j \in 1 .. q /\ j # b /\ calls'[j] = calls[j] /\ calls[j].m \in Members(b)'
                      /\ calls[j].m \in Module
                      /\ Index(calls[j].m)' = Index(calls[j].m) /\ Low(calls[j].m)' = Low(calls[j].m)
                      /\ Index(calls[j].m) < Index(m)
    OBVIOUS
  <2>1. Index(calls[j].m) < Index(calls[s].m) /\ calls[s].m = m
    <3>1. j < s
      BY <1>1, <1>4 DEF Visits, In
    <3> QED BY <1>1, <1>3, <3>1 DEF Tree, Visited
  <2> QED BY <1>6, <2>1, <1>3, <1>11, <1>15, <1>10, <1>1, <1>4 DEF Tree, Visited, Index, Low, Visits, In
<1>18. Numbered(b)'
  BY <1>11, <1>14, <1>16, <1>3, <1>6, <1>10 DEF Numbered, Tree, Index, Members
<1>19. Visited(b)'
  BY <1>3, <1>8, <1>17 DEF Visited, Tree
<1>20. FromRoot(b)'
  BY <1>6, <1>3, <1>10, <1>11, <1>15, <1>16 DEF FromRoot, Tree, Index, Numbered
<1>21. ASSUME NEW x \in Members(b)', NEW j, Nearest(j, b, x)'
       PROVE  Nearest(j, b, x) /\ j # s
  BY <1>1, <1>3, <1>16, <1>8, <1>17, <1>11, <1>21 DEF Nearest
<1>22. Lowest(b)'
  <2> SUFFICES ASSUME NEW x \in Members(b)', NEW j, Nearest(j, b, x)'
               PROVE  calls'[j].m = x \/ (Low(calls[j].m) <= Low(x))' \/ Coming(j, b, x)'
    BY DEF Lowest
  <2>1. CASE Coming(j, b, x)
    <3>1. PICK y : y = requested(calls[j].m)[calls[j].i]
      OBVIOUS
    <3>2. y = (requested(calls[j].m)[calls[j].i])' /\ (calls[j].i <= Len(requested(calls[j].m)))'
      BY <1>14, <3>1, <1>11, <1>16, <1>17, <1>21, <2>1 DEF Nearest, Coming
    <3>3. y \in Members(b)' /\ Index(y)' = Index(y) /\ Low(y)' = Low(y)
      BY <1>11, <1>3, <1>6, <1>15, <1>16, <2>1, <3>1 DEF Coming
    <3> QED BY <3>2, <3>3, <1>11, <1>16, <1>17, <1>21, <2>1, <3>1 DEF Coming, Nearest
  <2> QED BY <2>1, <1>3, <1>16, <1>11, <1>17, <1>21 DEF Tree, Lowest, Nearest
<1>23. Open_(b)'
  <2> SUFFICES ASSUME NEW x \in Members(b)', Low(x)' = Index(x)'
               PROVE  \E j : Visits(j, b)' /\ calls'[j].m = x
    BY DEF Open_
  <2>1. PICK j : Visits(j, b) /\ calls[j].m = x
    BY <1>3, <1>11, <1>16 DEF Tree, Open_
  <2> QED BY <1>8, <1>17, <2>1, <1>1, <1>3, <1>11, <1>16
<1>24. Linked(b)'
  <2> SUFFICES ASSUME NEW x \in Members(b)', Low(x)' < Index(x)', Clean(b, x)
               PROVE  \E y \in Members(b)' : Index(y)' = Low(x)' /\ y \in Graph(x)
    BY <1>14, <1>16 DEF Linked
  <2>1. PICK y \in Members(b) : Index(y) = Low(x) /\ y \in Graph(x)
    BY <1>3, <1>11, <1>16 DEF Tree, Linked
  <2> QED BY <1>11, <1>16, <2>1, <1>3, <1>6, <1>15
<1>25. Reaching(b)'
  BY <1>14, <1>16, <1>3, <1>11, <1>17, <1>21, <1>8 DEF Reaching, Tree
<1>26. Under(b)'
  BY <1>3, <1>8, <1>11, <1>14, <1>16, <1>17, <1>6 DEF Under, Tree, In
<1>27. Tree(b)'
  BY <1>18, <1>19, <1>20, <1>22, <1>23, <1>24, <1>25, <1>26 DEF Tree
<1>28. \A x \in Module : records'[x].status = "evaluating" => \E k \in Evaluations : x \in Members(k)'
  <2> SUFFICES ASSUME NEW x \in Module, records'[x].status = "evaluating"
               PROVE  \E k \in Evaluations : x \in Members(k)'
    OBVIOUS
  <2>1. PICK k \in Evaluations : x \in Members(k)
    BY <1>6 DEF Trees
  <2> QED BY <1>6, <1>13, <2>1
<1> QED BY <1>9, <1>13, <1>27, <1>28, <1>6 DEF Trees

----------------------------------------------------------------------------

LEMMA TanglesQuiet ==
  ASSUME Tangles, TypeOK, program' = program, tangled' = tangled, calls' \in Seq(Call), NEW q, Keeps(q),
         Size' = q \/ (Size' = q + 1 /\ calls'[q + 1].at # "evaluate"),
         \A l \in 1 .. q : l \in Evaluations /\ (\E k \in Evaluations : l < k) => calls'[l].todo = calls[l].todo,
         \A x \in Module : records[x].cycleRoot # None => records'[x].cycleRoot # None
  PROVE  Tangles'
<1>1. \A k \in Evaluations' : k \in 1 .. q /\ k \in Evaluations
  BY Prefix DEF Keeps, Evaluations
<1> QED BY <1>1, TanglesKept, Prefix DEF Members, Keeps

(* What the operations on the stack leave of the lists. *)
LEMMA ListsKept ==
  ASSUME TypeOK
  PROVE  /\ \A f : Grows(f) => \A l \in 1 .. Size : calls'[l].todo = calls[l].todo
         /\ Shrinks => \A l \in 1 .. Size - 1 : calls'[l].todo = calls[l].todo
         /\ \A f : Turns(f) => \A l \in 1 .. Size : l \in Evaluations /\ (\E k \in Evaluations : l < k) => calls'[l].todo = calls[l].todo
         /\ \A f, g : Runs(f, g) => \A l \in 1 .. Size : l \in Evaluations /\ (\E k \in Evaluations : l < k) => calls'[l].todo = calls[l].todo
         /\ \A k : Cuts(k) => \A l \in 1 .. k - 1 : calls'[l].todo = calls[l].todo
<1>1. Size \in Nat /\ DOMAIN calls = 1 .. Size
  BY CallsType
<1> QED BY <1>1 DEF Grows, Shrinks, Turns, Runs, Cuts, Evaluations

LEMMA RootedSame ==
  ASSUME TypeOK, Rooted, program' = program, SameState
  PROVE  Rooted'
<1> QED BY ProgramKept, RecordsType DEF Rooted, SameState, hasError, Evaluated

LEMMA RootedEnter ==
  ASSUME TypeOK, Shaped, Rooted, program' = program, Enter
  PROVE  Rooted'
<1>1. PICK c \in Module : /\ c = Callee /\ cyclic(c) /\ records[c].status = "linked"
        /\ \A x \in Module :
             /\ records'[x].status = IF x = c THEN "evaluating" ELSE records[x].status
             /\ records'[x].error = records[x].error
             /\ records'[x].cycleRoot = records[x].cycleRoot
  BY EnterFacts, CalleeType
<1>2. /\ \A x : cyclic(x)' = cyclic(x)
      /\ \A x \in Module : records[x].cycleRoot \in Module \cup {None}
  BY ProgramKept, RecordsType
<1> QED BY <1>1, <1>2 DEF Rooted, Evaluated, hasError

LEMMA RootedSynthetic ==
  ASSUME TypeOK, Shaped, Rooted, program' = program, EnterSynthetic
  PROVE  Rooted'
<1>1. PICK c \in Module : /\ c = Callee /\ ~cyclic(c)
        /\ \A x \in Module :
             /\ records'[x].status = IF x = c THEN "evaluated" ELSE records[x].status
             /\ records'[x].error = records[x].error
             /\ records'[x].cycleRoot = records[x].cycleRoot
  BY EnterSyntheticFacts, CalleeType
<1>2. /\ \A x : cyclic(x)' = cyclic(x)
      /\ \A x \in Module : records[x].cycleRoot \in Module \cup {None}
  BY ProgramKept, RecordsType
<1> QED BY <1>1, <1>2 DEF Rooted, hasError, Evaluated

LEMMA RootedFails ==
  ASSUME TypeOK, Rooted, program' = program, NEW F \in SUBSET Module, NEW e \in Module,
         \A x \in F : cyclic(x) => records[x].status # "linked",
         \A x \in Module :
           /\ records'[x].status = IF x \in F THEN "evaluated" ELSE records[x].status
           /\ records'[x].error = IF x \in F THEN e ELSE records[x].error
           /\ records'[x].cycleRoot = records[x].cycleRoot
  PROVE  Rooted'
<1>1. /\ \A x : cyclic(x)' = cyclic(x)
      /\ \A x \in Module : records[x].cycleRoot \in Module \cup {None}
      /\ e # None
  BY ProgramKept, RecordsType, EsmAssumption
<1> QED BY <1>1 DEF Rooted, hasError, Evaluated

LEMMA RootedCut ==
  ASSUME TypeOK, Shaped, Rooted, Trees, InEvaluation, program' = program, NEW e \in Module, Unwind(e)
  PROVE  Rooted'
<1>1. \A x \in Module :
         /\ records'[x].status = IF x \in Failed THEN "evaluated" ELSE records[x].status
         /\ records'[x].error = IF x \in Failed THEN e ELSE records[x].error
         /\ records'[x].cycleRoot = records[x].cycleRoot
  BY UnwindFacts
<1>2. PICK b, s : b = Base /\ s = Size /\ b \in Evaluations /\ b \in 1 .. s /\ Top.m \in Module
  BY Regions, CallsType, CallFields DEF InEvaluation
<1>3. Failed \in SUBSET Module
  BY <1>2, MembersType DEF Failed
<1>4. \A x \in Failed : cyclic(x) => records[x].status # "linked"
  BY <1>2 DEF Trees, Tree, Numbered, Failed
<1> QED BY <1>1, <1>3, <1>4, RootedFails

LEMMA RootedRejected ==
  ASSUME TypeOK, Rooted, program' = program, NEW m \in Module, records' = Rejected(m)
  PROVE  Rooted'
<1>1. /\ \A x : cyclic(x)' = cyclic(x)
      /\ \A x \in Module : records[x].cycleRoot \in Module \cup {None}
      /\ m # None
  BY ProgramKept, RecordsType, EsmAssumption
<1>2. PICK F : F = Dependents(m)
  OBVIOUS
<1> QED BY <1>1, <1>2, RejectedFacts DEF Rooted, hasError, Evaluated

LEMMA RootedFulfilled ==
  ASSUME TypeOK, Rooted, program' = program, NEW m \in Module, records' = Fulfilled(records, m),
         records[m].status = "evaluating-async"
  PROVE  Rooted'
<1>1. /\ \A x : cyclic(x)' = cyclic(x)
      /\ \A x \in Module : records[x].cycleRoot \in Module \cup {None}
  BY ProgramKept, RecordsType
<1> QED BY <1>1, FulfilledFacts DEF Rooted, hasError, Evaluated

LEMMA RootedComponent ==
  ASSUME TypeOK, Shaped, Rooted, Trees, program' = program, Close, Low(Top.m) = Index(Top.m)
  PROVE  Rooted'
<1>1. PICK m, K, b : m = Top.m /\ K = Closing /\ b = Base
  OBVIOUS
<1>2. /\ m \in K /\ K \subseteq Members(b) /\ Top.at = "inner"
      /\ \A x \in Module :
           /\ records'[x].status = IF x \in K
                   THEN IF records[x].asyncEvaluation THEN "evaluating-async" ELSE "evaluated"
                   ELSE records[x].status
           /\ records'[x].cycleRoot = IF x \in K THEN m ELSE records[x].cycleRoot
           /\ records'[x].error = records[x].error
  BY <1>1, ClosingFacts
<1>3. /\ \A x : cyclic(x)' = cyclic(x)
      /\ \A x \in Module : records[x].cycleRoot \in Module \cup {None}
      /\ m \in Module
  <2>1. InEvaluation
    BY <1>2 DEF Close, On, InEvaluation, Resumed
  <2> QED BY <1>1, <1>2, <2>1, ProgramKept, RecordsType, TopVisit
<1>4. \A x \in K : records[x].status = "evaluating" /\ cyclic(x)
  <2>1. InEvaluation
    BY <1>2 DEF Close, On, InEvaluation, Resumed
  <2> QED BY <1>1, <1>2, <2>1, TopVisit DEF Tree, Numbered
<1> QED BY <1>3, <1>2, <1>4, EsmAssumption DEF Rooted, Evaluated, hasError

----------------------------------------------------------------------------

(* A require that meets a module underway tangles its graph. *)
LEMMA TanglesEvaluate ==
  ASSUME TypeOK, Shaped, Rooted, Trees, Tangles, program' = program, NEW m \in Module, evaluate(m),
         (Idle /\ tangled' = tangled) \/ requireModule(m)
  PROVE  Tangles'
<1>1. PICK s, r : s = Size /\ r = Root(m)
  OBVIOUS
<1>2. /\ s \in Nat /\ r \in Module /\ Grows(Frame("evaluate", r)) /\ Typed /\ SameState /\ Size' = s + 1
      /\ DOMAIN calls = 1 .. s
  BY <1>1, evaluateFacts, CallsType, KeepsRules
<1>3. /\ calls'[s + 1] = Frame("evaluate", r) /\ \A j \in 1 .. s : calls'[j] = calls[j]
      /\ DOMAIN calls' = 1 .. s + 1
  BY <1>1, <1>2, LenProperties DEF Typed, Grows, Size
<1> SUFFICES ASSUME NEW k \in Evaluations', Unsettled(calls[k].m)'
             PROVE  /\ \A j \in 1 .. k - 1 : (calls[j].m \in Graph(calls[k].m) => Graph(calls[k].m) \subseteq tangled)'
                    /\ \A l \in Evaluations' : \A x \in Members(l)' :
                         l < k /\ (x \in Graph(calls[k].m))' => (Graph(calls[k].m) \subseteq tangled)'
  BY DEF Tangles
<1>4. CASE k \in 1 .. s
  <2>1. k \in Evaluations /\ calls'[k] = calls[k] /\ calls[k].m \in Module /\ Unsettled(calls[k].m)
    BY <1>1, <1>2, <1>3, <1>4, CallsType, CallFields, ProgramKept DEF Evaluations, Unsettled, SameState,
       requireModule
  <2>2. \A l \in Evaluations' : l < k => l \in Evaluations /\ Members(l)' = Members(l)
    BY <1>2, <1>4, <1>3 DEF Members, Evaluations
  <2> QED BY <2>1, <2>2, <1>2, <1>3, <1>4, ProgramKept DEF Tangles, Unsettled, SameState, requireModule
<1>5. CASE k = s + 1
  <2>1. Unsettled(r) /\ r = m
    BY <1>2, <1>1, EsmAssumption, <1>5, <1>3, FrameType, ProgramKept DEF Unsettled, Rooted, Root, SameState,
       requireModule
  <2>2. (\E d \in Graph(m) : Underway(d)) => Graph(m) \subseteq tangled'
    BY GraphRules, NoEvaluations, CallsType DEF requireModule, Underway, Trees
  <2> QED BY <1>5, <2>2, <1>2, <1>3, <2>1, FrameType, ProgramKept DEF Underway, Trees, Tree, Numbered, Members,
       Evaluations, Unsettled, SameState, requireModule
<1> QED BY <1>4, <1>5, <1>2, <1>3 DEF Evaluations

\* The skeleton of the invariant: the stack and what is being evaluated.
Skeleton == Shaped /\ Rooted /\ Trees /\ Tangles

\* What the other parts of the invariant say of completions.
Ready ==
  /\ Countable
  /\ On("body") /\ Resumed => records[Top.m].status = "evaluating-async"
  /\ On("completion") => \A x \in Top.list : cyclic(x)
  /\ Idle => \A m \in suspended : Evaluated(m) \/ records[m].status = "evaluating-async"

LEMMA SkeletonEvaluate ==
  ASSUME TypeOK, Skeleton, program' = program, NEW m \in Module, Import(m) \/ requireModule(m)
  PROVE  Typed /\ Skeleton'
<1> QED BY ShapedEvaluate, RootedSame, TreesEvaluate, TanglesEvaluate, evaluateFacts DEF Skeleton, Import,
     requireModule

LEMMA SkeletonEnter ==
  ASSUME TypeOK, Skeleton, program' = program, tangled' = tangled, Enter
  PROVE  Typed /\ Skeleton'
<1>1. /\ Typed /\ Size' = Size + 1 /\ calls'[Size + 1] = Frame("inner", Callee) /\ Callee \in Module
      /\ \A j \in 1 .. Size : j # Base => calls'[j] = calls[j]
      /\ \A x \in Module : records'[x].cycleRoot = records[x].cycleRoot
      /\ InEvaluation
  BY EnterFacts, CalleeType DEF Skeleton
<1>2. PICK q : q = Size
  OBVIOUS
<1>3. \A l \in 1 .. q : (\E k \in Evaluations : l < k) => calls'[l].todo = calls[l].todo
  BY <1>1, <1>2, Regions DEF Skeleton
<1> QED BY <1>1, <1>3, TanglesQuiet, <1>2, FrameType, ShapedEnter, RootedEnter, TreesEnter DEF Skeleton, Typed

LEMMA SkeletonSynthetic ==
  ASSUME TypeOK, Skeleton, program' = program, tangled' = tangled, EnterSynthetic
  PROVE  Typed /\ Skeleton'
<1>1. Shaped' /\ Rooted' /\ Trees'
  BY ShapedSynthetic, RootedSynthetic, TreesSynthetic DEF Skeleton
<1>2. PICK q : q = Size
  OBVIOUS
<1> QED BY <1>1, TanglesQuiet, <1>2, KeepsRules, ListsKept, FrameType, EnterSyntheticFacts, CalleeType DEF
     Skeleton, Typed, Grows

LEMMA SkeletonCut ==
  ASSUME TypeOK, Skeleton, program' = program, tangled' = tangled, InEvaluation, NEW e \in Module, Unwind(e)
  PROVE  Typed /\ Skeleton'
<1>1. Shaped' /\ Rooted' /\ Trees'
  BY ShapedShrinks, RootedCut, TreesCut, UnwindFacts, Bases DEF Skeleton, Typed
<1>2. PICK q : q = Base - 1
  OBVIOUS
<1> QED BY <1>1, TanglesQuiet, <1>2, KeepsRules, ListsKept, UnwindFacts, Bases DEF Skeleton, Typed

LEMMA SkeletonRethrow ==
  ASSUME TypeOK, Skeleton, program' = program, tangled' = tangled, Rethrow
  PROVE  Typed /\ Skeleton'
<1> QED BY SkeletonCut, RethrowFacts DEF Rethrow, Skeleton

LEMMA SkeletonDepend ==
  ASSUME TypeOK, Skeleton, program' = program, tangled' = tangled, Depend
  PROVE  Typed /\ Skeleton'
<1>1. PICK q : q = Size
  OBVIOUS
<1> QED BY TanglesQuiet, <1>1, ListsKept, ShapedDepend, RootedSame, TreesDepend, DependFacts DEF Skeleton, Typed,
     SameState, Turns

LEMMA SkeletonRuns ==
  ASSUME TypeOK, Skeleton, program' = program, tangled' = tangled, Execute \/ EvaluateAsync
  PROVE  Typed /\ Skeleton'
<1>1. /\ Runs(Step(Top), Frame("body", Top.m)) \/ Turns(Step(Top))
      /\ Typed /\ SameState /\ SameIndex /\ Looked /\ Top.m \in Module
  BY ExecuteFacts, EvaluateAsyncFacts, LookedFacts
<1>2. calls' \in Seq(Call) /\ (Runs(Step(Top), Frame("body", Top.m)) \/ Turns(Step(Top)))
  BY <1>1 DEF Typed
<1>3. Shaped' /\ Keeps(Size) /\ Rooted' /\ Trees'
  BY <1>1, <1>2, ShapedRuns, RootedSame, TreesRuns DEF Skeleton
<1>4. PICK q : q = Size
  OBVIOUS
<1>5. Size' = q \/ (Size' = q + 1 /\ calls'[q + 1].at # "evaluate")
  BY <1>1, <1>2, <1>3, <1>4, FrameType DEF Turns, Runs
<1>6. \A l \in 1 .. q : l \in Evaluations /\ (\E k \in Evaluations : l < k) => calls'[l].todo = calls[l].todo
  BY <1>2, <1>4, ListsKept
<1>7. Keeps(q)
  BY <1>3, <1>4
<1>8. Tangles'
  BY <1>1, <1>2, <1>5, <1>6, <1>7, TanglesQuiet DEF Skeleton, SameState
<1> QED BY <1>1, <1>3, <1>8 DEF Skeleton

----------------------------------------------------------------------------

LEMMA SkeletonClose ==
  ASSUME TypeOK, Skeleton, program' = program, tangled' = tangled, Close
  PROVE  Typed /\ Skeleton'
<1>1. InEvaluation /\ Top.at = "inner"
  BY DEF Close, On, InEvaluation, Resumed
<1>2. Typed /\ Shaped' /\ Keeps(Size - 1)
  BY CloseFacts, ShapedClose, <1>1, TopVisit, Regions DEF Skeleton
<1>3. PICK q : q = Size - 1
  OBVIOUS
<1>4. CASE Low(Top.m) # Index(Top.m)
  <2>1. Shrinks /\ SameState
    BY <1>4, CloseFacts, <1>1, TopVisit, Regions DEF Skeleton
  <2> QED BY <1>2, <2>1, TanglesQuiet, <1>3, ListsKept, <1>4, RootedSame, TreesLeave DEF Skeleton, SameState,
       Typed, Shrinks
<1>5. CASE Low(Top.m) = Index(Top.m)
  <2>1. /\ Size' = q
        /\ \A j \in 1 .. q : j # Base => calls'[j] = calls[j]
        /\ \A x \in Module : records'[x].cycleRoot = IF x \in Closing THEN Top.m ELSE records[x].cycleRoot
        /\ Top.m \in Module
    BY <1>3, <1>5, ClosingFacts, <1>1, TopVisit DEF Skeleton
  <2>2. Rooted' /\ Trees'
    BY <1>5, RootedComponent, TreesComponent DEF Skeleton
  <2>3. \A l \in 1 .. q : (\E k \in Evaluations : l < k) => calls'[l].todo = calls[l].todo
    <3> SUFFICES ASSUME NEW l \in 1 .. q, NEW k \in Evaluations, l < k PROVE calls'[l].todo = calls[l].todo
      OBVIOUS
    <3>1. Base \in Nat /\ k \in Nat /\ k <= Base
      BY CallsType, <1>1, TopVisit, Regions DEF Evaluations, Skeleton
    <3> QED BY <2>1, <3>1
  <2> QED BY <1>2, <2>2, <2>1, <2>3, TanglesQuiet, <1>3, EsmAssumption DEF Skeleton, Typed
<1> QED BY <1>4, <1>5

(* A call that is popped. *)
LEMMA TanglesPop ==
  ASSUME TypeOK, Skeleton, program' = program, tangled' = tangled, Shrinks, Typed,
         \A x \in Module : records[x].cycleRoot # None => records'[x].cycleRoot # None
  PROVE  Tangles'
<1>1. PICK q : q = Size - 1
  OBVIOUS
<1> QED BY TanglesQuiet, <1>1, KeepsRules, ListsKept DEF Skeleton, Typed

LEMMA SkeletonConclude ==
  ASSUME TypeOK, Skeleton, program' = program, tangled' = tangled, Conclude
  PROVE  Typed /\ Skeleton'
<1> QED BY TanglesPop, ShapedShrinks, RootedSame, TreesConclude, ConcludeFacts DEF Skeleton, SameState, Typed

LEMMA SkeletonReturns ==
  ASSUME TypeOK, Skeleton, Ready, program' = program, tangled' = tangled, BodyReturns \/ BodySuspends
  PROVE  Typed /\ Skeleton'
<1>1. On("body") /\ Shrinks /\ Typed /\ Top.m \in Module
  BY ReturnFacts, SuspendFacts, BodyFacts DEF Skeleton
<1>2. CASE records' = records
  BY <1>1, ShapedShrinks, TreesReturns, RootedSame, TanglesPop, <1>2, SameRecords DEF Skeleton, Typed, SameState
<1>3. CASE Resumed /\ records' = Fulfilled(records, Top.m)
  BY <1>1, ShapedShrinks, TreesReturns, <1>3, RootedFulfilled, TanglesPop, FulfilledFacts DEF Skeleton, Typed,
     Ready
<1> QED BY <1>2, <1>3, ReturnFacts, SuspendFacts DEF Skeleton

LEMMA SkeletonThrows ==
  ASSUME TypeOK, Skeleton, program' = program, tangled' = tangled, BodyThrows
  PROVE  Typed /\ Skeleton'
<1> QED BY SkeletonCut, TanglesPop, RejectedFacts, ShapedShrinks, RootedRejected, TreesThrows, ThrowFacts DEF
     Skeleton, Typed

LEMMA TanglesNone ==
  ASSUME Evaluations' = {}
  PROVE  Tangles'
BY DEF Tangles

LEMMA SkeletonSettles ==
  ASSUME TypeOK, Skeleton, Ready, program' = program, tangled' = tangled, NEW m \in Module, Settles(m)
  PROVE  Typed /\ Skeleton'
<1>1. Idle /\ m \in suspended
  BY DEF Settles, asyncModuleExecutionFulfilled, asyncModuleExecutionRejected
<1>2. Evaluations = {} /\ Trees'
  BY <1>1, NoEvaluations, TreesSettles DEF Skeleton
<1>3. CASE asyncModuleExecutionFulfilled(m)
  <2>1. Typed /\ Shaped'
    BY <1>3, SettledFacts, ShapedFulfilled DEF Skeleton
  <2>2. CASE ~Evaluated(m)
    <3>1. records' = Fulfilled(records, m) /\ Size' = 1 /\ calls'[1].at = "completion"
      BY <1>3, <2>2, SettledFacts
    <3> QED BY <1>2, <2>1, <3>1, TanglesNone, RootedFulfilled, <1>1, <2>2, LenProperties DEF Skeleton, Ready,
         Evaluations, Typed, Size
  <2> QED BY <2>2, <1>2, <2>1, TanglesNone, RootedSame, SameRecords, <1>3, SettledFacts DEF Skeleton, Evaluations
<1>4. CASE asyncModuleExecutionRejected(m)
  BY <1>2, TanglesNone, RootedRejected, RejectedFacts, CallsType, <1>1, <1>4 DEF Skeleton, Typed, Evaluations,
     Shaped, Size, asyncModuleExecutionRejected
<1> QED BY <1>3, <1>4 DEF Settles

LEMMA SkeletonCompletion ==
  ASSUME TypeOK, Skeleton, program' = program, tangled' = tangled, Typed, SameState,
         On("completion"), NEW f, f.at = "completion", f.m = Top.m,
         \/ Shrinks
         \/ Turns(f)
         \/ \E x \in Module : cyclic(x) /\ Runs(f, Frame("body", x))
  PROVE  Skeleton'
<1>1. Evaluations = {} /\ Size = 1
  BY CompletionFacts DEF Skeleton
<1>2. Evaluations' = {}
  <2>1. CASE \E x \in Module : Runs(f, Frame("body", x))
    <3>1. PICK x \in Module : Runs(f, Frame("body", x))
      BY <2>1
    <3> QED BY <1>1, <3>1, FrameType, LenProperties DEF Evaluations, Runs, Size, Typed
  <2> QED BY <2>1, <1>1, LenProperties DEF Shrinks, Evaluations, Turns, Size, Typed
<1> QED BY <1>2, TanglesNone, TreesCompletion, RootedSame, ShapedCompletion DEF Skeleton, Typed

LEMMA SkeletonGather ==
  ASSUME TypeOK, Skeleton, Ready, program' = program, tangled' = tangled, Gather
  PROVE  Typed /\ Skeleton'
<1> DEFINE p == Head(Top.todo)
           f == [Top EXCEPT !.todo = Tail(Top.todo)]
           g == [Top EXCEPT !.todo = IF Pending(p) = 1 THEN Onward(p) \o Tail(Top.todo) ELSE Tail(Top.todo),
                            !.list = IF Pending(p) = 1 THEN @ \cup {p} ELSE @]
<1>1. Typed /\ SameState /\ (Shrinks \/ Turns(f) \/ Turns(g))
  BY GatherFacts, CompletionFacts, SameRecords DEF Skeleton, Ready, Countable, Gather
<1>2. f.at = "completion" /\ f.m = Top.m /\ g.at = "completion" /\ g.m = Top.m
  BY CompletionFacts DEF Call, On, Gather, Skeleton
<1> HIDE DEF f, g
<1> QED BY <1>1, <1>2, SkeletonCompletion, CompletionFacts DEF Gather, Skeleton

LEMMA SkeletonGathered ==
  ASSUME TypeOK, Skeleton, program' = program, tangled' = tangled, SkipGathered \/ Completed
  PROVE  Typed /\ Skeleton'
<1> QED BY SameRecords, SkeletonCompletion, CompletedFacts, SkipFacts DEF On, Skeleton

LEMMA SkeletonRunGathered ==
  ASSUME TypeOK, Skeleton, program' = program, tangled' = tangled, ExecuteGathered, cyclic(First)
  PROVE  Typed /\ Skeleton'
<1> QED BY SameRecords, SkeletonCompletion, RunGatheredFacts DEF Skeleton

----------------------------------------------------------------------------

(* The types of the other variables. *)
LEMMA TypeStep ==
  ASSUME TypeOK, Next, Typed, Shaped
  PROVE  TypeOK'
<1>1. asyncOrder' \in Nat
  <2>1. asyncOrder' = asyncOrder \/ asyncOrder' = asyncOrder + 1
    BY DEF Next, Import, requireModule, evaluate, Settles, asyncModuleExecutionFulfilled,
       asyncModuleExecutionRejected, Runtime, Ends, Enter, EnterSynthetic, Rethrow, Depend, Execute, EvaluateAsync,
       Close, Conclude, Gather, ExecuteGathered, SkipGathered, Completed, BodyReturns, BodySuspends, BodyThrows
  <2> QED BY <2>1 DEF TypeOK
<1>2. /\ asked' \in 0 .. MaxCalls
  <2>1. asked' = asked \/ \E m \in Module : evaluate(m)
    BY DEF Next, Import, requireModule, Settles, asyncModuleExecutionFulfilled, asyncModuleExecutionRejected,
       Runtime, Ends, Enter, EnterSynthetic, Rethrow, Depend, Execute, EvaluateAsync, Close, Conclude, Gather,
       ExecuteGathered, SkipGathered, Completed, BodyReturns, BodySuspends, BodyThrows, history
  <2> QED BY <2>1, EsmAssumption DEF TypeOK, evaluate
<1>3. tangled' \subseteq Module
  <2>1. tangled' = tangled \/ \E m \in Module : requireModule(m)
    BY DEF Next, Import, Settles, asyncModuleExecutionFulfilled, asyncModuleExecutionRejected, Runtime, Ends,
       Enter, EnterSynthetic, Rethrow, Depend, Execute, EvaluateAsync, Close, Conclude, Gather, ExecuteGathered,
       SkipGathered, Completed, BodyReturns, BodySuspends, BodyThrows, history
  <2> QED BY <2>1, GraphRules DEF TypeOK, requireModule
<1>4. abandoned' \in BOOLEAN
  BY DEF TypeOK, Next, Import, requireModule, evaluate, Settles, asyncModuleExecutionFulfilled,
     asyncModuleExecutionRejected, Runtime, Ends, Enter, EnterSynthetic, Rethrow, Depend, Execute, EvaluateAsync,
     Close, Conclude, Gather, ExecuteGathered, SkipGathered, Completed, BodyReturns, BodySuspends, BodyThrows,
     history
<1>5. suspended' \subseteq Module
  <2>1. suspended' \subseteq suspended \/ BodySuspends
    BY DEF Next, Import, requireModule, evaluate, Settles, asyncModuleExecutionFulfilled,
       asyncModuleExecutionRejected, Runtime, Ends, Enter, EnterSynthetic, Rethrow, Depend, Execute, EvaluateAsync,
       Start, Close, Conclude, Gather, ExecuteGathered, SkipGathered, Completed, BodyReturns, BodyThrows, bodies
  <2> QED BY <2>1, SuspendFacts, BodyFacts DEF TypeOK
<1>6. finished' \subseteq Module
  <2>1. ASSUME BodyReturns PROVE finished' \subseteq Module
    BY <2>1, ReturnFacts, BodyFacts DEF TypeOK
  <2>2. finished' = finished \/ BodyReturns \/ \E m \in Module : asyncModuleExecutionFulfilled(m)
    BY DEF Next, Import, requireModule, evaluate, Settles, asyncModuleExecutionRejected, Runtime, Ends, Enter,
       EnterSynthetic, Rethrow, Depend, Execute, EvaluateAsync, Start, Close, Conclude, Gather, ExecuteGathered,
       SkipGathered, Completed, BodyThrows, BodySuspends, bodies
  <2> QED BY <2>1, <2>2, SettledFacts DEF TypeOK
<1>7. started' \in Seq(Module)
  <2>1. ASSUME NEW m \in Module, started' = Append(started, m) PROVE started' \in Seq(Module)
    BY <2>1, AppendProperties DEF TypeOK
  <2>2. started' = started \/ EnterSynthetic \/ Execute \/ EvaluateAsync \/ ExecuteGathered
    BY DEF Next, Import, requireModule, evaluate, Settles, asyncModuleExecutionFulfilled,
       asyncModuleExecutionRejected, Runtime, Ends, Enter, Rethrow, Depend, Close, Conclude, Gather, SkipGathered,
       Completed, BodyReturns, BodyThrows, BodySuspends, bodies
  <2>3. ASSUME EnterSynthetic PROVE started' \in Seq(Module)
    BY <2>1, <2>3, EnterSyntheticFacts, CalleeType
  <2> QED BY <2>2, <2>3, <2>1, RunGatheredFacts, EvaluateAsyncFacts, LookedFacts, ExecuteFacts DEF TypeOK
<1> QED BY <1>1, <1>2, <1>3, <1>4, <1>5, <1>6, <1>7, ProgramStays DEF TypeOK, RecordType, Call, Typed

(* The skeleton and the types are kept by every step. *)
LEMMA SkeletonStep ==
  ASSUME TypeOK, Skeleton, Ready, Next
  PROVE  TypeOK' /\ Skeleton'
<1>1. program' = program
  BY ProgramStays
<1> SUFFICES Typed /\ Skeleton'
  BY TypeStep DEF Skeleton
<1>2. CASE Runtime
  <2>1. tangled' = tangled
    BY <1>2 DEF Runtime, Enter, EnterSynthetic, Rethrow, Depend, Execute, EvaluateAsync, Close, Conclude, Gather,
       ExecuteGathered, SkipGathered, Completed, history
  <2>2. CASE Enter \/ EnterSynthetic \/ Rethrow \/ Depend
    BY <1>1, <2>1, <2>2, SkeletonEnter, SkeletonSynthetic, SkeletonRethrow, SkeletonDepend
  <2>3. CASE Execute \/ EvaluateAsync \/ Close \/ Conclude
    BY <1>1, <2>1, <2>3, SkeletonRuns, SkeletonClose, SkeletonConclude
  <2>4. CASE ExecuteGathered
    BY <1>1, <2>1, <2>4, SkeletonRunGathered, FirstFacts, RunGatheredFacts DEF Ready, Skeleton
  <2> QED BY <1>2, <2>2, <2>3, <2>4, <1>1, <2>1, SkeletonGather, SkeletonGathered DEF Runtime
<1> QED BY <1>2, <1>1, SkeletonEvaluate, SkeletonReturns, SkeletonThrows, SkeletonSettles DEF Next, Ends,
     BodyReturns, BodySuspends, BodyThrows, history, Settles, asyncModuleExecutionFulfilled,
     asyncModuleExecutionRejected

----------------------------------------------------------------------------
(* How many elements of a sequence lie in a set. *)
Places(q, A) == {i \in DOMAIN q : q[i] \in A}
Num(q, A) == Cardinality(Places(q, A))

(* The places are finitely many. *)
LEMMA PlacesFinite ==
  ASSUME NEW S, NEW q \in Seq(S), NEW A
  PROVE  IsFiniteSet(Places(q, A)) /\ Num(q, A) \in Nat
<1>1. IsFiniteSet(1 .. Len(q))
  BY FS_Interval, LenProperties
<1> QED BY <1>1, FS_Subset, FS_CardinalityType, LenProperties DEF Num, Places

LEMMA PlacesNat ==
  ASSUME NEW S, NEW q \in Seq(S), NEW A
  PROVE  Places(q, A) \subseteq Nat
BY LenProperties DEF Places

(* Elements that all lie outside the set count for nothing. *)
LEMMA NumNone ==
  ASSUME NEW q, NEW A, \A i \in DOMAIN q : q[i] \notin A
  PROVE  Num(q, A) = 0
<1> QED BY FS_EmptySet DEF Num, Places

(* An element that is appended. *)
LEMMA NumAppend ==
  ASSUME NEW S, NEW q \in Seq(S), NEW t \in S, NEW A
  PROVE  Num(Append(q, t), A) = Num(q, A) + IF t \in A THEN 1 ELSE 0
<1> DEFINE n == Len(q)
<1>1. CASE t \in A
  <2>1. Places(Append(q, t), A) = Places(q, A) \cup {n + 1}
    BY <1>1, AppendProperties, LenProperties DEF Places
  <2>2. n + 1 \notin Places(q, A)
    BY LenProperties, AppendProperties DEF Places
  <2> QED BY <1>1, <2>1, <2>2, PlacesFinite, FS_AddElement DEF Num
<1>2. CASE t \notin A
  <2>1. Places(Append(q, t), A) = Places(q, A)
    BY <1>2, AppendProperties, LenProperties DEF Places
  <2> QED BY <1>2, <2>1, PlacesFinite DEF Num
<1> QED BY <1>1, <1>2

(* An element that is taken off the front. *)
LEMMA NumTail ==
  ASSUME NEW S, NEW q \in Seq(S), NEW A, q # <<>>
  PROVE  Num(Tail(q), A) = Num(q, A) - IF Head(q) \in A THEN 1 ELSE 0
<1> DEFINE n == Len(q)
<1>1. /\ n \in Nat \ {0} /\ DOMAIN q = 1 .. n /\ Tail(q) \in Seq(S)
      /\ DOMAIN Tail(q) = 1 .. n - 1 /\ Head(q) = q[1]
      /\ \A i \in 1 .. n - 1 : Tail(q)[i] = q[i + 1]
  BY LenProperties, HeadTailProperties, EmptySeq
<1> DEFINE T == Places(Tail(q), A)
           Q == Places(q, A) \ {1}
           f == [i \in T |-> i + 1]
<1> HIDE DEF n
<1>2. T \subseteq 1 .. n - 1 /\ Q \subseteq 2 .. n
  BY <1>1 DEF Places
<1>3. \A i \in T : i + 1 \in Q
  BY <1>1 DEF Places
<1>4. \A j \in Q : j - 1 \in T
  BY <1>1 DEF Places
<1>5. f \in Bijection(T, Q)
  <2> HIDE DEF T, Q
  <2> QED BY <1>2, <1>4, <1>3 DEF Bijection, Injection, Surjection, IsInjective
<1>6. Cardinality(Q) = Cardinality(T)
  <2>1. IsFiniteSet(T)
    BY <1>1, PlacesFinite
  <2> HIDE DEF T, Q
  <2> QED BY <2>1, FS_Bijection, <1>5 DEF ExistsBijection
<1>7. Cardinality(Q) = Num(q, A) - IF 1 \in Places(q, A) THEN 1 ELSE 0
  <2>1. Cardinality(Places(q, A) \ {1}) =
          IF 1 \in Places(q, A) THEN Cardinality(Places(q, A)) - 1 ELSE Cardinality(Places(q, A))
    BY FS_RemoveElement, PlacesFinite
  <2> QED BY <2>1, PlacesFinite DEF Num
<1>8. 1 \in Places(q, A) <=> Head(q) \in A
  BY <1>1 DEF Places
<1> QED BY <1>6, <1>7, <1>8 DEF Num

(* A sequence that is appended. *)
LEMMA PlacesConcat ==
  ASSUME NEW S, NEW q \in Seq(S), NEW r \in Seq(S), NEW A
  PROVE  /\ Len(q) \in Nat /\ Len(r) \in Nat
         /\ Places(q, A) \subseteq 1 .. Len(q)
         /\ Places(q \o r, A) =
              Places(q, A) \cup {i \in Len(q) + 1 .. Len(q) + Len(r) : r[i - Len(q)] \in A}
         /\ DOMAIN r = 1 .. Len(r)
<1> DEFINE n == Len(q)
           m == Len(r)
<1> HIDE DEF n, m
<1> QED BY LenProperties, ConcatProperties DEF n, m, Places

(* A sequence that is appended. *)
LEMMA NumConcat ==
  ASSUME NEW S, NEW q \in Seq(S), NEW r \in Seq(S), NEW A
  PROVE  Num(q \o r, A) = Num(q, A) + Num(r, A)
<1> DEFINE n == Len(q)
           m == Len(r)
           R == Places(r, A)
           new == {i \in n + 1 .. n + m : r[i - n] \in A}
           f == [i \in R |-> i + n]
<1>1. /\ n \in Nat /\ m \in Nat /\ Places(q, A) \subseteq 1 .. n
      /\ Places(q \o r, A) = Places(q, A) \cup new
      /\ DOMAIN r = 1 .. m
  BY PlacesConcat
<1>2. /\ IsFiniteSet(Places(q, A)) /\ Num(q, A) \in Nat
      /\ IsFiniteSet(R) /\ Num(r, A) \in Nat
  BY PlacesFinite
<1>3. R \subseteq 1 .. m
  BY <1>1 DEF Places
<1>4. IsFiniteSet(new) /\ Cardinality(new) = Cardinality(R)
  <2>1. \A i \in R : i + n \in new
    <3> HIDE DEF n, m
    <3> QED BY <1>1 DEF Places
  <2>2. \A i \in new : i - n \in R /\ (i - n) + n = i
    <3> HIDE DEF n, m
    <3> QED BY <1>1 DEF Places
  <2> HIDE DEF n, m, R, new
  <2>3. \A i, j \in R : f[i] = f[j] => i = j
    BY <1>1, <1>3
  <2>4. f \in Bijection(R, new)
    BY <2>3, <2>2, <2>1 DEF Bijection, Injection, Surjection, IsInjective
  <2> QED BY <1>2, FS_Bijection, <2>4 DEF ExistsBijection
<1>5. Places(q, A) \cap new = {}
  <2> HIDE DEF n, m
  <2> QED BY <1>1
<1> HIDE DEF new, n, m
<1>6. Cardinality(Places(q, A) \cup new)
          = Cardinality(Places(q, A)) + Cardinality(new) - Cardinality(Places(q, A) \cap new)
  BY <1>2, <1>4, FS_Union
<1>7. Cardinality(Places(q, A) \cap new) = 0
  BY <1>5, FS_EmptySet
<1> QED BY <1>1, <1>2, <1>4, <1>6, <1>7 DEF Num

----------------------------------------------------------------------------
(* What the modules of D owe to the modules of A, when par are the parents of each. *)
ParentLists == [Module -> Seq(Module)]
Owed(par, D, A) == {c \in D \X Nat : c[2] \in Places(par[c[1]], A)}
Owes(par, D, A) == Cardinality(Owed(par, D, A))

LEMMA OwedUnion ==
  ASSUME NEW f, NEW B, NEW A, \A b \in B : Places(f[b], A) \subseteq Nat
  PROVE  Owed(f, B, A) = UNION {{<<d, i>> : i \in Places(f[d], A)} : d \in B}
<1> DEFINE C(b) == {<<b, i>> : i \in Places(f[b], A)}
<1>1. ASSUME NEW c
      PROVE  c \in Owed(f, B, A) <=> \E b \in B : c \in C(b)
  <2>1. ASSUME NEW b \in B, c \in C(b)
        PROVE  c \in Owed(f, B, A)
    <3>1. PICK i \in Places(f[b], A) : c = <<b, i>>
      BY <2>1
    <3> QED BY <3>1 DEF Owed
  <2> QED BY <2>1 DEF Owed
<1> HIDE DEF C
<1> QED BY <1>1 DEF C
LEMMA OwedFinite ==
  ASSUME IsFiniteSet(Module), NEW par \in ParentLists, NEW D \in SUBSET Module, NEW A
  PROVE  IsFiniteSet(Owed(par, D, A)) /\ Owes(par, D, A) \in Nat
<1> DEFINE C(d) == {<<d, i>> : i \in Places(par[d], A)}
           S == {C(d) : d \in D}
<1>1. ASSUME NEW d \in D
      PROVE  IsFiniteSet(C(d))
  <2> DEFINE f == [i \in Places(par[d], A) |-> <<d, i>>]
             P == Places(par[d], A)
  <2>1. IsFiniteSet(P)
    BY PlacesFinite DEF ParentLists
  <2>2. f \in Surjection(P, C(d))
    <3> HIDE DEF P
    <3> QED BY DEF Surjection, P
  <2> HIDE DEF f, P, C
  <2> QED BY <2>1, <2>2, FS_Surjection
<1>2. IsFiniteSet(S)
  <2> DEFINE g == [d \in D |-> C(d)]
  <2>1. g \in Surjection(D, S)
    <3> HIDE DEF C
    <3> QED BY DEF Surjection
  <2> HIDE DEF g, S
  <2> QED BY <2>1, FS_Surjection, FS_Subset
<1>3. \A T \in S : IsFiniteSet(T)
  <2> HIDE DEF C
  <2> QED BY <1>1
<1>4. Owed(par, D, A) = UNION S
  BY OwedUnion, PlacesNat DEF ParentLists
<1> HIDE DEF S
<1> QED BY <1>2, <1>3, <1>4, FS_UNION, FS_CardinalityType DEF Owes

(* One module more. *)
LEMMA OwesInsert ==
  ASSUME IsFiniteSet(Module), NEW par \in ParentLists, NEW D \in SUBSET Module, NEW A,
         NEW d \in Module, d \notin D, NEW F, F = D \cup {d}
  PROVE  Owes(par, F, A) = Owes(par, D, A) + Num(par[d], A)
<1> DEFINE P == Places(par[d], A)
           C == {<<d, i>> : i \in P}
           f == [i \in P |-> <<d, i>>]
           O == Owed(par, D, A)
<1>1. IsFiniteSet(C) /\ Cardinality(C) = Cardinality(P)
  <2>1. f \in [P -> C] /\ (\A c \in C : \E i \in P : f[i] = c) /\ \A i, j \in P : f[i] = f[j] => i = j
    <3> HIDE DEF P
    <3> QED OBVIOUS
  <2>2. f \in Bijection(P, C)
    <3> HIDE DEF P, C, f
    <3> QED BY <2>1 DEF Bijection, Injection, Surjection, IsInjective
  <2> HIDE DEF P, C, f
  <2> QED BY FS_Bijection, PlacesFinite, <2>2 DEF P, ParentLists, ExistsBijection
<1>2. IsFiniteSet(O) /\ Cardinality(O) = Owes(par, D, A) /\ Owes(par, D, A) \in Nat
  BY OwedFinite DEF Owes
<1>3. Owed(par, D \cup {d}, A) = O \cup Owed(par, {d}, A)
  BY DEF Owed
<1>4. Owed(par, {d}, A) = C
  <2>1. Owed(par, {d}, A) = UNION {{<<e, i>> : i \in Places(par[e], A)} : e \in {d}}
    BY OwedUnion, PlacesNat DEF ParentLists
  <2> QED BY <2>1
<1>5. O \cap Owed(par, {d}, A) = {}
  BY DEF Owed
<1> HIDE DEF O, C, P
<1>6. Cardinality(O \cup C) = Cardinality(O) + Cardinality(C) - Cardinality(O \cap C)
  BY <1>1, <1>2, FS_Union
<1>7. Cardinality(O \cap C) = 0
  BY <1>4, <1>5, FS_EmptySet
<1>8. Cardinality(O \cup C) = Owes(par, D, A) + Num(par[d], A)
  BY <1>1, <1>2, <1>6, <1>7, PlacesFinite DEF P, Num, ParentLists
<1> QED BY <1>3, <1>4, <1>8 DEF Owes

(* Modules that owe nothing do not count. *)
LEMMA OwesAgree ==
  ASSUME NEW par \in ParentLists, NEW D \in SUBSET Module, NEW E \in SUBSET Module, NEW A,
         NEW qar \in ParentLists,
         \A d \in D : d \in E \/ Places(par[d], A) = {},
         \A d \in E : d \in D \/ Places(qar[d], A) = {},
         \A d \in D \cap E : Places(par[d], A) = Places(qar[d], A)
  PROVE  Owes(par, D, A) = Owes(qar, E, A)
<1> QED BY DEF Owes, Owed

(* Fewer modules owe no more. *)
LEMMA OwesFewer ==
  ASSUME IsFiniteSet(Module), NEW par \in ParentLists, NEW D \in SUBSET Module, NEW E \in SUBSET D, NEW A
  PROVE  Owes(par, E, A) <= Owes(par, D, A)
<1>1. Owed(par, E, A) \in SUBSET Owed(par, D, A)
  BY DEF Owed
<1> QED BY <1>1, FS_Subset, OwedFinite DEF Owes

(* One module waits once more. *)
LEMMA OwesAppend ==
  ASSUME IsFiniteSet(Module), NEW par \in ParentLists, NEW D \in SUBSET Module, NEW A,
         NEW r \in Module, NEW m \in Module, NEW qar \in ParentLists,
         \A d \in Module : qar[d] = IF d = r THEN Append(par[d], m) ELSE par[d]
  PROVE  Owes(qar, D, A) = Owes(par, D, A) + IF r \in D /\ m \in A THEN 1 ELSE 0
<1> DEFINE E == D \ {r}
<1>1. Owes(qar, E, A) = Owes(par, E, A)
  <2>1. E \in SUBSET Module /\ \A d \in E : qar[d] = par[d]
    OBVIOUS
  <2> HIDE DEF E
  <2> QED BY <2>1 DEF Owes, Owed
<1>2. CASE r \notin D
  <2>1. E = D
    BY <1>2
  <2> HIDE DEF E
  <2> QED BY <1>1, <1>2, <2>1, OwedFinite
<1>3. CASE r \in D
  <2>1. D = E \cup {r} /\ r \notin E /\ E \in SUBSET Module
    BY <1>3
  <2> HIDE DEF E
  <2>2. Owes(par, D, A) = Owes(par, E, A) + Num(par[r], A)
    BY <2>1, OwesInsert
  <2>3. Owes(qar, D, A) = Owes(qar, E, A) + Num(qar[r], A)
    BY <2>1, OwesInsert
  <2>4. par[r] \in Seq(Module) /\ qar[r] = Append(par[r], m)
    BY DEF ParentLists
  <2>5. Num(par[r], A) \in Nat
    BY <2>4, PlacesFinite
  <2>6. Num(Append(par[r], m), A) = Num(par[r], A) + IF m \in A THEN 1 ELSE 0
    BY <2>4, NumAppend
  <2>7. Owes(par, E, A) \in Nat
    BY <2>1, OwedFinite
  <2> QED BY <1>1, <1>3, <2>1, <2>2, <2>3, <2>4, <2>5, <2>6, <2>7
<1> QED BY <1>2, <1>3

----------------------------------------------------------------------------
(* What is on the stack of a completion and of the modules being evaluated. *)
\* The importers that a completion has yet to look at, those it has gathered,
\* and the one whose body it runs.
Completing == ~Idle /\ calls[1].at = "completion"
Todo == IF Completing THEN calls[1].todo ELSE <<>>
List == IF Completing THEN calls[1].list ELSE {}
Running == {x \in Module : Completing /\ Size > 1 /\ calls[2].m = x}
\* The modules whose requests are still looked at, and those whose body is on
\* the stack.
Busy == {x \in Module : \E j \in 1 .. Size : /\ calls[j].at = "inner" /\ calls[j].m = x
                                             /\ calls[j].i <= Len(requested(x)) + 1}
Bodies == {x \in Module : \E j \in 1 .. Size : calls[j].at = "body" /\ calls[j].m = x}
\* The modules that are evaluated for a body.
Nested == {x \in Module : \E k \in 2 .. Size : calls[k].at = "evaluate" /\ calls[k].m = x}
SameCompletion == Todo' = Todo /\ List' = List /\ Running' = Running

LEMMA CompletionType ==
  ASSUME TypeOK
  PROVE  /\ Todo \in Seq(Module) /\ List \in SUBSET Module /\ Running \in SUBSET Module
         /\ Completing => Size \in Nat /\ Size >= 1 /\ calls[1] \in Call
         /\ Running # {} => Completing
<1> QED BY EmptySeq, CallsType, CallFields DEF Todo, List, Running, Completing

(* A step of an evaluate leaves the completion below it. *)
LEMMA CompletionBelow ==
  ASSUME TypeOK, Shaped, InEvaluation, calls' \in Seq(Call), NEW b, b = Base,
         Size' >= b - 1, \A j \in 1 .. b - 1 : calls'[j] = calls[j],
         Size' >= b => calls'[b].at = "evaluate"
  PROVE  SameCompletion
<1>1. b \in Evaluations /\ b \in 1 .. Size /\ Size \in Nat /\ DOMAIN calls = 1 .. Size
  BY Bases, CallsType
<1>2. Size' \in Nat /\ (Idle' <=> Size' = 0)
  BY LenProperties, EmptySeq DEF Size, Idle
<1>3. CASE b > 1
  <2>1. Completing => b > 2
    BY <1>1, <1>3 DEF ShapedAt, Follows, Completing, Evaluations, Shaped
  <2> QED BY <1>1, <1>2, <2>1, <1>3, CallsType DEF SameCompletion, Todo, List, Running, Completing
<1> QED BY <1>1, <1>3, <1>2 DEF SameCompletion, Todo, List, Running, Completing, Evaluations

(* What stays on the stack. *)
LEMMA StackKept ==
  ASSUME TypeOK, program' = program, calls' \in Seq(Call), NEW q, Keeps(q),
         Size' = q \/ (Size' = q + 1 /\ calls'[q + 1].at # "inner"),
         q > 0 /\ calls[q].at = "inner" =>
           (calls'[q].i <= Len(requested(calls[q].m)) + 1 <=> calls[q].i <= Len(requested(calls[q].m)) + 1)
  PROVE  /\ Busy' \subseteq Busy
         /\ \A x \in Busy : x \in Busy' \/ \E j \in q + 1 .. Size : /\ calls[j].at = "inner" /\ calls[j].m = x
                                                                      /\ calls[j].i <= Len(requested(x)) + 1
         /\ \A x \in Bodies' : x \in Bodies \/ (Size' = q + 1 /\ calls'[q + 1].at = "body" /\ calls'[q + 1].m = x)
         /\ \A x \in Nested' : x \in Nested \/ (Size' = q + 1 /\ q > 0 /\ calls'[q + 1].at = "evaluate" /\ calls'[q + 1].m = x)
<1>1. /\ q \in Nat /\ q <= Size /\ q <= Size' /\ Size \in Nat /\ Size' \in Nat
      /\ \A j \in 1 .. q : calls'[j].at = calls[j].at /\ calls'[j].m = calls[j].m
      /\ \A j \in 1 .. q : j < q /\ calls[j].at = "inner" => calls'[j].i = calls[j].i
  BY CallsType, LenProperties DEF Keeps, Size
<1>2. ASSUME NEW x \in Busy'
      PROVE  x \in Busy
  <2>1. PICK j \in 1 .. Size' : calls'[j].at = "inner" /\ calls'[j].m = x /\ calls'[j].i <= Len(requested(x)) + 1
    BY <1>2, ProgramKept DEF Busy
  <2> QED BY ProgramKept, <1>1, <2>1 DEF Busy
<1>3. ASSUME NEW x \in Busy
      PROVE  x \in Busy' \/ \E j \in q + 1 .. Size : /\ calls[j].at = "inner" /\ calls[j].m = x
                                                      /\ calls[j].i <= Len(requested(x)) + 1
  <2>1. PICK j \in 1 .. Size : calls[j].at = "inner" /\ calls[j].m = x /\ calls[j].i <= Len(requested(x)) + 1
    BY <1>3 DEF Busy
  <2>2. CASE j \in 1 .. q
    <3>1. j \in 1 .. Size' /\ calls'[j].at = "inner" /\ calls'[j].m = x /\ calls'[j].i <= Len(requested(x)) + 1
      BY <1>1, <2>1, <2>2
    <3> QED BY <1>3, <3>1, ProgramKept DEF Busy
  <2> QED BY <1>1, <2>1, <2>2
<1> QED BY <1>2, <1>3, <1>1 DEF Nested, Bodies

(* Two visits are of two modules. *)
LEMMA DistinctVisits ==
  ASSUME TypeOK, Shaped, Trees
  PROVE  \A i, j \in 1 .. Size : calls[i].at = "inner" /\ calls[j].at = "inner" /\ i < j => calls[i].m # calls[j].m
<1> SUFFICES ASSUME NEW i \in 1 .. Size, NEW j \in 1 .. Size, calls[i].at = "inner", calls[j].at = "inner", i < j
             PROVE  calls[i].m # calls[j].m
  OBVIOUS
<1>1. ASSUME NEW n \in 1 .. Size, calls[n].at = "inner"
      PROVE  \E k \in Evaluations : Visits(n, k) /\ calls[n].m \in Members(k)
  <2>1. ShapedAt(n)
    BY CallsType DEF Shaped
  <2>2. PICK k \in Evaluations : In(n, k)
    BY <1>1, <2>1 DEF ShapedAt, Follows
  <2> QED BY <1>1, <2>2 DEF Visited, Tree, Visits, Trees
<1>2. PICK k \in Evaluations : Visits(i, k) /\ calls[i].m \in Members(k)
  BY <1>1
<1>3. PICK l \in Evaluations : Visits(j, l) /\ calls[j].m \in Members(l)
  BY <1>1
<1>4. CASE k = l
  <2>1. Index(calls[i].m) < Index(calls[j].m)
    BY <1>2, <1>3, <1>4 DEF Visited, Trees, Tree
  <2> QED BY <2>1, RecordsType, CallsType, CallFields
<1> QED BY <1>4, <1>2, <1>3 DEF Trees

----------------------------------------------------------------------------
(* What each operation does to them. *)
LEMMA StackEvaluate ==
  ASSUME TypeOK, Shaped, program' = program, NEW m \in Module, evaluate(m), Idle \/ On("body")
  PROVE  /\ Busy' = Busy /\ Bodies' \subseteq Bodies /\ SameCompletion
         /\ \A x \in Nested' : x \in Nested \/ (~Idle /\ x = Root(m))
<1> DEFINE s == Size
<1>1. /\ s \in Nat /\ (Idle <=> s = 0) /\ calls' \in Seq(Call) /\ Keeps(s) /\ Size' = s + 1
      /\ \A j \in 1 .. s : calls'[j] = calls[j]
      /\ calls'[s + 1].at = "evaluate" /\ calls'[s + 1].m = Root(m)
  BY CallsType, KeepsRules, FrameType, evaluateFacts DEF Grows, Typed
<1>2. On("body") => s > 1
  BY BodyFacts
<1> HIDE DEF s
<1>3. /\ Busy' \subseteq Busy
      /\ \A x \in Busy : x \in Busy' \/ \E j \in s + 1 .. Size : /\ calls[j].at = "inner" /\ calls[j].m = x
                                                                      /\ calls[j].i <= Len(requested(x)) + 1
      /\ \A x \in Bodies' : x \in Bodies \/ (Size' = s + 1 /\ calls'[s + 1].at = "body" /\ calls'[s + 1].m = x)
      /\ \A x \in Nested' : x \in Nested \/ (Size' = s + 1 /\ s > 0 /\ calls'[s + 1].at = "evaluate" /\ calls'[s + 1].m = x)
  BY <1>1, StackKept
<1>4. \A j \in s + 1 .. Size : FALSE
  BY <1>1, CallsType DEF s
<1>5. Busy' = Busy /\ Bodies' \subseteq Bodies
  BY <1>3, <1>4, <1>1
<1>6. SameCompletion
  <2>1. CASE On("body")
    <3>1. Size > 1
      BY CallsType, <1>1, <1>2, <2>1 DEF s
    <3> QED BY <1>1, <3>1, LenProperties, EmptySeq, <1>2, <2>1 DEF SameCompletion, Todo, List, Running, Completing,
         Size, Idle
  <2> QED BY <2>1, <1>1, LenProperties, EmptySeq DEF SameCompletion, Todo, List, Running, Completing, Size, Idle
<1> QED BY <1>5, <1>6, <1>1, <1>3

LEMMA StackEnter ==
  ASSUME TypeOK, Shaped, program' = program, Enter
  PROVE  /\ Busy' = Busy \cup {Callee} /\ Bodies' \subseteq Bodies /\ Nested' \subseteq Nested /\ SameCompletion
<1>1. PICK s \in Nat, b \in Nat, c \in Module : s = Size /\ b = Base /\ c = Callee
  BY CalleeType, EnterFacts, Bases
<1>2. InEvaluation /\ b \in 1 .. s /\ s > 0 /\ calls[b].at = "evaluate" /\ Typed
  BY <1>1, EnterFacts, CalleeType, Bases DEF Evaluations
<1>3. /\ Size' = s + 1 /\ calls'[s + 1] = Frame("inner", c)
      /\ \A j \in 1 .. s : j # b => calls'[j] = calls[j]
      /\ calls'[b].at = "evaluate" /\ calls'[b].m = calls[b].m
  BY <1>1, EnterFacts
<1>4. calls'[s + 1].at = "inner" /\ calls'[s + 1].m = c /\ calls'[s + 1].i = 1
  BY <1>3, FrameType
<1>5. Len(requested(c)) \in Nat /\ \A x : requested(x)' = requested(x)
  BY ProgramType, ProgramKept
<1>6. ASSUME NEW x \in Busy'
      PROVE  x \in Busy \cup {c}
  <2>1. x \in Module /\ \E j \in 1 .. s + 1 : /\ calls'[j].at = "inner" /\ calls'[j].m = x
                                              /\ calls'[j].i <= Len(requested(x)) + 1
    BY <1>3, <1>5, <1>6 DEF Busy
  <2>2. PICK j \in 1 .. s + 1 : calls'[j].at = "inner" /\ calls'[j].m = x /\ calls'[j].i <= Len(requested(x)) + 1
    BY <2>1
  <2>3. CASE j = s + 1
    BY <1>4, <2>2, <2>3
  <2>4. CASE j # s + 1
    <3>1. j \in 1 .. s /\ j # b
      BY <1>3, <2>2, <2>4
    <3>2. calls'[j] = calls[j]
      BY <1>3, <3>1
    <3>3. calls[j].at = "inner" /\ calls[j].m = x /\ calls[j].i <= Len(requested(x)) + 1 /\ j \in 1 .. Size
      BY <1>1, <2>2, <3>1, <3>2
    <3> QED BY <2>1, <3>3 DEF Busy
  <2> QED BY <2>3, <2>4
<1>7. ASSUME NEW x \in Busy
      PROVE  x \in Busy'
  <2>1. PICK j \in 1 .. s : calls[j].at = "inner" /\ calls[j].m = x /\ calls[j].i <= Len(requested(x)) + 1
    BY <1>1, <1>7 DEF Busy
  <2>2. j # b /\ x \in Module
    BY <1>2, <1>7, <2>1 DEF Busy
  <2>3. calls'[j] = calls[j] /\ j \in 1 .. s + 1
    BY <1>3, <2>1, <2>2
  <2>4. \E n \in 1 .. Size' : calls'[n].at = "inner" /\ calls'[n].m = x /\ calls'[n].i <= Len(requested(x)') + 1
    BY <1>3, <1>5, <2>1, <2>3
  <2> QED BY <2>2, <2>4 DEF Busy
<1>8. c \in Busy'
  <2>1. s + 1 \in 1 .. Size' /\ 1 <= Len(requested(c)') + 1
    BY <1>3, <1>5
  <2> QED BY <1>4, <2>1 DEF Busy
<1>9. Bodies' \subseteq Bodies
  BY <1>1, <1>3, <1>4 DEF Bodies
<1>10. Nested' \subseteq Nested
  BY <1>1, <1>2, <1>3, <1>4 DEF Nested
<1>11. SameCompletion
  <2>1. \A j \in 1 .. b - 1 : calls'[j] = calls[j]
    BY <1>2, <1>3
  <2>2. Size' >= b - 1 /\ calls' \in Seq(Call)
    BY <1>2, <1>3 DEF Typed
  <2> QED BY <1>1, <1>2, <1>3, <2>1, <2>2, CompletionBelow
<1> QED BY <1>1, <1>6, <1>7, <1>8, <1>9, <1>10, <1>11

LEMMA StackPush ==
  ASSUME TypeOK, Shaped, program' = program, InEvaluation, calls' \in Seq(Call), NEW f, Grows(f), f.at = "body"
  PROVE  /\ Busy' = Busy /\ Bodies' \subseteq Bodies \cup {f.m} /\ Nested' \subseteq Nested /\ SameCompletion
<1>1. PICK s \in Nat, b \in Nat : s = Size /\ b = Base /\ b \in 1 .. s /\ calls[b].at = "evaluate"
  BY CallsType, Bases DEF Evaluations
<1>2. /\ Busy' \subseteq Busy
      /\ \A x \in Busy : x \in Busy' \/ \E j \in s + 1 .. Size : /\ calls[j].at = "inner" /\ calls[j].m = x
                                                                      /\ calls[j].i <= Len(requested(x)) + 1
      /\ \A x \in Bodies' : x \in Bodies \/ (Size' = s + 1 /\ calls'[s + 1].at = "body" /\ calls'[s + 1].m = x)
      /\ \A x \in Nested' : x \in Nested \/ (Size' = s + 1 /\ s > 0 /\ calls'[s + 1].at = "evaluate" /\ calls'[s + 1].m = x)
  BY StackKept, <1>1, KeepsRules DEF Grows
<1>3. SameCompletion
  BY <1>1, CompletionBelow, KeepsRules DEF Grows
<1>4. \A x \in Busy : x \in Busy'
  BY <1>2, <1>1
<1> QED BY <1>3, <1>2, <1>4, <1>1, KeepsRules DEF Grows

LEMMA StackTurn ==
  ASSUME TypeOK, Shaped, program' = program, InEvaluation, calls' \in Seq(Call), NEW f, Turns(f),
         Top.at = "inner", f.at = "inner", f.m = Top.m,
         f.i <= Len(requested(Top.m)) + 1 <=> Top.i <= Len(requested(Top.m)) + 1
  PROVE  /\ Busy' = Busy /\ Bodies' \subseteq Bodies /\ Nested' \subseteq Nested /\ SameCompletion
<1>1. PICK s \in Nat, b \in Nat : s = Size /\ b = Base /\ b \in 1 .. s /\ calls[b].at = "evaluate" /\ Top = calls[s]
  BY CallsType, Bases DEF Evaluations, InEvaluation
<1>2. SameCompletion
  BY <1>1, CompletionBelow, KeepsRules DEF Turns
<1>3. \A x \in Busy : x \in Busy'
  BY <1>1, StackKept, KeepsRules DEF Turns
<1> QED BY <1>2, <1>3, <1>1, KeepsRules, StackKept DEF Turns

LEMMA StackPop ==
  ASSUME TypeOK, Shaped, program' = program, InEvaluation, calls' \in Seq(Call), Shrinks,
         Top.at = "inner" => Top.i = Len(requested(Top.m)) + 2
  PROVE  /\ Busy' = Busy /\ Bodies' \subseteq Bodies /\ Nested' \subseteq Nested /\ SameCompletion
<1>1. PICK s \in Nat, b \in Nat : s = Size /\ b = Base /\ b \in 1 .. s /\ calls[b].at = "evaluate" /\ Top = calls[s]
  BY CallsType, Bases DEF Evaluations, InEvaluation
<1>2. PICK q \in Nat : q = s - 1
  BY <1>1
<1>3. /\ Busy' \subseteq Busy
      /\ \A x \in Busy : x \in Busy' \/ \E j \in q + 1 .. Size : /\ calls[j].at = "inner" /\ calls[j].m = x
                                                                      /\ calls[j].i <= Len(requested(x)) + 1
      /\ \A x \in Bodies' : x \in Bodies \/ (Size' = q + 1 /\ calls'[q + 1].at = "body" /\ calls'[q + 1].m = x)
      /\ \A x \in Nested' : x \in Nested \/ (Size' = q + 1 /\ q > 0 /\ calls'[q + 1].at = "evaluate" /\ calls'[q + 1].m = x)
  BY StackKept, <1>2, <1>1, KeepsRules DEF Shrinks
<1>4. ASSUME NEW x \in Busy
      PROVE  x \in Busy'
  <2>1. SUFFICES ASSUME NEW j \in q + 1 .. Size, calls[j].at = "inner", calls[j].m = x,
                        calls[j].i <= Len(requested(x)) + 1
                 PROVE  FALSE
    BY <1>3
  <2> QED BY ProgramType, <1>1, <1>2, <2>1 DEF Busy
<1>5. SameCompletion
  BY <1>1, CompletionBelow, KeepsRules DEF Shrinks
<1>6. Bodies' \subseteq Bodies /\ Nested' \subseteq Nested
  BY <1>3, <1>2, <1>1, KeepsRules DEF Shrinks
<1> QED BY <1>5, <1>6, <1>3, <1>4

----------------------------------------------------------------------------
(* An exception takes what was being evaluated off the stack. *)
LEMMA StackCut ==
  ASSUME TypeOK, Shaped, Trees, program' = program, InEvaluation, calls' \in Seq(Call), Cuts(Base)
  PROVE  /\ Busy' \subseteq Busy /\ (\A x \in Busy : x \in Busy' \/ x \in Members(Base))
         /\ Bodies' \subseteq Bodies /\ Nested' \subseteq Nested /\ SameCompletion
<1>1. PICK s \in Nat, b \in Nat : s = Size /\ b = Base /\ b \in 1 .. s /\ calls[b].at = "evaluate" /\ b \in Evaluations
  BY CallsType, Bases DEF Evaluations, InEvaluation
<1>2. PICK q \in Nat : q = b - 1
  BY <1>1
<1>3. Keeps(q) /\ Size' = q /\ \A j \in 1 .. q : calls'[j] = calls[j]
  BY <1>1, <1>2, KeepsRules DEF Cuts
<1> QED BY <1>1, CompletionBelow, <1>2, <1>3, Regions, StackKept DEF Visited, Visits, Trees, Tree

(* A module that has looked at all it requests. *)
LEMMA StackRuns ==
  ASSUME TypeOK, Shaped, Trees, program' = program, calls' \in Seq(Call), Looked,
         Runs(Step(Top), Frame("body", Top.m)) \/ Turns(Step(Top))
  PROVE  /\ Busy' = Busy \ {Top.m} /\ Top.m \in Busy
         /\ \A x \in Bodies' : x \in Bodies \/ (x = Top.m /\ Runs(Step(Top), Frame("body", Top.m)))
         /\ Nested' \subseteq Nested /\ SameCompletion
<1>1. /\ ~Idle /\ Size \in Nat /\ Size > 0 /\ Top = calls[Size] /\ Top \in Call /\ Top.at = "inner"
      /\ Top.m \in Module /\ Top.i = Len(requested(Top.m)) + 1 /\ InEvaluation
      /\ Frame("body", Top.m) \in Call /\ Step(Top) \in Call
  BY LookedFacts
<1>2. PICK s \in Nat, b \in Nat, m \in Module : /\ s = Size /\ b = Base /\ b \in 1 .. s /\ calls[b].at = "evaluate"
                                                /\ m = Top.m /\ s > 0 /\ Top = calls[s]
  BY <1>1, CallsType, Bases DEF Evaluations
<1>3. b < s /\ calls[s].at = "inner" /\ calls[s].m = m /\ calls[s].i = Len(requested(m)) + 1 /\ Len(requested(m)) \in Nat
  BY <1>1, <1>2, ProgramType
<1>4. /\ Step(Top).at = "inner" /\ Step(Top).m = m /\ Step(Top).i = Len(requested(m)) + 2
      /\ Frame("body", Top.m).at = "body" /\ Frame("body", Top.m).m = m
  BY <1>1, <1>2, <1>3, FrameType, StepType
<1>5. /\ Keeps(s) /\ calls'[s] = Step(Top) /\ \A j \in 1 .. s - 1 : calls'[j] = calls[j]
      /\ \/ Size' = s
         \/ Size' = s + 1 /\ calls'[s + 1] = Frame("body", m) /\ Runs(Step(Top), Frame("body", Top.m))
  BY <1>2, <1>1, <1>4, KeepsRules DEF Turns, Runs
<1>6. ASSUME NEW x \in Busy'
      PROVE  x \in Busy \ {m}
  <2>1. PICK j \in 1 .. Size' : calls'[j].at = "inner" /\ calls'[j].m = x /\ calls'[j].i <= Len(requested(x)) + 1
    BY <1>6, ProgramKept DEF Busy
  <2>2. j \in 1 .. s - 1 /\ j < s /\ s \in 1 .. Size /\ j \in 1 .. Size
    BY <1>2, <1>5, <2>1, <1>4, <1>3
  <2> QED BY <2>2, <1>6, <1>3, DistinctVisits, <1>5, <2>1 DEF Busy
<1>7. ASSUME NEW x \in Busy, x # m
      PROVE  x \in Busy'
  <2>1. PICK j \in 1 .. s : calls[j].at = "inner" /\ calls[j].m = x /\ calls[j].i <= Len(requested(x)) + 1
    BY <1>2, <1>7 DEF Busy
  <2> QED BY <1>7, <1>5, <2>1, ProgramKept, <1>2, <1>3 DEF Busy
<1>8. \A x \in Bodies' : x \in Bodies \/ (x = m /\ Runs(Step(Top), Frame("body", Top.m)))
  <2> SUFFICES ASSUME NEW x \in Bodies' PROVE x \in Bodies \/ (x = m /\ Runs(Step(Top), Frame("body", Top.m)))
    OBVIOUS
  <2>1. PICK j \in 1 .. Size' : calls'[j].at = "body" /\ calls'[j].m = x
    BY DEF Bodies
  <2>2. CASE j # s + 1
    BY <1>5, <2>1, <1>2, <2>2, <1>4 DEF Bodies
  <2> QED BY <2>2, <1>5, <2>1, <1>2, <1>4
<1>9. Nested' \subseteq Nested
  <2> SUFFICES ASSUME NEW x \in Nested' PROVE x \in Nested
    OBVIOUS
  <2>1. PICK j \in 2 .. Size' : calls'[j].at = "evaluate" /\ calls'[j].m = x
    BY DEF Nested
  <2> QED BY <1>5, <2>1, <1>2, <1>4 DEF Nested
<1>10. SameCompletion
  BY <1>1, <1>2, CompletionBelow, <1>3, <1>5
<1> QED BY <1>2, <1>6, <1>7, <1>8, <1>9, <1>10, <1>3 DEF Busy

(* A component is closed. *)
LEMMA StackClose ==
  ASSUME TypeOK, Shaped, Trees, program' = program, Close, Low(Top.m) = Index(Top.m)
  PROVE  /\ Busy' = Busy /\ Bodies' \subseteq Bodies /\ Nested' \subseteq Nested /\ SameCompletion
<1>1. /\ ~Idle /\ Top.at = "inner" /\ Top.m \in Module /\ Top.i = Len(requested(Top.m)) + 2
      /\ InEvaluation /\ Typed /\ Top = calls[Size] /\ Size \in Nat
  <2>1. On("inner") /\ Top.i = Len(requested(Top.m)) + 2
    BY DEF Close
  <2> QED BY <2>1, ClosingFacts, CallFields, CallsType DEF InEvaluation, Resumed, On
<1>2. PICK s \in Nat, b \in Nat, m \in Module : /\ s = Size /\ b = Base /\ b \in 1 .. s /\ calls[b].at = "evaluate"
                                                /\ m = Top.m /\ Top = calls[s]
  BY <1>1, CallsType, Bases DEF Evaluations
<1>3. /\ Size' = s - 1 /\ \A j \in 1 .. s - 1 : j # b => calls'[j] = calls[j]
      /\ calls'[b].at = "evaluate" /\ calls'[b].m = calls[b].m
  BY <1>2, ClosingFacts
<1>4. ASSUME NEW x \in Busy'
      PROVE  x \in Busy
  <2>1. PICK j \in 1 .. s - 1 : calls'[j].at = "inner" /\ calls'[j].m = x /\ calls'[j].i <= Len(requested(x)) + 1
    BY <1>3, <1>4, ProgramKept DEF Busy
  <2> QED BY <1>3, <2>1, <1>2, <1>4 DEF Busy
<1>5. ASSUME NEW x \in Busy
      PROVE  x \in Busy'
  <2>1. PICK j \in 1 .. s : calls[j].at = "inner" /\ calls[j].m = x /\ calls[j].i <= Len(requested(x)) + 1
    BY <1>2, <1>5 DEF Busy
  <2>2. j \in 1 .. s - 1 /\ j \in 1 .. Size' /\ j # b
    BY <1>2, <1>3, <2>1, <1>1, ProgramType
  <2> QED BY <2>2, <1>5, <1>3, <2>1, ProgramKept DEF Busy
<1>6. Bodies' \subseteq Bodies
  <2> SUFFICES ASSUME NEW x \in Bodies' PROVE x \in Bodies
    OBVIOUS
  <2>1. PICK j \in 1 .. s - 1 : calls'[j].at = "body" /\ calls'[j].m = x
    BY <1>3 DEF Bodies
  <2> QED BY <1>3, <2>1, <1>2 DEF Bodies
<1>7. Nested' \subseteq Nested
  <2> SUFFICES ASSUME NEW x \in Nested' PROVE x \in Nested
    OBVIOUS
  <2>1. PICK j \in 2 .. s - 1 : calls'[j].at = "evaluate" /\ calls'[j].m = x
    BY <1>3 DEF Nested
  <2> QED BY <1>2, <1>3, <2>1 DEF Nested
<1>8. SameCompletion
  BY <1>1, <1>2, CompletionBelow, <1>3, ProgramType DEF Typed
<1> QED BY <1>4, <1>5, <1>6, <1>7, <1>8

(* A stack that is empty, or is that of a completion and its body. *)
LEMMA StackSmall ==
  ASSUME TypeOK, Shaped, Idle \/ On("completion") \/ (On("body") /\ Resumed)
  PROVE  /\ Busy = {} /\ Nested = {} /\ Evaluations = {}
         /\ Idle => Todo = <<>> /\ List = {} /\ Running = {} /\ Bodies = {}
         /\ On("completion") => Todo = Top.todo /\ List = Top.list /\ Running = {} /\ Bodies = {}
         /\ On("body") => Running = {Top.m} /\ Bodies = {Top.m} /\ Completing
<1> QED BY NoEvaluations, BodyFacts, CompletionFacts, CallsType DEF Running, Bodies, Nested, Busy, Completing, On,
     Todo, List

\* The next stack is that of a completion f, with a body of x if there is one.
Alone(f) == Size' = 1 /\ calls'[1] = f /\ f.at = "completion"
Both(f, x) == /\ Size' = 2 /\ calls'[1] = f /\ f.at = "completion"
              /\ calls'[2].at = "body" /\ calls'[2].m = x
LEMMA StackNext ==
  ASSUME calls' \in Seq(Call)
  PROVE  /\ Size' = 0 => /\ Busy' = {} /\ Nested' = {} /\ Bodies' = {}
                         /\ Todo' = <<>> /\ List' = {} /\ Running' = {}
         /\ \A f : Alone(f) => /\ Busy' = {} /\ Nested' = {} /\ Bodies' = {}
                               /\ Todo' = f.todo /\ List' = f.list /\ Running' = {}
         /\ \A f : \A x \in Module : Both(f, x) => /\ Busy' = {} /\ Nested' = {} /\ Bodies' = {x}
                                     /\ Todo' = f.todo /\ List' = f.list /\ Running' = {x}
<1>1. Size' \in Nat /\ (Idle' <=> Size' = 0)
  BY LenProperties, EmptySeq DEF Size, Idle
<1> QED BY <1>1 DEF Alone, Both, Running, Todo, List, Bodies, Busy, Nested, Completing

----------------------------------------------------------------------------
(* What is asynchronous, and what waits for what. *)
\* The module has yet to complete, so that those waiting for it count it.
Holding(d) == records[d].asyncEvaluation /\ (hasTLA(d) \/ Pending(d) > 0)
\* A module that is linked, or that still looks at what it requests, has no
\* importer that waits for it; only such a one counts without being asynchronous.
Fresh ==
  /\ \A x \in Module : records[x].status = "linked" =>
       ~records[x].asyncEvaluation /\ records[x].asyncParentModules = <<>> /\ Pending(x) = 0
  /\ \A x \in Busy : ~records[x].asyncEvaluation /\ records[x].asyncParentModules = <<>>
  /\ \A x \in Module : records[x].status = "evaluating" /\ Pending(x) > 0 /\ ~records[x].asyncEvaluation => x \in Busy
  /\ \A x \in Module : records[x].status = "evaluating" /\ records[x].asyncEvaluation => Holding(x)
\* What is asynchronous is not done, or has failed; what has run waits for nothing.
Marks ==
  \A x \in Module :
    /\ records[x].asyncEvaluation => cyclic(x)
    /\ records[x].status = "evaluating-async" => records[x].asyncEvaluation
    /\ records[x].cycleRoot # None /\ Pending(x) > 0 => records[x].asyncEvaluation
    /\ Evaluated(x) /\ records[x].asyncEvaluation => hasError(x)
    /\ x \in suspended => hasTLA(x) /\ records[x].asyncEvaluation /\ Pending(x) = 0
    /\ x \in Bodies /\ hasTLA(x) => records[x].asyncEvaluation /\ Pending(x) = 0
    /\ x \in Running => records[x].status = "evaluating-async" /\ Pending(x) = 0
    /\ x \in List => Pending(x) = 0 /\ records[x].cycleRoot # None
\* Only a module that reaches a top-level await is asynchronous, and a require
\* evaluates none.
Awaiting ==
  /\ \A x \in Module : records[x].asyncEvaluation \/ Pending(x) > 0 => TLAIn(Graph(x))
  /\ \A x \in Module : records[x].cycleRoot # None /\ records[records[x].cycleRoot].asyncEvaluation => TLAIn(Graph(x))
  /\ \A x \in Nested : records[x].status \in {"linked", "evaluating"} => ~TLAIn(Graph(x))
\* What waits for a module in evaluation is in the same evaluation and reaches
\* as low, and fails with it.
Waiters ==
  /\ \A d \in Module : \A p \in Parents(d) :
       /\ records[p].status # "linked" /\ cyclic(d) /\ (hasError(d) => Evaluated(p))
       /\ \A k \in Evaluations : d \in Members(k) => p \in Members(k) /\ Low(p) <= Index(d)
  /\ \A i \in DOMAIN Todo : records[Todo[i]].status # "linked"

LEMMA ParentsType ==
  ASSUME TypeOK
  PROVE  \A d \in Module : Parents(d) \subseteq Module /\ (records[d].asyncParentModules = <<>> => Parents(d) = {})
<1> SUFFICES ASSUME NEW d \in Module
             PROVE  Parents(d) \subseteq Module /\ (records[d].asyncParentModules = <<>> => Parents(d) = {})
  OBVIOUS
<1> QED BY LenProperties, RecordsType DEF Parents

LEMMA FreshKept ==
  ASSUME TypeOK, Fresh, program' = program, SameAsync, SameWaits, Busy' \subseteq Module,
         \A x \in Module : records'[x].status = "linked" => records[x].status = "linked",
         \A x \in Module : records'[x].status = "evaluating" => records[x].status \in {"linked", "evaluating"},
         \A x \in Busy' : x \in Busy \/ records[x].status = "linked",
         \A x \in Busy : x \in Busy' \/ records'[x].status # "evaluating" \/ Pending(x) = 0
  PROVE  Fresh'
<1>1. \A x \in Module : /\ records'[x].asyncEvaluation = records[x].asyncEvaluation
                        /\ records'[x].asyncParentModules = records[x].asyncParentModules
                        /\ Pending(x)' = Pending(x) /\ Pending(x) \in Nat
                        /\ Holding(x)' = Holding(x)
  BY ProgramKept, RecordsType DEF SameAsync, SameWaits, Holding
<1> QED BY <1>1 DEF Fresh

(* Nothing is being evaluated. *)
LEMMA FreshQuiet ==
  ASSUME TypeOK, Fresh, program' = program, Busy' = {},
         \A x \in Module :
           /\ records'[x].status # "evaluating"
           /\ records'[x].status = "linked" => records[x].status = "linked"
           /\ records'[x].asyncEvaluation => records[x].asyncEvaluation
           /\ records'[x].asyncParentModules = records[x].asyncParentModules
           /\ Pending(x) = 0 => Pending(x)' = 0
  PROVE  Fresh'
BY DEF Fresh

LEMMA MarksKept ==
  ASSUME TypeOK, Rooted, Marks, program' = program, SameAsync, SameWaits,
         \A x \in suspended' : x \in suspended \/ (x \in Bodies /\ hasTLA(x)),
         \A x \in Bodies' : x \in Bodies \/ (hasTLA(x) => records[x].asyncEvaluation /\ Pending(x) = 0),
         List' \subseteq List,
         \A x \in Running' : x \in Running \/ (x \in List /\ ~Evaluated(x)),
         \A x \in Module :
           /\ records'[x].status = "evaluating-async" => records[x].status = "evaluating-async" \/ records[x].asyncEvaluation
           /\ records[x].status = "evaluating-async" => records'[x].status = "evaluating-async" \/ x \notin Running'
           /\ records'[x].cycleRoot # None => records[x].cycleRoot # None \/ Pending(x) = 0 \/ records[x].asyncEvaluation
           /\ records[x].cycleRoot # None => records'[x].cycleRoot # None
           /\ Evaluated(x)' => Evaluated(x) \/ ~records[x].asyncEvaluation \/ hasError(x)'
           /\ hasError(x) => hasError(x)'
  PROVE  Marks'
<1> SUFFICES ASSUME NEW x \in Module
             PROVE  /\ records'[x].asyncEvaluation => cyclic(x)'
                    /\ records'[x].status = "evaluating-async" => records'[x].asyncEvaluation
                    /\ records'[x].cycleRoot # None /\ Pending(x)' > 0 => records'[x].asyncEvaluation
                    /\ Evaluated(x)' /\ records'[x].asyncEvaluation => hasError(x)'
                    /\ x \in suspended' => hasTLA(x)' /\ records'[x].asyncEvaluation /\ Pending(x)' = 0
                    /\ x \in Bodies' /\ hasTLA(x)' => records'[x].asyncEvaluation /\ Pending(x)' = 0
                    /\ x \in Running' => records'[x].status = "evaluating-async" /\ Pending(x)' = 0
                    /\ x \in List' => Pending(x)' = 0 /\ records'[x].cycleRoot # None
  BY DEF Marks
<1> QED BY ProgramKept, RecordsType DEF Marks, SameAsync, SameWaits, Rooted, Evaluated

LEMMA AwaitingKept ==
  ASSUME TypeOK, Rooted, Awaiting, program' = program,
         \A x \in Module :
           /\ records'[x].asyncEvaluation => records[x].asyncEvaluation
           /\ Pending(x)' > 0 => Pending(x) > 0
           /\ records'[x].cycleRoot = records[x].cycleRoot
                \/ (/\ records'[x].cycleRoot \in Module
                    /\ records[records'[x].cycleRoot].asyncEvaluation => TLAIn(Graph(x))),
         \A x \in Nested' : /\ x \in Nested \/ (records'[x].status \in {"linked", "evaluating"} => ~TLAIn(Graph(x)))
                            /\ records'[x].status \in {"linked", "evaluating"} => records[x].status \in {"linked", "evaluating"}
  PROVE  Awaiting'
<1>1. ASSUME NEW x \in Module, records'[x].cycleRoot # None, records'[records'[x].cycleRoot].asyncEvaluation
      PROVE  TLAIn(Graph(x))'
  <2>1. CASE records'[x].cycleRoot = records[x].cycleRoot
    BY <1>1, <2>1, ProgramKept, RecordsType DEF Awaiting, TLAIn
  <2> QED BY <2>1, <1>1, ProgramKept DEF TLAIn
<1> QED BY <1>1, ProgramKept DEF Awaiting, TLAIn

LEMMA WaitersKept ==
  ASSUME TypeOK, Waiters, program' = program,
         \A x \in Module :
           /\ records'[x].asyncParentModules = records[x].asyncParentModules
           /\ records'[x].status = "linked" => records[x].status = "linked"
           /\ Evaluated(x) => Evaluated(x)'
           /\ hasError(x)' => hasError(x) \/ \A p \in Parents(x) : Evaluated(p)',
         \A k \in Evaluations' : \A d \in Members(k)' : \A p \in Parents(d) : d \in Module /\ p \in Members(k)' /\ Low(p)' <= Index(d)',
         \A i \in DOMAIN Todo' : records'[Todo'[i]].status # "linked"
  PROVE  Waiters'
<1> QED BY ProgramKept, ParentsType DEF Waiters, Parents

----------------------------------------------------------------------------
(* The count of pending dependencies. *)
Par == [d \in Module |-> records[d].asyncParentModules]
Held == {d \in Module : Holding(d)}
Owing == {d \in Module : Holding(d) /\ ~hasError(d)}
\* A module never counts fewer than it waits for,
Enough == \A p \in Module : Pending(p) >= Owes(Par, Held, {p}) + Num(Todo, {p})
\* and exactly those that it can still complete with.
Counted(p) == \/ records[p].status = "evaluating"
              \/ records[p].status = "evaluating-async" /\ ~hasError(records[p].cycleRoot)
Exact == ~abandoned => \A p \in Module : Counted(p) => Pending(p) = Owes(Par, Owing, {p}) + Num(Todo, {p})
\* What waits for nothing more has been gathered to run.
Gathering ==
  ~abandoned => \A d \in Module :
    records[d].cycleRoot # None /\ records[d].asyncEvaluation /\ ~Holding(d) /\ ~hasError(d) => d \in List \cup Running

LEMMA ParType ==
  ASSUME TypeOK
  PROVE  Par \in ParentLists /\ Held \in SUBSET Module /\ Owing \in SUBSET Module /\ IsFiniteSet(Module)
<1> QED BY EsmAssumption, RecordsType DEF Par, ParentLists, Held, Owing

LEMMA ParPlaces ==
  ASSUME TypeOK
  PROVE  \A d, p \in Module : /\ Par[d] = records[d].asyncParentModules
                              /\ Places(Par[d], {p}) # {} <=> p \in Parents(d)
BY DEF Par, Places, Parents

(* The numbers are those of a state. *)
LEMMA CountTypes ==
  ASSUME TypeOK
  PROVE  \A p \in Module : /\ Owes(Par, Held, {p}) \in Nat /\ Owes(Par, Owing, {p}) \in Nat
                           /\ Num(Todo, {p}) \in Nat /\ Pending(p) \in Nat
                           /\ Owes(Par, Owing, {p}) <= Owes(Par, Held, {p})
<1> SUFFICES ASSUME NEW p \in Module
             PROVE  /\ Owes(Par, Held, {p}) \in Nat /\ Owes(Par, Owing, {p}) \in Nat
                    /\ Num(Todo, {p}) \in Nat /\ Pending(p) \in Nat
                    /\ Owes(Par, Owing, {p}) <= Owes(Par, Held, {p})
  OBVIOUS
<1> QED BY RecordsType, OwesFewer, CompletionType, PlacesFinite, OwedFinite, ParType DEF Owing, Held

(* What can be due to a module that nothing waits for. *)
LEMMA OwesNone ==
  ASSUME NEW par \in ParentLists, NEW D \in SUBSET Module, NEW p \in Module,
         \A d \in D : Places(par[d], {p}) = {}
  PROVE  Owes(par, D, {p}) = 0
<1> QED BY FS_EmptySet DEF Owes, Owed

LEMMA EnoughKept ==
  ASSUME TypeOK, TypeOK', Enough, Todo' = Todo,
         \A x \in Module : /\ records'[x].asyncParentModules = records[x].asyncParentModules
                           /\ Pending(x)' = Pending(x)
                           /\ Holding(x)' => Holding(x) \/ records[x].asyncParentModules = <<>>
  PROVE  Enough'
<1> SUFFICES ASSUME NEW p \in Module
             PROVE  Pending(p)' >= Owes(Par', Held', {p}) + Num(Todo', {p})
  BY DEF Enough
<1>1. Par' = Par
  BY DEF Par
<1>2. \A d \in Held' : d \in Held \/ Places(Par[d], {p}) = {}
  BY ParPlaces, ParentsType DEF Held
<1>3. Owed(Par, Held', {p}) \in SUBSET Owed(Par, Held, {p})
  BY <1>2 DEF Owed
<1>4. Owes(Par, Held', {p}) <= Owes(Par, Held, {p})
  BY <1>3, FS_Subset, OwedFinite, ParType DEF Owes
<1> QED BY <1>1, <1>4, CountTypes, OwedFinite, ParType DEF Enough, Held

LEMMA ExactKept ==
  ASSUME TypeOK, TypeOK', Exact, Fresh, Waiters, Todo' = Todo, ~abandoned' => ~abandoned,
         \A x \in Module : /\ records'[x].asyncParentModules = records[x].asyncParentModules
                           /\ Pending(x)' = Pending(x)
                           /\ Counted(x)' => Counted(x) \/ records[x].status = "linked",
         \A p \in Module : Counted(p)' =>
           \A d \in Module : p \in Parents(d) => (d \in Owing' <=> d \in Owing)
  PROVE  Exact'
<1> SUFFICES ASSUME ~abandoned', NEW p \in Module, Counted(p)'
             PROVE  Pending(p)' = Owes(Par', Owing', {p}) + Num(Todo', {p})
  BY DEF Exact
<1>1. CASE records[p].status = "linked"
  <2>1. \A d \in Module : p \notin Parents(d)
    BY <1>1 DEF Waiters
  <2>2. Owes(Par, Owing', {p}) = 0
    BY <2>1, OwesNone, ParPlaces, ParType DEF Owing
  <2> QED BY <2>2, NumNone, <1>1 DEF Par, Waiters, Fresh
<1> QED BY <1>1, ParPlaces, ParType DEF Par, Exact, Owes, Owed, Owing

LEMMA GatheringKept ==
  ASSUME TypeOK, Gathering, Fresh, program' = program, ~abandoned' => ~abandoned, SameAsync, SameWaits,
         \A x \in Module : /\ records'[x].cycleRoot # None => records[x].cycleRoot # None \/ records[x].status = "evaluating"
                           /\ hasError(x) => hasError(x)',
         \A x \in List \cup Running : x \in List' \cup Running' \/ hasError(x)' \/ Holding(x) \/ ~records[x].asyncEvaluation
  PROVE  Gathering'
<1> SUFFICES ASSUME ~abandoned', NEW d \in Module, records'[d].cycleRoot # None, records'[d].asyncEvaluation,
                    ~Holding(d)', ~hasError(d)'
             PROVE  d \in List' \cup Running'
  BY DEF Gathering
<1> QED BY ProgramKept DEF Gathering, Fresh, SameAsync, SameWaits, Holding

----------------------------------------------------------------------------
\* What waits for what, and how often.
Counts == Fresh /\ Marks /\ Awaiting /\ Waiters /\ Enough /\ Exact /\ Gathering

(* What the skeleton needs of the counts. *)
LEMMA ReadyHolds ==
  ASSUME TypeOK, Skeleton, Counts
  PROVE  Ready
<1>1. Countable
  <2>1. SUFFICES ASSUME On("completion"), Top.todo # <<>>
                 PROVE  Pending(Head(Top.todo)) > 0
    BY DEF Countable
  <2>2. Todo = Top.todo /\ Todo \in Seq(Module)
    BY <2>1, StackSmall, CompletionType DEF Skeleton
  <2>3. PICK p \in Module : p = Head(Todo)
    BY <2>1, <2>2
  <2>4. Tail(Todo) \in Seq(Module)
    BY <2>1, <2>2
  <2>5. Num(Tail(Todo), {p}) \in Nat /\ Num(Todo, {p}) \in Nat
    BY <2>2, <2>4, PlacesFinite
  <2>6. Pending(p) >= Owes(Par, Held, {p}) + Num(Todo, {p})
    BY DEF Counts, Enough
  <2> QED BY <2>2, <2>3, <2>5, <2>6, CountTypes, <2>1, NumTail
<1>2. On("completion") => \A x \in Top.list : cyclic(x)
  BY StackSmall, CompletionType DEF Counts, Marks, Skeleton, Rooted
<1> QED BY <1>1, <1>2, RecordsType, StackSmall, BodyFacts DEF Ready, Evaluated, RecordType, Skeleton, Trees,
     Counts, Fresh, TypeOK, Marks

(* A step that changes no status, no count and nothing of a completion. *)
LEMMA CountsSame ==
  ASSUME TypeOK, TypeOK', Rooted, Counts, program' = program, abandoned' = abandoned,
         SameState, SameIndex, SameAsync, SameWaits, SameCompletion,
         Busy' \subseteq Busy, \A x \in Busy : x \in Busy' \/ Pending(x) = 0,
         \A x \in suspended' : x \in suspended \/ (x \in Bodies /\ hasTLA(x)),
         \A x \in Bodies' : x \in Bodies \/ (hasTLA(x) => records[x].asyncEvaluation /\ Pending(x) = 0),
         \A x \in Nested' : x \in Nested \/ (records[x].status \in {"linked", "evaluating"} => ~TLAIn(Graph(x))),
         \A k \in Evaluations' : Members(k)' = {} \/ (k \in Evaluations /\ Members(k)' = Members(k))
  PROVE  Counts'
<1>1. \A x \in Module : /\ records'[x].status = records[x].status
                        /\ records'[x].error = records[x].error
                        /\ records'[x].cycleRoot = records[x].cycleRoot
                        /\ Low(x)' = Low(x)
                        /\ records'[x].asyncEvaluation = records[x].asyncEvaluation
                        /\ records'[x].asyncParentModules = records[x].asyncParentModules
                        /\ Pending(x)' = Pending(x)
                        /\ hasTLA(x)' = hasTLA(x)
                        /\ Holding(x)' = Holding(x)
                        /\ Evaluated(x)' = Evaluated(x)
                        /\ hasError(x)' = hasError(x)
  BY ProgramKept DEF SameState, SameIndex, SameAsync, SameWaits, Holding, Evaluated, hasError
<1>2. Todo' = Todo /\ List' = List /\ Running' = Running
  BY DEF SameCompletion
<1>3. Fresh /\ Marks /\ Awaiting /\ Waiters /\ Enough /\ Exact /\ Gathering
  BY DEF Counts
<1>4. Fresh'
  BY <1>1, <1>3, FreshKept DEF Busy, Nested
<1>5. Marks'
  BY <1>1, <1>2, <1>3, MarksKept DEF Bodies, Evaluated, SameCompletion
<1>6. Awaiting'
  BY <1>1, <1>3, AwaitingKept DEF Busy, Nested
<1>7. Waiters'
  BY <1>3, WaitersKept, <1>1, <1>2, CompletionType, ParentsType, MembersType, CallsType DEF Waiters, SameIndex,
     Evaluations
<1>8. Enough'
  BY <1>1, <1>2, <1>3, EnoughKept
<1>9. Exact'
  BY <1>1, <1>2, <1>3, ExactKept, RecordsType DEF Owing, Counted, Rooted
<1>10. Gathering'
  BY <1>1, <1>2, <1>3, GatheringKept
<1> QED BY <1>4, <1>5, <1>6, <1>7, <1>8, <1>9, <1>10 DEF Counts

----------------------------------------------------------------------------
(* The lists of the evaluates that stay. *)
LEMMA MembersKept ==
  ASSUME TypeOK, calls' \in Seq(Call), NEW q, Keeps(q),
         \A k \in 1 .. q : calls[k].at = "evaluate" => calls'[k].todo = calls[k].todo,
         Size' = q \/ (Size' = q + 1 /\ (calls'[q + 1].at # "evaluate" \/ calls'[q + 1].todo = <<>>))
  PROVE  \A k \in Evaluations' : Members(k)' = {} \/ (k \in Evaluations /\ Members(k)' = Members(k))
<1> SUFFICES ASSUME NEW k \in Evaluations'
             PROVE  Members(k)' = {} \/ (k \in Evaluations /\ Members(k)' = Members(k))
  OBVIOUS
<1> QED BY Prefix DEF Evaluations, Keeps, Members

LEMMA CountsEvaluate ==
  ASSUME TypeOK, TypeOK', Skeleton, Counts, program' = program, NEW m \in Module, Import(m) \/ requireModule(m)
  PROVE  Counts'
<1>1. ~Idle => (records[Root(m)].status \in {"linked", "evaluating"} => ~TLAIn(Graph(Root(m))))
  BY evaluateFacts DEF requireModule, TLAIn, Import, Rooted, Root, Skeleton
<1> QED BY CountsSame, <1>1, StackEvaluate, evaluateFacts, MembersKept, FrameType, KeepsRules DEF evaluate, bodies,
     Import, requireModule, Skeleton, Typed, Grows

LEMMA CountsExecute ==
  ASSUME TypeOK, TypeOK', Skeleton, Counts, program' = program, Execute
  PROVE  Counts'
<1>1. /\ Looked /\ Pending(Top.m) = 0 /\ ~hasTLA(Top.m) /\ Typed
      /\ Runs(Step(Top), Frame("body", Top.m))
      /\ SameState /\ SameIndex /\ SameAsync /\ SameWaits
  BY ExecuteFacts
<1>2. \A k \in Evaluations' : Members(k)' = {} \/ (k \in Evaluations /\ Members(k)' = Members(k))
  <2>1. Keeps(Size) /\ Size' = Size + 1
    BY <1>1, KeepsRules, StepType, LookedFacts
  <2>2. calls'[Size + 1].at = "body"
    BY <1>1, FrameType, LookedFacts DEF Runs
  <2> QED BY <2>1, <2>2, MembersKept, <1>1, LookedFacts DEF Typed, Runs
<1> QED BY <1>1, <1>2, CountsSame, StackRuns DEF Execute, history, Typed, Skeleton

(* A call that ends and leaves what is evaluated as it is. *)
LEMMA CountsPop ==
  ASSUME TypeOK, TypeOK', Skeleton, Counts, program' = program, abandoned' = abandoned, InEvaluation,
         calls' \in Seq(Call), Shrinks, SameState, SameIndex, SameAsync, SameWaits,
         Top.at = "inner" => Top.i = Len(requested(Top.m)) + 2,
         \A x \in suspended' : x \in suspended \/ (x \in Bodies /\ hasTLA(x))
  PROVE  Counts'
<1> QED BY CountsSame, MembersKept, KeepsRules, StackPop DEF Shrinks, Skeleton

LEMMA CountsLeave ==
  ASSUME TypeOK, TypeOK', Skeleton, Counts, program' = program, Close, Low(Top.m) # Index(Top.m)
  PROVE  Counts'
<1>1. ~Idle /\ Top.at = "inner" /\ Top.i = Len(requested(Top.m)) + 2 /\ InEvaluation
  <2>1. ~Idle /\ Top.at = "inner" /\ Top.i = Len(requested(Top.m)) + 2
    BY DEF Close, On
  <2> QED BY <2>1 DEF InEvaluation, Resumed, On
<1>2. Shrinks /\ SameState /\ Typed /\ SameIndex /\ SameAsync /\ SameWaits
  BY CloseFacts, <1>1, TopVisit DEF Skeleton
<1>3. suspended' = suspended /\ abandoned' = abandoned /\ calls' \in Seq(Call)
  BY <1>2 DEF Close, bodies, history, Typed
<1> QED BY <1>1, <1>2, <1>3, CountsPop

LEMMA CountsConclude ==
  ASSUME TypeOK, TypeOK', Skeleton, Counts, program' = program, Conclude
  PROVE  Counts'
<1> QED BY CountsPop, ConcludeFacts DEF InEvaluation, On, Resumed, Conclude, bodies, history, Typed, Skeleton

(* A body that ends, and was not run by a completion. *)
LEMMA CountsBodyEnds ==
  ASSUME TypeOK, TypeOK', Skeleton, Counts, program' = program, BodyReturns \/ BodySuspends, ~Resumed
  PROVE  Counts'
<1> QED BY CountsPop, SameRecords, BodyFacts, ReturnFacts, SuspendFacts DEF BodyReturns, BodySuspends, Bodies,
     history, Typed, Skeleton

----------------------------------------------------------------------------
LEMMA CountsSynthetic ==
  ASSUME TypeOK, TypeOK', Skeleton, Counts, program' = program, EnterSynthetic
  PROVE  Counts'
<1>1. /\ Shaped /\ Rooted /\ Fresh /\ Marks /\ Awaiting /\ Waiters /\ Enough /\ Exact /\ Gathering
  BY DEF Skeleton, Counts
<1>2. PICK c \in Module : c = Callee
  BY <1>1, EnterSyntheticFacts, CalleeType
<1>3. /\ Looking /\ ~cyclic(c) /\ ~Evaluated(c)
      /\ Grows(Frame("body", c)) /\ Typed
      /\ \A x \in Module :
           /\ records'[x].status = IF x = c THEN "evaluated" ELSE records[x].status
           /\ records'[x].error = records[x].error
           /\ records'[x].cycleRoot = records[x].cycleRoot
      /\ SameIndex /\ SameAsync /\ SameWaits
  BY <1>1, <1>2, EnterSyntheticFacts
<1>4. /\ Busy' = Busy /\ Bodies' \subseteq Bodies \cup {c} /\ Nested' \subseteq Nested /\ SameCompletion
  BY <1>1, <1>3, StackPush, FrameType, CalleeType DEF Typed
<1>5. ~hasTLA(c) /\ records[c].status = "linked" /\ ~records[c].asyncEvaluation
  BY <1>1, <1>3, ProgramType DEF Fresh, Evaluated, Rooted
<1>6. \A x \in Module : /\ records'[x].asyncEvaluation = records[x].asyncEvaluation
                        /\ records'[x].asyncParentModules = records[x].asyncParentModules
                        /\ Pending(x)' = Pending(x)
                        /\ hasTLA(x)' = hasTLA(x)
                        /\ Holding(x)' = Holding(x)
                        /\ Evaluated(x) => Evaluated(x)'
                        /\ hasError(x)' = hasError(x)
                        /\ Low(x)' = Low(x)
  BY <1>3, ProgramKept DEF SameAsync, SameWaits, SameIndex, Holding, Evaluated, hasError
<1>7. Todo' = Todo /\ List' = List /\ Running' = Running
  BY <1>4 DEF SameCompletion
<1>8. Fresh'
  BY <1>1, <1>3, <1>4, <1>5, FreshKept DEF Busy, Nested
<1>9. Marks'
  BY <1>1, <1>3, <1>4, <1>5, <1>6, <1>7, MarksKept DEF Evaluated, EnterSynthetic, history
<1>10. Awaiting'
  BY <1>1, <1>3, <1>4, <1>5, <1>6, AwaitingKept DEF Busy, Nested
<1>11. \A k \in Evaluations' : Members(k)' = {} \/ (k \in Evaluations /\ Members(k)' = Members(k))
  BY MembersKept, <1>1, <1>3, CalleeType, FrameType, KeepsRules DEF Typed, Grows
<1>12. Waiters'
  <2>1. \A k \in Evaluations' : \A d \in Members(k)' : \A p \in Parents(d) :
          d \in Module /\ p \in Members(k)' /\ Low(p)' <= Index(d)'
    BY <1>1, <1>3, <1>11, ParentsType, MembersType, CallsType DEF Waiters, SameIndex, Evaluations
  <2> QED BY <1>1, <1>6, <2>1, WaitersKept, <1>3, <1>7, CompletionType DEF Waiters
<1>13. Enough'
  BY <1>1, <1>6, <1>7, EnoughKept
<1>14. Exact'
  BY <1>1, <1>6, <1>7, ExactKept, <1>3, RecordsType DEF EnterSynthetic, history, Owing, Counted, Rooted
<1>15. Gathering'
  BY <1>1, <1>3, <1>6, <1>7, GatheringKept DEF EnterSynthetic, history
<1> QED BY <1>8, <1>9, <1>10, <1>12, <1>13, <1>14, <1>15 DEF Counts

LEMMA CountsEnter ==
  ASSUME TypeOK, TypeOK', Skeleton, Counts, program' = program, Enter
  PROVE  Counts'
<1>1. /\ Shaped /\ Rooted /\ Fresh /\ Marks /\ Awaiting /\ Waiters /\ Enough /\ Exact /\ Gathering
  BY DEF Skeleton, Counts
<1>2. PICK c \in Module, b \in Nat, s \in Nat : c = Callee /\ b = Base /\ s = Size
  BY <1>1, CalleeType, Bases, EnterFacts
<1>3. /\ Looking /\ cyclic(c) /\ records[c].status = "linked" /\ calls' \in Seq(Call)
      /\ Size' = s + 1 /\ calls'[s + 1] = Frame("inner", c)
      /\ \A j \in 1 .. s : j # b => calls'[j] = calls[j]
      /\ calls'[b].todo = Append(calls[b].todo, c)
      /\ \A x \in Module :
           /\ records'[x].status = IF x = c THEN "evaluating" ELSE records[x].status
           /\ Index(x)' = IF x = c THEN calls[b].i ELSE Index(x)
           /\ Low(x)' = IF x = c THEN calls[b].i ELSE Low(x)
           /\ records'[x].error = records[x].error
           /\ records'[x].cycleRoot = records[x].cycleRoot
      /\ SameAsync /\ SameWaits
  BY <1>1, <1>2, EnterFacts DEF Typed
<1>4. suspended' = suspended /\ abandoned' = abandoned
  BY DEF Enter, bodies, history
<1>5. \A x \in Module : /\ records'[x].asyncEvaluation = records[x].asyncEvaluation
                        /\ records'[x].asyncParentModules = records[x].asyncParentModules
                        /\ Pending(x)' = Pending(x)
                        /\ hasTLA(x)' = hasTLA(x)
                        /\ Holding(x)' = Holding(x)
                        /\ Evaluated(x)' = Evaluated(x)
                        /\ hasError(x)' = hasError(x)
  BY <1>3, ProgramKept DEF SameAsync, SameWaits, SameIndex, Holding, Evaluated, hasError
<1>6. Todo' = Todo /\ List' = List /\ Running' = Running
  BY <1>1, <1>2, StackEnter DEF SameCompletion
<1>7. Fresh'
  BY <1>1, <1>3, FreshKept, <1>2, StackEnter DEF Busy, Nested
<1>8. Marks'
  BY <1>1, <1>3, <1>4, <1>5, <1>6, MarksKept, <1>2, StackEnter DEF Evaluated
<1>9. Awaiting'
  BY <1>1, <1>3, <1>5, AwaitingKept, <1>2, StackEnter DEF Busy, Nested
<1>10. /\ \A k \in Evaluations' : k \in Evaluations /\ k \in 1 .. s
       /\ \A k \in Evaluations' : \A d \in Members(k)' : d \in Members(k) \/ d = c
       /\ \A k \in Evaluations' : Members(k) \subseteq Members(k)'
  <2>1. Keeps(s) /\ DOMAIN calls' = 1 .. s + 1 /\ DOMAIN calls = 1 .. s
    BY <1>2, <1>3, CallsType, LenProperties, <1>1, ShapedEnter DEF Size, Keeps
  <2>2. \A k \in 1 .. s : k # b => Members(k)' = Members(k)
    BY <1>3 DEF Members
  <2>3. /\ \A d \in Members(b)' : d \in Members(b) \/ d = c
        /\ Members(b) \subseteq Members(b)'
    <3>1. PICK q : q = calls[b].todo
      OBVIOUS
    <3>2. /\ q \in Seq(Module) /\ DOMAIN Append(q, c) = 1 .. Len(q) + 1 /\ Len(q) \in Nat
          /\ \A i \in 1 .. Len(q) : Append(q, c)[i] = q[i]
          /\ Append(q, c)[Len(q) + 1] = c
      BY <3>1, <1>2, MembersType, <1>1, <1>3, CalleeType, Bases
    <3>3. Members(b)' = {Append(q, c)[i] : i \in DOMAIN Append(q, c)}
      BY <1>3, <3>1 DEF Members
    <3>4. Members(b) = {q[i] : i \in 1 .. Len(q)}
      BY <3>1, <1>2, MembersType, <1>1, <1>3, CalleeType, Bases DEF Members
    <3> QED BY <3>2, <3>3, <3>4
  <2> QED BY <2>2, <2>3, <1>3, <2>1, Prefix, FrameType DEF Evaluations
<1>11. Waiters'
  <2>1. \A k \in Evaluations' : \A d \in Members(k)' : \A p \in Parents(d) :
          d \in Module /\ p \in Members(k)' /\ Low(p)' <= Index(d)'
    <3>1. SUFFICES ASSUME NEW k \in Evaluations', NEW d \in Members(k)', NEW p \in Parents(d)
                   PROVE  d \in Module /\ p \in Members(k)' /\ Low(p)' <= Index(d)'
      OBVIOUS
    <3>2. d \in Members(k) /\ k \in Evaluations /\ d # c
      BY <1>10, <1>1, <1>3, ParentsType DEF Fresh
    <3> QED BY <1>3, <1>10, <3>2, <1>1, ParentsType, MembersType, CallsType DEF Waiters, Evaluations
  <2>2. \A i \in DOMAIN Todo' : records'[Todo'[i]].status # "linked"
    BY <1>1, <1>3, <1>6, CompletionType DEF Waiters
  <2> QED BY <1>1, <1>5, <2>1, <2>2, WaitersKept, <1>3
<1>12. Enough'
  BY <1>1, <1>5, <1>6, EnoughKept
<1>13. Exact'
  BY <1>1, <1>4, <1>5, <1>6, ExactKept, <1>3, RecordsType DEF Owing, Counted, Rooted
<1>14. Gathering'
  BY <1>1, <1>3, <1>4, <1>5, <1>6, GatheringKept
<1> QED BY <1>7, <1>8, <1>9, <1>11, <1>12, <1>13, <1>14 DEF Counts

----------------------------------------------------------------------------
(* A visit is one of an evaluate that has its module on its list. *)
LEMMA OwnVisit ==
  ASSUME TypeOK, Shaped, Trees, NEW n \in 1 .. Size, calls[n].at = "inner"
  PROVE  \E k \in Evaluations : Visits(n, k) /\ calls[n].m \in Members(k)
<1>1. ShapedAt(n)
  BY CallsType DEF Shaped
<1>2. PICK k \in Evaluations : In(n, k)
  BY <1>1 DEF ShapedAt, Follows
<1> QED BY <1>2 DEF Visited, Tree, Visits, Trees

(* What a component leaves on the list does not wait for a member of it. *)
LEMMA ClosingAlone ==
  ASSUME TypeOK, Skeleton, Waiters, Close, Low(Top.m) = Index(Top.m),
         NEW d \in Members(Base) \ Closing, NEW p \in Parents(d)
  PROVE  p \notin Closing
<1>1. InEvaluation
  BY DEF Close, On, InEvaluation, Resumed
<1>2. /\ Top = calls[Size] /\ Base \in Evaluations /\ Tree(Base) /\ Top.m \in Module
      /\ \A x \in Members(Base) : Index(Top.m) <= Index(x) => Nearest(Size, Base, x)
  BY <1>1, TopVisit, ClosingFacts DEF Skeleton
<1>3. Members(Base) \subseteq Module
  BY <1>2, CallsType, MembersType DEF Evaluations
<1>4. SUFFICES ASSUME p \in Closing
               PROVE  FALSE
  OBVIOUS
<1>5. ~Coming(Size, Base, p)
  BY <1>2, ClosingFacts, ProgramType DEF Coming, Skeleton
<1> QED BY <1>2, <1>5, <1>4, <1>3, ParentsType, RecordsType DEF Lowest, Tree, Closing, Waiters

(* A member of a component has looked at all it requests. *)
LEMMA ClosingQuiet ==
  ASSUME TypeOK, Skeleton, Close, Low(Top.m) = Index(Top.m), NEW x \in Closing
  PROVE  x \notin Busy
<1>1. Shaped /\ Trees
  BY DEF Skeleton
<1>2. InEvaluation
  BY DEF Close, On, InEvaluation, Resumed
<1>3. /\ Top = calls[Size] /\ Base \in Evaluations /\ Tree(Base) /\ Top.m \in Module /\ Visits(Size, Base)
  BY <1>1, <1>2, TopVisit, ClosingFacts
<1>4. SUFFICES ASSUME x \in Busy
               PROVE  FALSE
  OBVIOUS
<1>5. PICK j \in 1 .. Size : calls[j].at = "inner" /\ calls[j].m = x /\ calls[j].i <= Len(requested(x)) + 1
  BY <1>4 DEF Busy
<1>6. PICK k \in Evaluations : Visits(j, k) /\ x \in Members(k)
  BY <1>1, <1>5, OwnVisit
<1>7. j < Size
  BY <1>3, <1>5, ProgramType, CallsType, <1>1, ClosingFacts
<1>8. x \in Module
  BY <1>3, CallsType, MembersType, <1>1, ClosingFacts DEF Evaluations
<1> QED BY <1>3, <1>5, <1>8, RecordsType, <1>6, <1>7, <1>1, ClosingFacts DEF Closing, Visited, Tree, Trees

(* A component whose root is asynchronous reaches a top-level await. *)
LEMMA ClosingAwaits ==
  ASSUME TypeOK, Skeleton, Awaiting, Close, Low(Top.m) = Index(Top.m), NEW x \in Closing,
         records[Top.m].asyncEvaluation
  PROVE  TLAIn(Graph(x))
<1>1. InEvaluation
  BY DEF Close, On, InEvaluation, Resumed
<1>2. Base \in Evaluations /\ Base \in 1 .. Size /\ Tree(Base) /\ Top.m \in Module
  BY <1>1, TopVisit, CallsType, ClosingFacts DEF Evaluations, Skeleton
<1>3. Members(Base) \subseteq Module /\ x \in Members(Base) /\ Top.m \in Members(Base) /\ calls[Base].m \in Module
  BY <1>2, MembersType, ClosingFacts DEF Skeleton
<1>4. CASE ~Clean(Base, x)
  BY <1>2, <1>3, GraphRules, <1>4, CallsType DEF TLAIn, Awaiting, Under, Numbered, FromRoot, Tree, Nested, Clean,
     Evaluations
<1> QED BY <1>4, <1>2, <1>3, GraphRules, ClosingFacts DEF TLAIn, Awaiting, Skeleton

----------------------------------------------------------------------------
LEMMA CountsComponent ==
  ASSUME TypeOK, TypeOK', Skeleton, Counts, program' = program, Close, Low(Top.m) = Index(Top.m)
  PROVE  Counts'
<1>1. /\ Shaped /\ Rooted /\ Trees /\ Fresh /\ Marks /\ Awaiting /\ Waiters /\ Enough /\ Exact /\ Gathering
  BY DEF Skeleton, Counts
<1>2. /\ Top.m \in Closing /\ Closing \subseteq Members(Base) /\ Typed /\ Top.at = "inner"
      /\ Top.i = Len(requested(Top.m)) + 2
  BY <1>1, ClosingFacts
<1>3. InEvaluation
  BY DEF Close, On, InEvaluation, Resumed
<1>4. PICK b \in Nat, s \in Nat, m \in Module, C \in SUBSET Module :
        /\ b = Base /\ s = Size /\ m = Top.m /\ C = Closing /\ m \in C /\ C \subseteq Members(b) /\ b \in 1 .. s
  BY <1>2, MembersType, <1>1, <1>3, TopVisit, CallsType DEF Evaluations
<1>5. /\ Base < Size /\ Size' = Size - 1
      /\ \A j \in 1 .. Size - 1 : j # Base => calls'[j] = calls[j]
      /\ {calls'[Base].todo[i] : i \in DOMAIN calls'[Base].todo} = Members(Base) \ Closing
      /\ \A x \in Module :
           /\ records'[x].status = IF x \in Closing
                THEN IF records[x].asyncEvaluation THEN "evaluating-async" ELSE "evaluated"
                ELSE records[x].status
           /\ records'[x].cycleRoot = IF x \in Closing THEN Top.m ELSE records[x].cycleRoot
           /\ records'[x].error = records[x].error
      /\ SameIndex /\ SameAsync /\ SameWaits
  BY <1>1, ClosingFacts
<1>6. /\ b < s /\ Size' = s - 1
      /\ \A j \in 1 .. s - 1 : j # b => calls'[j] = calls[j]
      /\ {calls'[b].todo[i] : i \in DOMAIN calls'[b].todo} = Members(b) \ C
      /\ \A x \in Module :
           /\ records'[x].status = IF x \in C
                THEN IF records[x].asyncEvaluation THEN "evaluating-async" ELSE "evaluated"
                ELSE records[x].status
           /\ records'[x].cycleRoot = IF x \in C THEN m ELSE records[x].cycleRoot
           /\ records'[x].error = records[x].error
  BY <1>4, <1>5
<1>7. suspended' = suspended /\ abandoned' = abandoned /\ calls' \in Seq(Call)
  BY <1>2 DEF Close, bodies, history, Typed
<1>8. \A x \in Module : /\ records'[x].asyncEvaluation = records[x].asyncEvaluation
                        /\ records'[x].asyncParentModules = records[x].asyncParentModules
                        /\ Pending(x)' = Pending(x)
                        /\ hasTLA(x)' = hasTLA(x)
                        /\ Holding(x)' = Holding(x)
                        /\ hasError(x)' = hasError(x)
                        /\ Low(x)' = Low(x) /\ Index(x)' = Index(x)
  BY <1>5, <1>6, ProgramKept DEF SameAsync, SameWaits, SameIndex, Holding, hasError
<1>9. Todo' = Todo /\ List' = List /\ Running' = Running
  BY <1>1, StackClose DEF SameCompletion
<1>10. \A x \in C : records[x].status = "evaluating"
  BY <1>4, <1>1, <1>2, <1>3, TopVisit, CallsType DEF Numbered, Tree, Evaluations
<1>11. \A x \in C : x \notin Busy /\ (records[m].asyncEvaluation => TLAIn(Graph(x)))
  BY <1>1, <1>4, ClosingQuiet, ClosingAwaits
<1>12. Fresh'
  BY <1>1, <1>5, <1>6, <1>10, FreshKept, StackClose DEF Busy, Nested
<1>13. Marks'
  <2>1. \A x \in C : Pending(x) = 0 \/ records[x].asyncEvaluation
    BY <1>1, <1>4, <1>10, <1>11, RecordsType DEF Fresh
  <2>2. \A x \in Module :
           /\ records'[x].status = "evaluating-async" => records[x].status = "evaluating-async" \/ records[x].asyncEvaluation
           /\ records[x].status = "evaluating-async" => records'[x].status = "evaluating-async" \/ x \notin Running'
           /\ records'[x].cycleRoot # None => records[x].cycleRoot # None \/ Pending(x) = 0 \/ records[x].asyncEvaluation
           /\ records[x].cycleRoot # None => records'[x].cycleRoot # None
           /\ Evaluated(x)' => Evaluated(x) \/ ~records[x].asyncEvaluation \/ hasError(x)'
           /\ hasError(x) => hasError(x)'
    BY <1>6, <1>8, <1>10, <2>1, EsmAssumption DEF Evaluated
  <2> QED BY <1>1, <1>5, <1>7, <1>9, <2>2, MarksKept, StackClose
<1>14. Awaiting'
  BY <1>1, <1>4, <1>6, <1>8, <1>11, AwaitingKept, StackClose DEF Busy, Nested
<1>15. \A k \in Evaluations' : k \in Evaluations /\ Members(k)' = IF k = b THEN Members(b) \ C ELSE Members(k)
  <2>1. \A k \in Evaluations' : k # b => k \in Evaluations /\ Members(k)' = Members(k)
    BY <1>6, <1>4, <1>7, CallsType DEF Evaluations, Members, Size
  <2>2. Members(b)' = Members(b) \ C
    BY <1>6 DEF Members
  <2> QED BY <2>1, <2>2, <1>4, <1>1, <1>2, <1>3, TopVisit, CallsType DEF Evaluations
<1>16. Waiters'
  <2>1. \A k \in Evaluations' : \A d \in Members(k)' : \A p \in Parents(d) :
          d \in Module /\ p \in Members(k)' /\ Low(p)' <= Index(d)'
    BY <1>8, <1>15, <1>1, <1>4, ClosingAlone, ParentsType, MembersType, CallsType DEF Waiters, Evaluations
  <2> QED BY <1>1, <1>8, <2>1, WaitersKept, <1>6, <1>10, <1>9, CompletionType DEF Evaluated, Waiters
<1>17. Enough'
  BY <1>1, <1>8, <1>9, EnoughKept
<1>18. Exact'
  BY <1>1, <1>7, <1>8, <1>9, ExactKept, <1>6, <1>10, RecordsType DEF Owing, Counted, Rooted
<1>19. Gathering'
  BY <1>1, <1>5, <1>6, <1>7, <1>8, <1>9, <1>10, GatheringKept
<1> QED BY <1>12, <1>13, <1>14, <1>16, <1>17, <1>18, <1>19 DEF Counts

LEMMA CountsClose ==
  ASSUME TypeOK, TypeOK', Skeleton, Counts, program' = program, Close
  PROVE  Counts'
BY CountsLeave, CountsComponent

----------------------------------------------------------------------------
(* What fails with an evaluate takes those that wait for it along. *)
LEMMA FailedRules ==
  ASSUME TypeOK, Skeleton, Waiters, InEvaluation
  PROVE  /\ Failed \subseteq Module
         /\ \A x \in Failed : ~cyclic(x) \/ (x \in Members(Base) /\ records[x].status = "evaluating")
         /\ Members(Base) \subseteq Failed
         /\ \A x \in Failed : \A p \in Parents(x) : p \in Failed
<1> QED BY MembersType, Bases, CallsType, CallFields DEF Failed, Tree, Numbered, Skeleton, Trees, Waiters, On

LEMMA CountsCut ==
  ASSUME TypeOK, TypeOK', Skeleton, Counts, program' = program, abandoned' = abandoned, suspended' = suspended,
         InEvaluation, NEW e \in Module, Unwind(e)
  PROVE  Counts'
<1>1. /\ Shaped /\ Rooted /\ Trees /\ Fresh /\ Marks /\ Awaiting /\ Waiters /\ Enough /\ Exact /\ Gathering
  BY DEF Skeleton, Counts
<1>2. PICK b \in Nat, s \in Nat, F \in SUBSET Module :
        /\ b = Base /\ s = Size /\ F = Failed /\ b \in 1 .. s /\ Members(b) \subseteq F
        /\ \A x \in F : ~cyclic(x) \/ (x \in Members(b) /\ records[x].status = "evaluating")
        /\ \A x \in F : \A p \in Parents(x) : p \in F
  BY <1>1, FailedRules, Bases, CallsType
<1>3. /\ Cuts(b) /\ Typed
      /\ \A x \in Module :
           /\ records'[x].status = IF x \in F THEN "evaluated" ELSE records[x].status
           /\ records'[x].error = IF x \in F THEN e ELSE records[x].error
           /\ records'[x].cycleRoot = records[x].cycleRoot
      /\ SameIndex /\ SameAsync /\ SameWaits
  BY <1>1, <1>2, UnwindFacts
<1>4. calls' \in Seq(Call) /\ Cuts(Base)
  BY <1>2, <1>3 DEF Typed
<1>5. \A x \in Module : /\ records'[x].asyncEvaluation = records[x].asyncEvaluation
                        /\ records'[x].asyncParentModules = records[x].asyncParentModules
                        /\ Pending(x)' = Pending(x)
                        /\ hasTLA(x)' = hasTLA(x)
                        /\ Holding(x)' = Holding(x)
                        /\ hasError(x)' = (x \in F \/ hasError(x))
                        /\ Low(x)' = Low(x) /\ Index(x)' = Index(x)
  BY <1>3, ProgramKept, EsmAssumption DEF SameAsync, SameWaits, SameIndex, Holding, hasError
<1>6. Todo' = Todo /\ List' = List /\ Running' = Running
  BY <1>1, <1>2, <1>4, StackCut DEF SameCompletion
<1>7. Fresh'
  BY <1>1, <1>2, <1>3, FreshKept, <1>4, StackCut DEF Busy, Nested
<1>8. Marks'
  BY <1>1, <1>3, <1>5, <1>6, MarksKept, <1>2, <1>4, StackCut DEF Evaluated, Rooted
<1>9. Awaiting'
  BY <1>1, <1>3, <1>5, AwaitingKept, <1>2, <1>4, StackCut DEF Busy, Nested
<1>10. Waiters'
  <2>1. \A k \in Evaluations' : k \in Evaluations /\ Members(k)' = Members(k)
    BY <1>2, <1>3, <1>4, CallsType DEF Evaluations, Members, Cuts, Size
  <2>2. \A k \in Evaluations' : \A d \in Members(k)' : \A p \in Parents(d) :
          d \in Module /\ p \in Members(k)' /\ Low(p)' <= Index(d)'
    BY <1>1, <1>5, <2>1, ParentsType, MembersType, CallsType DEF Waiters, Evaluations
  <2>3. \A i \in DOMAIN Todo' : records'[Todo'[i]].status # "linked"
    BY <1>1, <1>3, <1>6, CompletionType DEF Waiters
  <2> QED BY <1>1, <1>5, <2>2, <2>3, WaitersKept, <1>2, <1>3, ParentsType DEF Evaluated
<1>11. Enough'
  BY <1>1, <1>5, <1>6, EnoughKept
<1>12. Exact'
  <2>1. \A x \in Module : Counted(x)' => Counted(x)
    BY <1>3, <1>5, <1>1, RecordsType DEF Counted, Rooted
  <2> QED BY <1>1, <1>5, <1>6, <2>1, ExactKept, <1>2, <1>3 DEF Owing, Counted
<1>13. Gathering'
  BY <1>1, <1>3, <1>5, <1>6, GatheringKept
<1> QED BY <1>7, <1>8, <1>9, <1>10, <1>11, <1>12, <1>13 DEF Counts

LEMMA CountsRethrow ==
  ASSUME TypeOK, TypeOK', Skeleton, Counts, program' = program, Rethrow
  PROVE  Counts'
<1> QED BY CountsCut, RethrowFacts DEF Rethrow, bodies, history, Skeleton

LEMMA CountsThrows ==
  ASSUME TypeOK, TypeOK', Skeleton, Counts, program' = program, BodyThrows, ~Resumed
  PROVE  Counts'
<1> QED BY CountsCut, ThrowFacts DEF BodyThrows, bodies, history, Skeleton

----------------------------------------------------------------------------
(* A module that has to wait becomes asynchronous; nothing waits for it yet. *)
LEMMA CountsEvaluateAsync ==
  ASSUME TypeOK, TypeOK', Skeleton, Counts, program' = program, EvaluateAsync
  PROVE  Counts'
<1>1. /\ Shaped /\ Rooted /\ Trees /\ Fresh /\ Marks /\ Awaiting /\ Waiters /\ Enough /\ Exact /\ Gathering
  BY DEF Skeleton, Counts
<1>2. Looked
  BY EvaluateAsyncFacts
<1>3. /\ ~Idle /\ Top \in Call /\ Top = calls[Size] /\ Top.at = "inner" /\ Top.m \in Module /\ Size > 0 /\ Size \in Nat
      /\ InEvaluation
  BY <1>2, LookedFacts
<1>4. PICK m \in Module, s \in Nat : m = Top.m /\ s = Size
  BY <1>3
<1>5. /\ Pending(m) > 0 \/ hasTLA(m)
      /\ IF Pending(m) > 0 THEN Turns(Step(Top)) ELSE Runs(Step(Top), Frame("body", Top.m))
      /\ calls' \in Seq(Call)
      /\ \A x \in Module : records'[x].asyncEvaluation = (x = m \/ records[x].asyncEvaluation)
      /\ SameState /\ SameIndex /\ SameWaits
  BY <1>4, EvaluateAsyncFacts DEF Typed
<1>6. /\ Busy' = Busy \ {m} /\ m \in Busy
      /\ \A x \in Bodies' : x \in Bodies \/ (x = m /\ Runs(Step(Top), Frame("body", Top.m)))
      /\ Nested' \subseteq Nested /\ SameCompletion
  BY <1>1, <1>2, <1>4, <1>5, StackRuns
<1>7. Runs(Step(Top), Frame("body", Top.m)) => Pending(m) = 0
  BY <1>5, RecordsType, <1>3 DEF Turns, Runs, Size
<1>8. \A x \in Module : /\ records'[x].status = records[x].status
                        /\ records'[x].error = records[x].error
                        /\ records'[x].cycleRoot = records[x].cycleRoot
                        /\ records'[x].asyncParentModules = records[x].asyncParentModules
                        /\ Pending(x)' = Pending(x) /\ Pending(x) \in Nat
                        /\ hasTLA(x)' = hasTLA(x) /\ cyclic(x)' = cyclic(x)
                        /\ Graph(x)' = Graph(x) /\ TLAIn(Graph(x))' = TLAIn(Graph(x))
                        /\ x # m => (Holding(x)' <=> Holding(x))
                        /\ Evaluated(x)' = Evaluated(x)
                        /\ hasError(x)' = hasError(x)
                        /\ Low(x)' = Low(x)
  BY <1>5, ProgramKept, RecordsType DEF SameState, SameWaits, SameIndex, Holding, Evaluated, hasError
<1>9. Todo' = Todo /\ List' = List /\ Running' = Running
  BY <1>6 DEF SameCompletion
<1>10. Busy \subseteq Module /\ Nested \subseteq Module
  BY DEF Busy, Nested
<1>11. records[m].status = "evaluating" /\ cyclic(m) /\ records[m].cycleRoot = None
  BY <1>1, <1>3, <1>4, TopVisit DEF Rooted, Tree, Numbered
<1>12. Holding(m)'
  BY <1>5, <1>8 DEF Holding
<1>13. Fresh'
  <2>1. \A x \in Module : records'[x].status = "linked" =>
          ~records'[x].asyncEvaluation /\ records'[x].asyncParentModules = <<>> /\ Pending(x)' = 0
    BY <1>1, <1>5, <1>8, <1>11 DEF Fresh
  <2>2. \A x \in Module : records'[x].status = "evaluating" /\ Pending(x)' > 0 /\ ~records'[x].asyncEvaluation => x \in Busy'
    BY <1>1, <1>5, <1>6, <1>8 DEF Fresh
  <2> QED BY <2>1, <2>2, <1>1, <1>5, <1>8, <1>12, <1>6, <1>10 DEF Fresh
<1>14. Marks'
  <2>1. SUFFICES ASSUME NEW x \in Module
                 PROVE  /\ records'[x].asyncEvaluation => cyclic(x)'
                        /\ records'[x].status = "evaluating-async" => records'[x].asyncEvaluation
                        /\ records'[x].cycleRoot # None /\ Pending(x)' > 0 => records'[x].asyncEvaluation
                        /\ Evaluated(x)' /\ records'[x].asyncEvaluation => hasError(x)'
                        /\ x \in suspended' => hasTLA(x)' /\ records'[x].asyncEvaluation /\ Pending(x)' = 0
                        /\ x \in Bodies' /\ hasTLA(x)' => records'[x].asyncEvaluation /\ Pending(x)' = 0
                        /\ x \in Running' => records'[x].status = "evaluating-async" /\ Pending(x)' = 0
                        /\ x \in List' => Pending(x)' = 0 /\ records'[x].cycleRoot # None
    BY DEF Marks
  <2>2. records'[x].asyncEvaluation = (x = m \/ records[x].asyncEvaluation)
    BY <1>5
  <2>3. /\ records'[x].asyncEvaluation => cyclic(x)'
        /\ records'[x].status = "evaluating-async" => records'[x].asyncEvaluation
        /\ records'[x].cycleRoot # None /\ Pending(x)' > 0 => records'[x].asyncEvaluation
    BY <1>1, <1>8, <1>11, <2>2 DEF Marks
  <2>4. Evaluated(x)' /\ records'[x].asyncEvaluation => hasError(x)'
    BY <1>1, <1>8, <1>11, <2>2 DEF Marks, Evaluated
  <2>5. x \in Bodies' /\ hasTLA(x)' => records'[x].asyncEvaluation /\ Pending(x)' = 0
    BY <1>1, <1>6, <1>7, <1>8, <2>2 DEF Marks
  <2> QED BY <2>3, <2>4, <2>5, <1>1, <1>8, <1>9, <2>2 DEF Marks, EvaluateAsync, history
<1>15. Awaiting'
  <2>1. hasTLA(m) => TLAIn(Graph(m))
    BY GraphRules DEF TLAIn
  <2>2. \A x \in Module : records'[x].cycleRoot # None /\ records'[records'[x].cycleRoot].asyncEvaluation => TLAIn(Graph(x))'
    <3>1. SUFFICES ASSUME NEW x \in Module, records'[x].cycleRoot # None, records'[records'[x].cycleRoot].asyncEvaluation
                   PROVE  TLAIn(Graph(x))
      BY <1>8
    <3>2. PICK r \in Module : r = records[x].cycleRoot
      BY <1>8, <3>1, RecordsType
    <3>3. r # m
      BY <1>1, <1>8, <1>11, <3>1, <3>2 DEF Rooted
    <3> QED BY <1>1, <1>8, <3>1, <3>2, <1>5, <3>3 DEF Awaiting
  <2> QED BY <2>2, <1>1, <1>6, <1>8, <1>10, <1>5, <2>1 DEF Awaiting
<1>16. \A k \in Evaluations' : Members(k)' = {} \/ (k \in Evaluations /\ Members(k)' = Members(k))
  <2>1. Keeps(Size) /\ (Size' = Size \/ (Size' = Size + 1 /\ calls'[Size + 1].at = "body"))
    BY <1>5, <1>3, KeepsRules, FrameType, StepType DEF Runs
  <2> QED BY <1>5, <2>1, MembersKept, <1>3 DEF Runs, Turns
<1>17. Waiters'
  <2>1. \A k \in Evaluations' : \A d \in Members(k)' : \A p \in Parents(d) :
          d \in Module /\ p \in Members(k)' /\ Low(p)' <= Index(d)'
    BY <1>1, <1>5, <1>8, <1>16, ParentsType, MembersType, CallsType DEF Waiters, SameIndex, Evaluations
  <2> QED BY <1>1, <1>8, <2>1, WaitersKept, <1>9, CompletionType DEF Waiters
<1>18. Enough'
  BY <1>1, <1>8, <1>9, EnoughKept, <1>6, ParentsType DEF Fresh
<1>19. Exact'
  BY <1>1, <1>8, <1>9, ExactKept, <1>6, ParentsType, RecordsType DEF EvaluateAsync, history, Fresh, Owing, Counted,
     Rooted
<1>20. Gathering'
  BY <1>1, <1>5, <1>8, <1>9, <1>11 DEF Gathering, EvaluateAsync, history
<1> QED BY <1>13, <1>14, <1>15, <1>17, <1>18, <1>19, <1>20 DEF Counts

----------------------------------------------------------------------------
(* A module that finds another asynchronous is one that an import evaluates. *)
LEMMA DependAsync ==
  ASSUME TypeOK, Skeleton, Counts, Depend, records[Awaited(Callee)].asyncEvaluation
  PROVE  /\ TLAIn(Graph(Top.m)) /\ Base = 1 /\ cyclic(Awaited(Callee))
         /\ ~abandoned => Holding(Awaited(Callee))
<1>1. /\ Shaped /\ Rooted /\ Trees /\ Fresh /\ Marks /\ Awaiting /\ Waiters /\ Gathering
  BY DEF Skeleton, Counts
<1>2. PICK m \in Module, c \in Module, r \in Module : m = Top.m /\ c = Callee /\ r = Awaited(Callee)
  BY <1>1, CalleeType, DependFacts
<1>3. TLAIn(Graph(m))
  BY <1>1, <1>2, GraphRules, CalleeType, DependFacts, EsmAssumption DEF TLAIn, Awaiting, Awaited, Marks
<1>4. Base \in Evaluations /\ Base \in 1 .. Size /\ Tree(Base) /\ m \in Members(Base)
  BY <1>1, <1>2, TopVisit, CallsType, CalleeType, DependFacts DEF Evaluations
<1>5. Base = 1
  BY <1>3, GraphRules, <1>4, <1>1, CallsType, MembersType DEF TLAIn, Under, Awaiting, Numbered, FromRoot, Tree,
     Nested, Evaluations
<1> QED BY <1>2, <1>3, <1>5, <1>1, <1>4, DependFacts, EsmAssumption DEF Marks, List, Running, Evaluations,
     Completing, Gathering, Rooted, Awaited, Fresh

LEMMA CountsDepend ==
  ASSUME TypeOK, TypeOK', Skeleton, Counts, program' = program, Depend
  PROVE  Counts'
<1>1. /\ Shaped /\ Rooted /\ Trees /\ Fresh /\ Marks /\ Awaiting /\ Waiters /\ Enough /\ Exact /\ Gathering
  BY DEF Skeleton, Counts
<1>2. /\ Looking /\ Top.at = "inner" /\ Seen /\ ErrorOf(Callee) = None
      /\ Top.m \in Module /\ Awaited(Callee) \in Module /\ ~hasError(Awaited(Callee))
      /\ Turns(Step(Top)) /\ calls' \in Seq(Call)
      /\ SameState /\ SameAsync /\ SameCaps
  BY <1>1, DependFacts DEF Typed
<1>3. /\ Callee \in Module /\ Callee \in Requests(Top.m) /\ InEvaluation
      /\ Top \in Call /\ Top = calls[Size] /\ Size \in Nat /\ Size > 0
      /\ Top.i \in 1 .. Len(requested(Top.m))
  BY <1>1, <1>2, CalleeType
<1>4. /\ Base \in Evaluations /\ Base \in 1 .. Size /\ Tree(Base) /\ Top.m \in Members(Base)
      /\ \A k \in Evaluations : k <= Base /\ k \in 1 .. Size
  BY <1>1, <1>2, <1>3, TopVisit, Regions
<1>5. PICK m \in Module, r \in Module, b \in Nat, s \in Nat :
        /\ m = Top.m /\ r = Awaited(Callee) /\ b = Base /\ s = Size
        /\ records[r].asyncEvaluation => TLAIn(Graph(m)) /\ b = 1 /\ cyclic(r) /\ (~abandoned => Holding(r))
  BY <1>2, <1>3, <1>4, DependAsync
<1>6. /\ \A x \in Module :
           /\ Index(x)' = Index(x)
           /\ Low(x)' = IF x = m /\ records[r].status = "evaluating" THEN Least(Low(x), Low(r)) ELSE Low(x)
           /\ Pending(x)' = IF x = m /\ records[r].asyncEvaluation THEN Pending(x) + 1 ELSE Pending(x)
           /\ records'[x].asyncParentModules =
                IF x = r /\ records[r].asyncEvaluation THEN Append(records[x].asyncParentModules, m)
                ELSE records[x].asyncParentModules
  BY <1>1, <1>5, DependFacts
<1>7. m \in Busy
  <2>1. Len(requested(m)) \in Nat
    BY ProgramType
  <2> QED BY <1>2, <1>3, <1>5, <2>1 DEF Busy
<1>8. /\ Busy' = Busy /\ Bodies' \subseteq Bodies /\ Nested' \subseteq Nested /\ SameCompletion
  <2>1. Step(Top).at = "inner" /\ Step(Top).m = Top.m /\ Step(Top).i = Top.i + 1
    BY <1>2, <1>3, StepType
  <2>2. Step(Top).i <= Len(requested(Top.m)) + 1 <=> Top.i <= Len(requested(Top.m)) + 1
    BY <1>2, <1>3, <2>1, ProgramType
  <2> QED BY <1>1, <1>2, <1>3, <2>1, <2>2, StackTurn
<1>9. suspended' = suspended /\ abandoned' = abandoned
  BY DEF Depend, bodies, history
<1>10. ~records[m].asyncEvaluation /\ records[m].asyncParentModules = <<>> /\ Parents(m) = {}
  BY <1>1, <1>7, ParentsType DEF Fresh
<1>11. records[m].status = "evaluating" /\ cyclic(m) /\ records[m].cycleRoot = None
  <2>1. records[m].status = "evaluating" /\ cyclic(m)
    BY <1>4, <1>5 DEF Tree, Numbered
  <2> QED BY <1>1, <2>1 DEF Rooted
<1>12. \A x \in Module : /\ records'[x].status = records[x].status
                         /\ records'[x].error = records[x].error
                         /\ records'[x].cycleRoot = records[x].cycleRoot
                         /\ records'[x].asyncEvaluation = records[x].asyncEvaluation
                         /\ hasTLA(x)' = hasTLA(x) /\ cyclic(x)' = cyclic(x)
                         /\ Graph(x)' = Graph(x) /\ TLAIn(Graph(x))' = TLAIn(Graph(x))
                         /\ x # m => Pending(x)' = Pending(x)
                         /\ Holding(x)' <=> Holding(x)
                         /\ Evaluated(x)' = Evaluated(x)
                         /\ hasError(x)' = hasError(x)
  BY <1>2, <1>6, <1>10, ProgramKept DEF SameState, SameAsync, Holding, Evaluated, hasError
<1>13. Todo' = Todo /\ List' = List /\ Running' = Running
  BY <1>8 DEF SameCompletion
<1>14. Busy \subseteq Module /\ Nested \subseteq Module
  BY DEF Busy, Nested
<1>15. Fresh'
  <2>1. \A x \in Module : records'[x].status = "linked" =>
          ~records'[x].asyncEvaluation /\ records'[x].asyncParentModules = <<>> /\ Pending(x)' = 0
    BY <1>1, <1>6, <1>11, <1>12 DEF Fresh
  <2>2. \A x \in Busy' : ~records'[x].asyncEvaluation /\ records'[x].asyncParentModules = <<>>
    BY <1>1, <1>6, <1>8, <1>12, <1>14 DEF Fresh
  <2>3. \A x \in Module : records'[x].status = "evaluating" /\ Pending(x)' > 0 /\ ~records'[x].asyncEvaluation => x \in Busy'
    BY <1>1, <1>6, <1>7, <1>8, <1>12 DEF Fresh
  <2>4. \A x \in Module : records'[x].status = "evaluating" /\ records'[x].asyncEvaluation => Holding(x)'
    BY <1>1, <1>12 DEF Fresh
  <2> QED BY <2>1, <2>2, <2>3, <2>4 DEF Fresh
<1>16. Marks'
  <2>1. SUFFICES ASSUME NEW x \in Module
                 PROVE  /\ records'[x].asyncEvaluation => cyclic(x)'
                        /\ records'[x].status = "evaluating-async" => records'[x].asyncEvaluation
                        /\ records'[x].cycleRoot # None /\ Pending(x)' > 0 => records'[x].asyncEvaluation
                        /\ Evaluated(x)' /\ records'[x].asyncEvaluation => hasError(x)'
                        /\ x \in suspended' => hasTLA(x)' /\ records'[x].asyncEvaluation /\ Pending(x)' = 0
                        /\ x \in Bodies' /\ hasTLA(x)' => records'[x].asyncEvaluation /\ Pending(x)' = 0
                        /\ x \in Running' => records'[x].status = "evaluating-async" /\ Pending(x)' = 0
                        /\ x \in List' => Pending(x)' = 0 /\ records'[x].cycleRoot # None
    BY DEF Marks
  <2>2. CASE x = m
    <3>1. /\ x \notin suspended /\ ~(x \in Bodies /\ hasTLA(x)) /\ x \notin Running /\ x \notin List
      BY <1>1, <1>10, <1>11, <2>2 DEF Marks
    <3> QED BY <1>8, <1>9, <1>10, <1>11, <1>12, <1>13, <2>2, <3>1
  <2>3. CASE x # m
    BY <1>1, <1>8, <1>9, <1>12, <1>13, <2>3 DEF Marks
  <2> QED BY <2>2, <2>3
<1>17. Awaiting'
  <2>1. \A x \in Module : records'[x].asyncEvaluation \/ Pending(x)' > 0 => TLAIn(Graph(x))'
    BY <1>1, <1>5, <1>6, <1>12 DEF Awaiting
  <2>2. \A x \in Module : records'[x].cycleRoot # None /\ records'[records'[x].cycleRoot].asyncEvaluation => TLAIn(Graph(x))'
    <3>1. SUFFICES ASSUME NEW x \in Module, records[x].cycleRoot # None, records'[records[x].cycleRoot].asyncEvaluation
                   PROVE  TLAIn(Graph(x))
      BY <1>12
    <3>2. records[x].cycleRoot \in Module
      BY <3>1, RecordsType
    <3> QED BY <1>1, <1>12, <3>1, <3>2 DEF Awaiting
  <2>3. \A x \in Nested' : records'[x].status \in {"linked", "evaluating"} => ~TLAIn(Graph(x))'
    BY <1>1, <1>8, <1>12, <1>14 DEF Awaiting
  <2> QED BY <2>1, <2>2, <2>3 DEF Awaiting
<1>18. \A k \in Evaluations' : k \in Evaluations /\ Members(k)' = Members(k)
  <2>1. DOMAIN calls' = 1 .. s /\ DOMAIN calls = 1 .. s
    BY <1>2, <1>5, CallsType DEF Size, Turns
  <2>2. \A j \in 1 .. s - 1 : calls'[j] = calls[j]
    BY <1>2, <1>5 DEF Turns
  <2>3. calls'[s].at = "inner"
    BY <1>2, <1>3, <1>5, StepType DEF Turns
  <2>4. \A k \in Evaluations' : k \in 1 .. s - 1
    BY <1>5, <2>1, <2>3 DEF Evaluations
  <2> QED BY <2>1, <2>2, <2>4 DEF Evaluations, Members
<1>19. \A d \in Module : \A p \in Parents(d)' : p \in Module /\ (p \in Parents(d) \/ (d = r /\ p = m /\ records[r].asyncEvaluation))
  <2>1. SUFFICES ASSUME NEW d \in Module, NEW p \in Parents(d)'
                 PROVE  p \in Parents(d) \/ (d = r /\ p = m /\ records[r].asyncEvaluation)
    BY ParentsType
  <2>2. CASE d = r /\ records[r].asyncEvaluation
    <3>1. PICK q : q = records[d].asyncParentModules
      OBVIOUS
    <3>2. q \in Seq(Module)
      BY <3>1, RecordsType
    <3>3. records'[d].asyncParentModules = Append(q, m)
      BY <1>6, <2>2, <3>1
    <3>4. PICK i \in DOMAIN Append(q, m) : p = Append(q, m)[i]
      BY <3>3 DEF Parents
    <3>5. i = Len(q) + 1 \/ (i \in DOMAIN q /\ p = q[i])
      BY <3>2, <3>4
    <3>6. i = Len(q) + 1 => p = m
      BY <3>2, <3>4
    <3> QED BY <2>2, <3>1, <3>5, <3>6 DEF Parents
  <2>3. CASE ~(d = r /\ records[r].asyncEvaluation)
    BY <1>6, <2>3 DEF Parents
  <2> QED BY <2>2, <2>3
<1>20. Waiters'
  <2>1. ASSUME NEW d \in Module, NEW p \in Parents(d)'
        PROVE  records'[p].status # "linked" /\ cyclic(d)' /\ (hasError(d)' => Evaluated(p)')
    BY <1>1, <1>2, <1>5, <1>11, <1>12, <1>19 DEF Waiters
  <2>2. ASSUME NEW d \in Module, NEW p \in Parents(d)', NEW k \in Evaluations', d \in Members(k)'
        PROVE  p \in Members(k)' /\ Low(p)' <= Index(d)'
    <3>1. k \in Evaluations /\ d \in Members(k) /\ p \in Module
      BY <1>18, <1>19, <2>2
    <3>2. Low(p) \in Nat /\ Low(r) \in Nat /\ Index(d) \in Nat
      BY <3>1, RecordsType
    <3>3. CASE p \in Parents(d)
      <4>1. p \in Members(k) /\ Low(p) <= Index(d)
        BY <1>1, <3>1, <3>3 DEF Waiters
      <4> QED BY <1>6, <1>18, <2>2, <3>1, <3>2, <4>1 DEF Least
    <3>4. CASE d = r /\ p = m /\ records[r].asyncEvaluation
      <4>1. k = b
        <5>1. b = 1 /\ k <= b /\ k \in 1 .. s
          BY <1>4, <1>5, <3>1, <3>4
        <5> QED BY <5>1
      <4>2. Numbered(b)
        BY <1>4, <1>5 DEF Tree
      <4>3. records[r].status = "evaluating" /\ Low(r) <= Index(r)
        BY <3>1, <3>4, <4>1, <4>2 DEF Numbered
      <4>4. m \in Members(b)
        BY <1>4, <1>5
      <4> QED BY <1>6, <1>18, <2>2, <3>2, <3>4, <4>1, <4>3, <4>4 DEF Least
    <3> QED BY <1>19, <3>3, <3>4
  <2>3. \A i \in DOMAIN Todo' : records'[Todo'[i]].status # "linked"
    BY <1>1, <1>12, <1>13, CompletionType DEF Waiters
  <2> QED BY <2>1, <2>2, <2>3 DEF Waiters
<1>21. Par \in ParentLists /\ Par' \in ParentLists /\ Held \in SUBSET Module /\ Owing \in SUBSET Module /\ IsFiniteSet(Module)
  <2>1. \A x \in Module : records'[x].asyncParentModules \in Seq(Module)
    BY DEF TypeOK
  <2> QED BY <2>1, ParType DEF Par, ParentLists
<1>22. Held' = Held /\ Owing' = Owing
  BY <1>12 DEF Held, Owing
<1>23. \A D \in SUBSET Module : \A p \in Module :
         Owes(Par', D, {p}) = Owes(Par, D, {p}) + IF records[r].asyncEvaluation /\ r \in D /\ m = p THEN 1 ELSE 0
  <2>1. SUFFICES ASSUME NEW D \in SUBSET Module, NEW p \in Module
                 PROVE  Owes(Par', D, {p}) = Owes(Par, D, {p}) + IF records[r].asyncEvaluation /\ r \in D /\ m = p THEN 1 ELSE 0
    OBVIOUS
  <2>2. CASE records[r].asyncEvaluation
    <3>1. PICK qar \in ParentLists, par \in ParentLists, A \in {{p}} : qar = Par' /\ par = Par /\ A = {p}
      BY <1>21
    <3>2. \A d \in Module : qar[d] = IF d = r THEN Append(par[d], m) ELSE par[d]
      BY <1>6, <2>2, <3>1 DEF Par
    <3>3. IsFiniteSet(Module)
      BY <1>21
    <3>4. Owes(qar, D, A) = Owes(par, D, A) + IF r \in D /\ m \in A THEN 1 ELSE 0
      BY <3>2, <3>3, OwesAppend
    <3> QED BY <2>2, <3>1, <3>4
  <2>3. CASE ~records[r].asyncEvaluation
    <3>1. Par' = Par
      BY <1>6, <2>3 DEF Par
    <3>2. Owes(Par, D, {p}) \in Nat
      BY <1>21, OwedFinite
    <3> QED BY <2>3, <3>1, <3>2
  <2> QED BY <2>2, <2>3
<1>24. Enough'
  <2>1. SUFFICES ASSUME NEW p \in Module
                 PROVE  Pending(p)' >= Owes(Par', Held, {p}) + Num(Todo, {p})
    BY <1>13, <1>22 DEF Enough
  <2>2. Pending(p) >= Owes(Par, Held, {p}) + Num(Todo, {p})
    BY <1>1 DEF Enough
  <2>3. Owes(Par', Held, {p}) = Owes(Par, Held, {p}) + IF records[r].asyncEvaluation /\ r \in Held /\ m = p THEN 1 ELSE 0
    BY <1>21, <1>23
  <2> QED BY <1>6, <2>2, <2>3, CountTypes
<1>25. Exact'
  <2>1. SUFFICES ASSUME ~abandoned', NEW p \in Module, Counted(p)'
                 PROVE  Pending(p)' = Owes(Par', Owing, {p}) + Num(Todo, {p})
    BY <1>13, <1>22 DEF Exact
  <2>2. Counted(p)
    <3>1. records[p].status = "evaluating-async" => records[p].cycleRoot \in Module
      BY <1>1, RecordsType DEF Rooted
    <3> QED BY <1>12, <2>1, <3>1 DEF Counted
  <2>3. Pending(p) = Owes(Par, Owing, {p}) + Num(Todo, {p})
    BY <1>1, <1>9, <2>1, <2>2 DEF Exact
  <2>4. records[r].asyncEvaluation => r \in Owing
    BY <1>2, <1>5, <1>9, <2>1 DEF Owing
  <2>5. Owes(Par', Owing, {p}) = Owes(Par, Owing, {p}) + IF records[r].asyncEvaluation /\ r \in Owing /\ m = p THEN 1 ELSE 0
    BY <1>21, <1>23
  <2> QED BY <1>6, <2>3, <2>4, <2>5, CountTypes
<1>26. Gathering'
  BY <1>1, <1>9, <1>12, <1>13 DEF Gathering
<1> QED BY <1>15, <1>16, <1>17, <1>20, <1>24, <1>25, <1>26 DEF Counts

----------------------------------------------------------------------------
(* Nothing is evaluated while a completion runs, or when the stack is empty. *)
\* No module is being evaluated, before the step and after it.
Quiet == /\ Evaluations = {} /\ Evaluations' = {} /\ Busy' = {} /\ Nested' = {}
         /\ \A x \in Module : records[x].status # "evaluating" /\ records'[x].status # "evaluating"

LEMMA QuietSteps ==
  ASSUME TypeOK, Skeleton, Skeleton', calls' \in Seq(Call), Idle \/ On("completion") \/ (On("body") /\ Resumed),
         \/ Size' = 0
         \/ \E f : Alone(f)
         \/ \E f : \E x \in Module : Both(f, x)
  PROVE  Quiet
<1> QED BY StackNext, StackSmall DEF Quiet, Skeleton, Trees, Evaluations, Both, Alone, Size

(* An exception of a body that a completion ran, or an awaited body that fails. *)
LEMMA CountsRejected ==
  ASSUME TypeOK, TypeOK', Rooted, Counts, program' = program, Quiet, NEW m \in Module, records' = Rejected(m),
         abandoned' = abandoned, suspended' \subseteq suspended, Bodies' \subseteq Bodies,
         Todo' = Todo, List' = List, Running' = {}, \A x \in Running : x = m
  PROVE  Counts'
<1>1. /\ Fresh /\ Marks /\ Awaiting /\ Waiters /\ Enough /\ Exact /\ Gathering
  BY DEF Counts
<1>2. PICK F \in SUBSET Module :
        /\ F = Dependents(m)
        /\ \A x \in F : ~Evaluated(x)
        /\ \A x \in F, p \in Module : p \in Parents(x) => Evaluated(p) \/ p \in F
        /\ ~Evaluated(m) => m \in F
  BY DependentRules
<1>3. /\ \A x \in Module :
           /\ records'[x].status = IF x \in F THEN "evaluated" ELSE records[x].status
           /\ records'[x].error = IF x \in F THEN m ELSE records[x].error
           /\ records'[x].cycleRoot = records[x].cycleRoot
      /\ SameIndex /\ SameAsync /\ SameWaits
  BY <1>2, RejectedFacts
<1>4. \A x \in Module : /\ records'[x].asyncEvaluation = records[x].asyncEvaluation
                        /\ records'[x].asyncParentModules = records[x].asyncParentModules
                        /\ Pending(x)' = Pending(x)
                        /\ hasTLA(x)' = hasTLA(x)
                        /\ Holding(x)' = Holding(x)
                        /\ hasError(x)' = (x \in F \/ hasError(x))
                        /\ Evaluated(x)' = (x \in F \/ Evaluated(x))
  BY <1>3, ProgramKept, EsmAssumption DEF SameAsync, SameWaits, Holding, hasError, Evaluated
<1>5. Fresh'
  BY <1>1, <1>3, <1>4, FreshQuiet DEF Quiet
<1>6. Marks'
  BY <1>1, <1>3, <1>4, MarksKept DEF Evaluated
<1>7. Awaiting'
  BY <1>1, <1>3, <1>4, AwaitingKept DEF Quiet
<1>8. Waiters'
  <2>1. \A i \in DOMAIN Todo' : records'[Todo'[i]].status # "linked"
    BY <1>1, <1>3, CompletionType DEF Waiters
  <2> QED BY <1>1, <1>3, <1>4, <2>1, WaitersKept, <1>2, ParentsType DEF Quiet
<1>9. Enough'
  BY <1>1, <1>4, EnoughKept
<1>10. Exact'
  <2>1. \A x \in Module : Counted(x)' => Counted(x)
    BY <1>3, <1>4, RecordsType DEF Counted, Rooted
  <2> QED BY <1>1, <1>4, <2>1, ExactKept, <1>2, <1>3 DEF Owing, Counted, Evaluated
<1>11. Gathering'
  <2>1. \A x \in Running : hasError(x)'
    <3>1. \A x \in Running : x \in Module /\ ~Evaluated(x) /\ x = m
      BY <1>1 DEF Running, Marks, Evaluated
    <3> QED BY <1>2, <1>4, <3>1
  <2> QED BY <1>1, <1>3, <1>4, <2>1, GatheringKept
<1> QED BY <1>5, <1>6, <1>7, <1>8, <1>9, <1>10, <1>11 DEF Counts

(* A module that completed has nothing left that marks it. *)
LEMMA MarksFulfilled ==
  ASSUME TypeOK, Marks, program' = program, NEW m \in Module, records' = Fulfilled(records, m), Pending(m) = 0,
         suspended' \subseteq suspended, m \notin suspended', List' \subseteq List, Bodies' = {}, Running' = {}
  PROVE  Marks'
<1>1. \A x \in Module :
        /\ records'[x].status = IF x = m THEN "evaluated" ELSE records[x].status
        /\ hasError(x)' = hasError(x)
        /\ records'[x].cycleRoot = records[x].cycleRoot
        /\ records'[x].asyncEvaluation = (x # m /\ records[x].asyncEvaluation)
        /\ Pending(x)' = Pending(x)
        /\ hasTLA(x)' = hasTLA(x) /\ cyclic(x)' = cyclic(x)
  BY FulfilledFacts, ProgramKept DEF SameWaits, hasError
<1>2. SUFFICES ASSUME NEW x \in Module
               PROVE  /\ records'[x].asyncEvaluation => cyclic(x)'
                      /\ records'[x].status = "evaluating-async" => records'[x].asyncEvaluation
                      /\ records'[x].cycleRoot # None /\ Pending(x)' > 0 => records'[x].asyncEvaluation
                      /\ Evaluated(x)' /\ records'[x].asyncEvaluation => hasError(x)'
                      /\ x \in suspended' => hasTLA(x)' /\ records'[x].asyncEvaluation /\ Pending(x)' = 0
                      /\ x \in List' => Pending(x)' = 0 /\ records'[x].cycleRoot # None
  BY DEF Marks
<1>3. CASE x = m
  <2>1. ~records'[x].asyncEvaluation /\ records'[x].status = "evaluated" /\ Pending(x)' = 0 /\ x \notin suspended'
    BY <1>1, <1>3
  <2> QED BY <2>1, <1>1 DEF Marks
<1>4. CASE x # m
  BY <1>1, <1>4 DEF Marks, Evaluated
<1> QED BY <1>3, <1>4

----------------------------------------------------------------------------
(* A body that a completion ran ends. *)
LEMMA ResumedEnds ==
  ASSUME TypeOK, Skeleton, Skeleton', On("body"), Resumed, Shrinks, calls' \in Seq(Call)
  PROVE  /\ Quiet /\ Todo' = Todo /\ List' = List /\ Running' = {} /\ Bodies' = {}
         /\ Running = {Top.m} /\ Bodies = {Top.m} /\ Top.m \in Module
<1>1. PICK f : f = calls[1]
  OBVIOUS
<1> QED BY <1>1, StackSmall, StackNext, QuietSteps, BodyFacts DEF Todo, List, Skeleton, Alone, Shrinks

LEMMA CountsResumedReturns ==
  ASSUME TypeOK, TypeOK', Skeleton, Skeleton', Counts, program' = program, BodyReturns, Resumed
  PROVE  Counts'
<1>1. /\ Rooted /\ Fresh /\ Marks /\ Awaiting /\ Waiters /\ Enough /\ Exact /\ Gathering /\ Shaped
  BY DEF Skeleton, Counts
<1>2. /\ Quiet /\ Todo' = Todo /\ List' = List /\ Running' = {} /\ Bodies' = {}
      /\ Running = {Top.m} /\ Top.m \in Module
  BY ResumedEnds, <1>1, ReturnFacts DEF Typed
<1>3. PICK m \in Module : m = Top.m
  BY <1>2
<1>4. Pending(m) = 0 /\ records[m].status = "evaluating-async" /\ ~hasTLA(m) /\ ~Holding(m) /\ m \notin suspended
  BY <1>1, <1>2, <1>3, ReturnFacts DEF Marks, Holding, Typed
<1>5. \A x \in Module :
        /\ records'[x].status = IF x = m THEN "evaluated" ELSE records[x].status
        /\ hasError(x)' = hasError(x)
        /\ records'[x].cycleRoot = records[x].cycleRoot
        /\ records'[x].asyncEvaluation = (x # m /\ records[x].asyncEvaluation)
        /\ records'[x].asyncParentModules = records[x].asyncParentModules
        /\ Pending(x)' = Pending(x)
        /\ hasTLA(x)' = hasTLA(x)
  BY <1>3, FulfilledFacts, ProgramKept, <1>1, ReturnFacts DEF SameWaits, hasError, Typed
<1>6. Fresh'
  BY <1>1, <1>5, FreshQuiet, <1>2 DEF Quiet
<1>7. Marks'
  BY <1>1, <1>2, <1>3, <1>4, MarksFulfilled, ReturnFacts DEF BodyReturns, history, Typed
<1>8. Awaiting'
  BY <1>1, <1>5, AwaitingKept, <1>2 DEF Quiet
<1>9. Waiters'
  BY <1>1, WaitersKept, <1>2, <1>5, CompletionType DEF Quiet, Evaluated, Waiters
<1>10. Enough'
  BY <1>1, <1>2, <1>5, EnoughKept, <1>4 DEF Holding
<1>11. Exact'
  <2>1. \A x \in Module : Counted(x)' => Counted(x)
    BY <1>5, <1>1, RecordsType DEF Counted, Rooted
  <2> QED BY <1>1, <1>2, <1>5, <2>1, ExactKept, <1>4 DEF BodyReturns, history, Owing, Holding
<1>12. Gathering'
  <2>1. SUFFICES ASSUME ~abandoned', NEW d \in Module, records'[d].cycleRoot # None, records'[d].asyncEvaluation,
                        ~Holding(d)', ~hasError(d)'
                 PROVE  d \in List'
    BY DEF Gathering
  <2>2. d # m /\ records[d].cycleRoot # None /\ records[d].asyncEvaluation /\ ~Holding(d) /\ ~hasError(d)
    BY <1>5, <2>1, <1>4 DEF Holding
  <2> QED BY <1>2, <1>3, <2>2, <1>1, <2>1 DEF Gathering, BodyReturns, history
<1> QED BY <1>6, <1>7, <1>8, <1>9, <1>10, <1>11, <1>12 DEF Counts

LEMMA CountsResumedSuspends ==
  ASSUME TypeOK, TypeOK', Skeleton, Skeleton', Counts, program' = program, BodySuspends, Resumed
  PROVE  Counts'
<1>1. /\ Rooted /\ Fresh /\ Marks /\ Awaiting /\ Waiters /\ Enough /\ Exact /\ Gathering /\ Shaped
  BY DEF Skeleton, Counts
<1>2. On("body") /\ hasTLA(Top.m) /\ Shrinks /\ calls' \in Seq(Call) /\ records' = records
  BY <1>1, SuspendFacts DEF Typed
<1>3. /\ Quiet /\ Todo' = Todo /\ List' = List /\ Running' = {} /\ Bodies' = {}
      /\ Running = {Top.m} /\ Bodies = {Top.m} /\ Top.m \in Module
  BY <1>2, ResumedEnds
<1>4. \A x \in Module :
        /\ records'[x].status = records[x].status
        /\ records'[x].cycleRoot = records[x].cycleRoot
        /\ records'[x].asyncEvaluation = records[x].asyncEvaluation
        /\ records'[x].asyncParentModules = records[x].asyncParentModules
        /\ Pending(x)' = Pending(x)
        /\ hasTLA(x)' = hasTLA(x)
        /\ Holding(x)' = Holding(x)
        /\ hasError(x)' = hasError(x)
        /\ Evaluated(x)' = Evaluated(x)
  BY ProgramKept, <1>2, SameRecords DEF Holding, hasError, Evaluated, SameState, SameAsync, SameWaits
<1>5. Fresh'
  BY <1>1, <1>4, FreshQuiet, <1>3 DEF Quiet
<1>6. Marks'
  BY <1>1, <1>3, <1>4, <1>2, MarksKept, SameRecords DEF BodySuspends, history
<1>7. Awaiting'
  BY <1>1, <1>4, AwaitingKept, <1>3 DEF Quiet
<1>8. Waiters'
  BY <1>1, <1>4, WaitersKept, <1>3, <1>2 DEF Quiet, Waiters
<1>9. Enough'
  BY <1>1, <1>3, <1>4, EnoughKept
<1>10. Exact'
  BY <1>1, <1>3, <1>4, ExactKept, <1>2 DEF BodySuspends, history, Counted, hasError, Owing
<1>11. Gathering'
  BY <1>1, <1>3, <1>4, GatheringKept, <1>2, SameRecords DEF BodySuspends, history, Marks, Holding
<1> QED BY <1>5, <1>6, <1>7, <1>8, <1>9, <1>10, <1>11 DEF Counts

LEMMA CountsResumedThrows ==
  ASSUME TypeOK, TypeOK', Skeleton, Skeleton', Counts, program' = program, BodyThrows, Resumed
  PROVE  Counts'
<1> QED BY CountsRejected, ResumedEnds, ThrowFacts DEF BodyThrows, bodies, history, Typed, Skeleton

LEMMA CountsSettleRejected ==
  ASSUME TypeOK, TypeOK', Skeleton, Skeleton', Counts, program' = program, NEW m \in Module,
         asyncModuleExecutionRejected(m)
  PROVE  Counts'
<1> QED BY CountsRejected, StackNext, StackSmall, QuietSteps, CallsType DEF Size, asyncModuleExecutionRejected,
     history, Skeleton

----------------------------------------------------------------------------
(* A step of a completion that changes no record. *)
LEMMA StillParts ==
  ASSUME TypeOK, TypeOK', Rooted, Counts, program' = program, Quiet, records' = records,
         ~abandoned' => ~abandoned, suspended' \subseteq suspended, List' \subseteq List,
         \A x \in Bodies' : hasTLA(x) => records[x].asyncEvaluation /\ Pending(x) = 0,
         \A x \in Running' : x \in List /\ ~Evaluated(x),
         ~abandoned' => \A x \in List \cup Running : x \in List' \cup Running' \/ hasError(x) \/ ~records[x].asyncEvaluation,
         \A i \in DOMAIN Todo' : records[Todo'[i]].status # "linked"
  PROVE  /\ Fresh' /\ Marks' /\ Awaiting' /\ Waiters' /\ Gathering'
         /\ Par' = Par /\ Held' = Held /\ Owing' = Owing
         /\ \A x \in Module : Pending(x)' = Pending(x) /\ (Counted(x)' <=> Counted(x))
<1>1. \A x \in Module :
        /\ records'[x].status = records[x].status
        /\ records'[x].cycleRoot = records[x].cycleRoot
        /\ records'[x].asyncEvaluation = records[x].asyncEvaluation
        /\ records'[x].asyncParentModules = records[x].asyncParentModules
        /\ Pending(x)' = Pending(x)
        /\ hasTLA(x)' = hasTLA(x)
        /\ Holding(x)' = Holding(x)
        /\ hasError(x)' = hasError(x)
        /\ Evaluated(x)' = Evaluated(x)
  BY ProgramKept, SameRecords DEF Holding, hasError, Evaluated, SameState, SameAsync, SameWaits
<1>2. Marks'
  BY <1>1, MarksKept, SameRecords, CompletionType DEF Bodies, Running, Counts
<1>3. Gathering'
  BY <1>1, GatheringKept, SameRecords, CompletionType DEF Gathering, Counts
<1> QED BY <1>1, <1>2, <1>3, RecordsType, WaitersKept, AwaitingKept, FreshQuiet DEF Par, Held, Owing, Counted,
     Rooted, Quiet, Counts

LEMMA CountsStill ==
  ASSUME TypeOK, TypeOK', Rooted, Counts, program' = program, Quiet, records' = records,
         abandoned' = abandoned, suspended' \subseteq suspended, Todo' = Todo, List' \subseteq List,
         \A x \in Bodies' : hasTLA(x) => records[x].asyncEvaluation /\ Pending(x) = 0,
         \A x \in Running' : x \in List /\ ~Evaluated(x),
         \A x \in List \cup Running : x \in List' \cup Running' \/ hasError(x) \/ ~records[x].asyncEvaluation
  PROVE  Counts'
<1> QED BY StillParts DEF Counts, Exact, Enough, Waiters

(* Those gathered run or are passed over. *)
LEMMA CountsGathered ==
  ASSUME TypeOK, TypeOK', Skeleton, Skeleton', Counts, program' = program,
         ExecuteGathered \/ SkipGathered \/ Completed
  PROVE  Counts'
<1>1. /\ Shaped /\ Rooted /\ Marks
  BY DEF Skeleton, Counts
<1>2. On("completion")
  BY DEF ExecuteGathered, SkipGathered, Completed, Gathered
<1>3. Size = 1 /\ Top = calls[1] /\ ~Idle
  BY <1>1, <1>2, CompletionFacts
<1>4. Todo = Top.todo /\ List = Top.list /\ Running = {} /\ List \subseteq Module
  BY <1>1, <1>2, StackSmall, CompletionType
<1>5. abandoned' = abandoned /\ suspended' = suspended
  BY DEF ExecuteGathered, SkipGathered, Completed, bodies, history
<1>6. \A x \in List : /\ ~Evaluated(x) => records[x].asyncEvaluation /\ Pending(x) = 0
                      /\ Evaluated(x) => hasError(x) \/ ~records[x].asyncEvaluation
  BY <1>1, <1>4 DEF Marks, Rooted, Evaluated
<1>7. CASE ExecuteGathered
  <2>1. /\ Top.todo = <<>> /\ First \in Module /\ ~Evaluated(First) /\ calls' \in Seq(Call)
        /\ Runs(Left, Frame("body", First)) /\ records' = records
        /\ Left.at = "completion" /\ Left.todo = <<>> /\ Left.list = Top.list \ {First} /\ Top.list # {}
    BY <1>1, <1>7, RunGatheredFacts DEF Typed
  <2>2. PICK x \in Module, f \in {Left} : x = First /\ f = Left
    BY <2>1
  <2>3. x \in List
    BY <1>1, <1>2, <1>4, <2>1, <2>2, FirstFacts
  <2>4. Both(f, x)
    BY <1>3, <2>1, <2>2, FrameType DEF Both, Runs
  <2>5. Quiet
    BY <1>2, <2>1, <2>4, QuietSteps
  <2>6. Bodies' = {x} /\ Todo' = f.todo /\ List' = f.list /\ Running' = {x}
    BY <2>1, <2>4, StackNext
  <2> QED BY <1>1, <1>4, <1>5, <1>6, <2>1, <2>2, <2>3, <2>5, <2>6, CountsStill
<1>8. CASE SkipGathered
  <2>1. /\ Top.todo = <<>> /\ First \in Module /\ Evaluated(First) /\ calls' \in Seq(Call)
        /\ Turns(Left) /\ records' = records
        /\ Left.at = "completion" /\ Left.todo = <<>> /\ Left.list = Top.list \ {First} /\ Top.list # {}
    BY <1>1, <1>8, SkipFacts DEF Typed
  <2>2. PICK x \in Module, f \in {Left} : x = First /\ f = Left
    BY <2>1
  <2>3. x \in List
    BY <1>1, <1>2, <1>4, <2>1, <2>2, FirstFacts
  <2>4. Quiet
    BY <1>2, <2>1, QuietSteps, <1>3, <2>2 DEF Alone, Turns
  <2>5. Bodies' = {} /\ Todo' = f.todo /\ List' = f.list /\ Running' = {}
    BY <2>1, StackNext, <1>3, <2>2 DEF Alone, Turns
  <2> QED BY <1>1, <1>4, <1>5, <1>6, <2>1, <2>2, <2>3, <2>4, <2>5, CountsStill
<1>9. CASE Completed
  <2>1. Top.todo = <<>> /\ Top.list = {} /\ Shrinks /\ calls' \in Seq(Call) /\ records' = records
    BY <1>1, <1>9, CompletedFacts DEF Typed
  <2>2. Quiet
    BY <1>2, <2>1, QuietSteps, <1>3 DEF Shrinks
  <2> QED BY <1>1, <1>4, <1>5, <2>1, <2>2, CountsStill, StackNext, <1>3 DEF Shrinks
<1> QED BY <1>7, <1>8, <1>9

----------------------------------------------------------------------------
(* A module that awaited completes: those that wait for it are counted down. *)
LEMMA CountsSettleFulfilled ==
  ASSUME TypeOK, TypeOK', Skeleton, Skeleton', Counts, program' = program, NEW m \in Module,
         asyncModuleExecutionFulfilled(m)
  PROVE  Counts'
<1>1. /\ Rooted /\ Shaped /\ Fresh /\ Marks /\ Awaiting /\ Waiters /\ Enough /\ Exact /\ Gathering /\ Ready
  BY ReadyHolds DEF Skeleton, Counts
<1>2. /\ Idle /\ m \in suspended /\ suspended' = suspended \ {m} /\ calls' \in Seq(Call)
      /\ Evaluated(m) => records' = records /\ calls' = calls
      /\ ~Evaluated(m) =>
           /\ records' = Fulfilled(records, m) /\ Size' = 1
           /\ calls'[1].at = "completion"
           /\ calls'[1].todo = records[m].asyncParentModules /\ calls'[1].list = {}
  BY SettledFacts DEF Typed
<1>3. abandoned' = abandoned
  BY DEF asyncModuleExecutionFulfilled, history
<1>4. CASE Evaluated(m)
  <2>1. Quiet
    BY <1>2, QuietSteps, <1>4, CallsType DEF Size
  <2>2. Todo' = <<>> /\ List' = {} /\ Running' = {} /\ Bodies' = {}
    BY <1>2, StackNext, <1>4, CallsType DEF Size
  <2> QED BY <1>1, <1>2, <1>3, <1>4, <2>1, <2>2, CountsStill, StackSmall
<1>5. CASE ~Evaluated(m)
  <2>1. PICK f : f = calls'[1]
    OBVIOUS
  <2>2. Alone(f) /\ f.todo = records[m].asyncParentModules /\ f.list = {}
    BY <1>2, <1>5, <2>1 DEF Alone
  <2>3. Quiet
    BY <1>2, <2>2, QuietSteps
  <2>4. records[m].status = "evaluating-async" /\ hasTLA(m) /\ records[m].asyncEvaluation /\ Pending(m) = 0
        /\ Holding(m) /\ ~hasError(m)
    BY <1>1, <1>5, <1>2 DEF Holding, Rooted, Marks, Ready
  <2>5. \A x \in Module :
          /\ records'[x].status = IF x = m THEN "evaluated" ELSE records[x].status
          /\ hasError(x)' = hasError(x)
          /\ records'[x].cycleRoot = records[x].cycleRoot
          /\ records'[x].asyncEvaluation = (x # m /\ records[x].asyncEvaluation)
          /\ records'[x].asyncParentModules = records[x].asyncParentModules
          /\ Pending(x)' = Pending(x)
          /\ hasTLA(x)' = hasTLA(x)
    BY <1>2, <1>5, FulfilledFacts, ProgramKept DEF SameWaits, hasError
  <2>6. Fresh'
    BY <1>1, <2>5, FreshQuiet, <2>3 DEF Quiet
  <2>7. Marks'
    BY <1>1, <1>2, <1>5, <2>4, MarksFulfilled, <2>2, StackNext
  <2>8. Awaiting'
    BY <1>1, <2>5, AwaitingKept, <2>3 DEF Quiet
  <2>9. Waiters'
    <3>1. \A i \in DOMAIN Todo' : records'[Todo'[i]].status # "linked"
      <4>1. SUFFICES ASSUME NEW i \in DOMAIN records[m].asyncParentModules
                     PROVE  records'[records[m].asyncParentModules[i]].status # "linked"
        BY <1>2, <2>2, StackNext
      <4>2. PICK p : p = records[m].asyncParentModules[i]
        OBVIOUS
      <4> QED BY <2>5, <4>2, <1>1, ParentsType DEF Waiters, Parents
    <3> QED BY <1>1, <3>1, WaitersKept, <2>3, <2>5 DEF Quiet, Evaluated
  <2>10. /\ Par' = Par /\ Par[m] = Todo'
         /\ Held = Held' \cup {m} /\ m \notin Held' /\ Held' \in SUBSET Module
         /\ Owing = Owing' \cup {m} /\ m \notin Owing' /\ Owing' \in SUBSET Module
    <3>1. Par' = Par /\ Par[m] = Todo'
      BY <2>5, <1>2, <2>2, StackNext DEF Par
    <3> QED BY <3>1, <2>4, <2>5 DEF Owing, Holding, Held
  <2>11. ASSUME NEW p \in Module
         PROVE  /\ Owes(Par, Held, {p}) = Owes(Par', Held', {p}) + Num(Todo', {p})
                /\ Owes(Par, Owing, {p}) = Owes(Par', Owing', {p}) + Num(Todo', {p})
                /\ Num(Todo, {p}) = 0
    <3>1. PICK par \in ParentLists, A \in {{p}} : par = Par /\ A = {p}
      BY ParType
    <3>2. PICK D \in SUBSET Module, E \in SUBSET Module : D = Held' /\ E = Owing'
      BY <2>10
    <3>3. Num(Todo, A) = 0
      BY NumNone, <1>1, <1>2, StackSmall
    <3> QED BY <2>10, <3>1, <3>2, <3>3, OwesInsert, ParType
  <2>12. \A p \in Module : Owes(Par', Held', {p}) \in Nat /\ Owes(Par', Owing', {p}) \in Nat /\ Num(Todo', {p}) \in Nat
    BY <2>10, ParType, OwedFinite, PlacesFinite, RecordsType, <1>2, <2>2, StackNext
  <2>13. Enough'
    <3>1. SUFFICES ASSUME NEW p \in Module
                   PROVE  Pending(p)' >= Owes(Par', Held', {p}) + Num(Todo', {p})
      BY DEF Enough
    <3>2. Pending(p) >= Owes(Par, Held, {p}) + Num(Todo, {p})
      BY <1>1 DEF Enough
    <3> QED BY <2>11, <2>12, <3>2, <2>5, RecordsType
  <2>14. Exact'
    <3>1. SUFFICES ASSUME ~abandoned', NEW p \in Module, Counted(p)'
                   PROVE  Pending(p)' = Owes(Par', Owing', {p}) + Num(Todo', {p})
      BY DEF Exact
    <3>2. Counted(p)
      BY <2>5, <3>1, <1>1, RecordsType DEF Counted, Rooted
    <3> QED BY <2>11, <2>12, <2>5, <1>1, <1>3, <3>1, <3>2 DEF Exact
  <2>15. Gathering'
    BY <1>1, <1>2, StackSmall, <1>3, <2>5 DEF Gathering, Holding
  <2> QED BY <2>6, <2>7, <2>8, <2>9, <2>13, <2>14, <2>15 DEF Counts
<1> QED BY <1>4, <1>5

----------------------------------------------------------------------------
(* The importer that a completion looks at next. *)
LEMMA GatherHead ==
  ASSUME TypeOK, Skeleton, Counts, On("completion"), Top.todo # <<>>
  PROVE  /\ Head(Todo) \in Module /\ Todo = Top.todo /\ List = Top.list /\ Running = {} /\ Bodies = {}
         /\ Todo \in Seq(Module) /\ Tail(Todo) \in Seq(Module) /\ List \in SUBSET Module
         /\ Pending(Head(Todo)) > 0
         /\ \A A : Num(Tail(Todo), A) = Num(Todo, A) - IF Head(Todo) \in A THEN 1 ELSE 0
         /\ \A A : Num(Tail(Todo), A) \in Nat /\ Num(Todo, A) \in Nat
         /\ \A i \in DOMAIN Tail(Todo) : records[Tail(Todo)[i]].status # "linked"
<1>1. PICK t : t = Todo
  OBVIOUS
<1>2. /\ Head(t) \in Module /\ Tail(t) \in Seq(Module) /\ DOMAIN t = 1 .. Len(t)
      /\ \A i \in DOMAIN Tail(t) : i + 1 \in DOMAIN t /\ Tail(t)[i] = t[i + 1]
  BY <1>1, CompletionType, StackSmall DEF Skeleton
<1>3. \A A : Num(Tail(t), A) \in Nat /\ Num(t, A) \in Nat
  BY <1>1, <1>2, PlacesFinite, CompletionType, StackSmall DEF Skeleton
<1> QED BY <1>1, <1>2, <1>3, ReadyHolds, NumTail, CompletionType, StackSmall DEF Ready, Countable, Counts, Waiters,
     Skeleton

LEMMA CountsGatherStops ==
  ASSUME TypeOK, TypeOK', Skeleton, Skeleton', Counts, program' = program, suspended' = suspended,
         On("completion"), Top.todo # <<>>, calls' \in Seq(Call), Shrinks, records' = records, abandoned' = TRUE
  PROVE  Counts'
<1>1. /\ Shaped /\ Rooted /\ Enough
  BY DEF Skeleton, Counts
<1>2. Size' = 0
  BY <1>1, CompletionFacts DEF Shrinks
<1>3. Enough'
  <2>1. SUFFICES ASSUME NEW p \in Module
                 PROVE  Pending(p) >= Owes(Par, Held, {p}) + Num(Todo', {p})
    BY <1>1, StillParts, <1>2, StackNext, QuietSteps DEF Enough
  <2>2. Pending(p) >= Owes(Par, Held, {p}) + Num(Todo, {p})
    BY <1>1 DEF Enough
  <2> QED BY <2>2, CountTypes, NumNone, <1>2, StackNext
<1> QED BY <1>3, <1>1, StillParts, <1>2, StackNext, QuietSteps DEF Counts, Exact

LEMMA CountsGatherSkips ==
  ASSUME TypeOK, TypeOK', Skeleton, Skeleton', Counts, program' = program, suspended' = suspended, abandoned' = abandoned,
         On("completion"), Top.todo # <<>>, calls' \in Seq(Call), NEW f, Alone(f), f.todo = Tail(Todo), f.list = List,
         records' = records, NEW p \in Module, p = Head(Todo),
         p \in List \/ hasError(records[p].cycleRoot)
  PROVE  Counts'
<1>1. /\ Running = {} /\ List \in SUBSET Module
      /\ Pending(p) > 0
      /\ \A A : Num(Tail(Todo), A) = Num(Todo, A) - IF p \in A THEN 1 ELSE 0
      /\ \A A : Num(Tail(Todo), A) \in Nat /\ Num(Todo, A) \in Nat
      /\ \A i \in DOMAIN Tail(Todo) : records[Tail(Todo)[i]].status # "linked"
  BY GatherHead
<1>2. Enough'
  <2>1. SUFFICES ASSUME NEW x \in Module
                 PROVE  Pending(x) >= Owes(Par, Held, {x}) + Num(Tail(Todo), {x})
    BY StackNext, <1>1, StillParts, QuietSteps DEF Enough, Skeleton, Counts
  <2>2. Pending(x) >= Owes(Par, Held, {x}) + Num(Todo, {x})
    BY DEF Enough, Skeleton, Counts
  <2>3. PICK a \in Nat, b \in Nat, c \in Nat :
          a = Owes(Par, Held, {x}) /\ b = Num(Todo, {x}) /\ c = Num(Tail(Todo), {x})
    BY <1>1, CountTypes
  <2>4. c <= b
    BY <1>1, <2>3
  <2>5. Pending(x) \in Nat
    BY CountTypes
  <2> QED BY <2>2, <2>3, <2>4, <2>5
<1>3. Exact'
  <2>1. SUFFICES ASSUME ~abandoned, NEW x \in Module, Counted(x)
                 PROVE  Pending(x) = Owes(Par, Owing, {x}) + Num(Tail(Todo), {x})
    BY StackNext, <1>1, StillParts, QuietSteps DEF Exact, Skeleton, Counts
  <2> QED BY <1>1, CountTypes, <2>1, QuietSteps DEF Exact, Skeleton, Counts, Counted, Quiet, Marks
<1> QED BY <1>2, <1>3, <1>1, StillParts, StackNext, QuietSteps DEF Counts, Skeleton

----------------------------------------------------------------------------
(* A completion counts an importer down; the last time, that importer is *)
(* gathered, and those that wait for it are next unless it has to await. *)
LEMMA NumConcatModules ==
  ASSUME NEW q \in Seq(Module), NEW r \in Seq(Module), NEW A
  PROVE  Num(q \o r, A) = Num(q, A) + Num(r, A)
BY NumConcat

LEMMA CountsGatherCounts ==
  ASSUME TypeOK, TypeOK', Skeleton, Skeleton', Counts, program' = program, suspended' = suspended, abandoned' = abandoned,
         On("completion"), Top.todo # <<>>, calls' \in Seq(Call), NEW f, Alone(f), NEW p \in Module, p = Head(Todo),
         f.todo = IF Pending(p) = 1 THEN Onward(p) \o Tail(Todo) ELSE Tail(Todo),
         f.list = IF Pending(p) = 1 THEN List \cup {p} ELSE List,
         p \notin List, records[p].cycleRoot # None,
         \A x \in Module : /\ Pending(x)' = IF x = p THEN Pending(x) - 1 ELSE Pending(x)
                           /\ records'[x].asyncParentModules = records[x].asyncParentModules,
         SameState, SameAsync, SameIndex
  PROVE  Counts'
<1>1. /\ Shaped /\ Rooted /\ Fresh /\ Marks /\ Awaiting /\ Waiters /\ Enough /\ Exact /\ Gathering
  BY DEF Skeleton, Counts
<1>2. Bodies' = {} /\ Todo' = f.todo /\ List' = f.list /\ Running' = {}
  BY StackNext
<1>3. /\ Running = {} /\ List \in SUBSET Module /\ Todo \in Seq(Module) /\ Tail(Todo) \in Seq(Module)
      /\ Pending(p) > 0
      /\ \A A : Num(Tail(Todo), A) = Num(Todo, A) - IF p \in A THEN 1 ELSE 0
      /\ \A A : Num(Tail(Todo), A) \in Nat /\ Num(Todo, A) \in Nat
      /\ \A i \in DOMAIN Tail(Todo) : records[Tail(Todo)[i]].status # "linked"
  BY GatherHead
<1>4. \A x \in Module :
        /\ records'[x].status = records[x].status
        /\ records'[x].cycleRoot = records[x].cycleRoot
        /\ records'[x].asyncEvaluation = records[x].asyncEvaluation
        /\ Pending(x) \in Nat
        /\ hasTLA(x)' = hasTLA(x) /\ cyclic(x)' = cyclic(x)
        /\ hasError(x)' = hasError(x)
        /\ Evaluated(x)' = Evaluated(x)
  BY ProgramKept, RecordsType DEF hasError, Evaluated, SameState, SameAsync
<1>5. records[p].asyncEvaluation /\ Holding(p)
  BY <1>1, <1>3 DEF Marks, Holding
<1>6. Holding(p)' <=> ~(Pending(p) = 1 /\ ~hasTLA(p))
  <2>1. Pending(p) \in Nat /\ hasTLA(p)' = hasTLA(p) /\ records'[p].asyncEvaluation
    BY <1>4, <1>5
  <2> QED BY <2>1, <1>3 DEF Holding
<1>7. Fresh'
  BY <1>1, <1>4, FreshQuiet, QuietSteps, <1>3 DEF Quiet
<1>8. Marks'
  <2>1. SUFFICES ASSUME NEW x \in Module
                 PROVE  /\ records'[x].asyncEvaluation => cyclic(x)'
                        /\ records'[x].status = "evaluating-async" => records'[x].asyncEvaluation
                        /\ records'[x].cycleRoot # None /\ Pending(x)' > 0 => records'[x].asyncEvaluation
                        /\ Evaluated(x)' /\ records'[x].asyncEvaluation => hasError(x)'
                        /\ x \in suspended' => hasTLA(x)' /\ records'[x].asyncEvaluation /\ Pending(x)' = 0
                        /\ x \in List' => Pending(x)' = 0 /\ records'[x].cycleRoot # None
    BY <1>2 DEF Marks
  <2>2. CASE x = p
    <3>1. records'[x].asyncEvaluation /\ records'[x].cycleRoot # None
      BY <1>4, <1>5, <2>2
    <3>2. x \in List' => Pending(x)' = 0
      BY <2>2, <1>2
    <3> QED BY <3>1, <3>2, <1>1, <1>3, <2>2, <1>4 DEF Marks
  <2> QED BY <2>2, <1>1, <1>4, <1>2 DEF Marks
<1>9. Awaiting'
  BY <1>1, <1>4, AwaitingKept, QuietSteps, <1>3 DEF Quiet
<1>10. Onward(p) \in Seq(Module) /\ \A i \in DOMAIN Onward(p) : records[Onward(p)[i]].status # "linked"
  BY <1>1, RecordsType DEF Onward, Waiters, Parents
<1>11. Waiters'
  <2>1. \A i \in DOMAIN Todo' : records[Todo'[i]].status # "linked" /\ Todo'[i] \in Module
    <3>1. CASE Pending(p) = 1
      <4>1. PICK q \in Seq(Module), r \in Seq(Module) : q = Onward(p) /\ r = Tail(Todo)
        BY <1>3, <1>10
      <4>2. (\A i \in DOMAIN q : records[q[i]].status # "linked") /\ (\A i \in DOMAIN r : records[r[i]].status # "linked")
        BY <1>3, <1>10, <4>1
      <4>3. PICK t : t = q \o r
        OBVIOUS
      <4> QED BY <1>2, <3>1, <4>1, <4>3, <4>2
    <3>2. CASE Pending(p) # 1
      BY <1>2, <1>3, <3>2
    <3> QED BY <3>1, <3>2
  <2> QED BY <1>1, <1>4, WaitersKept, QuietSteps, <2>1 DEF Quiet
<1>12. Par' = Par /\ Par \in ParentLists /\ Par[p] = records[p].asyncParentModules
  BY ParType DEF Par
<1>13. /\ Held' \in SUBSET Module /\ Owing' \in SUBSET Module
       /\ IF Pending(p) = 1 /\ ~hasTLA(p) THEN Held = Held' \cup {p} /\ p \notin Held' ELSE Held = Held'
       /\ IF Pending(p) = 1 /\ ~hasTLA(p) /\ ~hasError(p) THEN Owing = Owing' \cup {p} /\ p \notin Owing' ELSE Owing = Owing'
  <2>1. Held' \in SUBSET Module /\ Owing' \in SUBSET Module
    BY DEF Held, Owing
  <2>2. IF Pending(p) = 1 /\ ~hasTLA(p) THEN Held = Held' \cup {p} /\ p \notin Held' ELSE Held = Held'
    <3>1. PICK C \in SUBSET Module, D \in SUBSET Module : C = Held /\ D = Held'
      BY <2>1 DEF Held
    <3> QED BY <3>1, <1>5, <1>6, <2>1, <1>4 DEF Held, Holding
  <2>3. IF Pending(p) = 1 /\ ~hasTLA(p) /\ ~hasError(p) THEN Owing = Owing' \cup {p} /\ p \notin Owing' ELSE Owing = Owing'
    <3>1. PICK C \in SUBSET Module, D \in SUBSET Module : C = Owing /\ D = Owing'
      BY <2>1 DEF Owing
    <3> QED BY <3>1, <1>5, <1>6, <1>4, <2>1 DEF Owing, Holding
  <2> QED BY <2>1, <2>2, <2>3 \* What those that wait for p gain in the list of the completion.
<1> DEFINE gain(x) == IF Pending(p) = 1 /\ ~hasTLA(p) THEN Num(Par[p], {x}) ELSE 0
<1>14. ASSUME NEW x \in Module
       PROVE  /\ gain(x) \in Nat
              /\ Num(Todo', {x}) = Num(Tail(Todo), {x}) + gain(x)
              /\ Owes(Par, Held, {x}) = Owes(Par', Held', {x}) + gain(x)
              /\ Counted(x) => Owes(Par, Owing, {x}) = Owes(Par', Owing', {x}) + gain(x)
  <2> PICK A : A = {x}
    OBVIOUS
  <2>1. PICK par \in ParentLists : par = Par
    BY <1>12
  <2>2. PICK D \in SUBSET Module, E \in SUBSET Module : D = Held' /\ E = Owing'
    BY <1>13
  <2>3. IsFiniteSet(Module) /\ par[p] \in Seq(Module) /\ par[p] = records[p].asyncParentModules
    BY <1>12, <2>1, ParType, RecordsType
  <2>4. Num(par[p], A) \in Nat
    BY <2>3, PlacesFinite
  <2> PICK rest \in Seq(Module) : rest = Tail(Todo)
    BY <1>3
  <2>5. Owes(par, D, A) \in Nat /\ Owes(par, E, A) \in Nat /\ Num(Tail(Todo), A) \in Nat
    BY <1>3, <2>3, OwedFinite
  <2>6. CASE Pending(p) = 1 /\ ~hasTLA(p)
    <3>1. Todo' = par[p] \o Tail(Todo)
      BY <1>2, <2>3, <2>6 DEF Onward
    <3>2. Num(par[p] \o rest, A) = Num(par[p], A) + Num(rest, A)
      BY <2>3, NumConcatModules
    <3>3. Owes(par, Held, A) = Owes(par, D, A) + Num(par[p], A)
      <4>1. PICK F : F = Held
        OBVIOUS
      <4>2. F = D \cup {p} /\ p \notin D
        BY <1>13, <2>2, <2>6, <4>1
      <4> QED BY <4>1, <2>3, <4>2, OwesInsert
    <3>4. Counted(x) => Owes(par, Owing, A) = Owes(par, E, A) + Num(par[p], A)
      <4>1. CASE ~hasError(p)
        <5>1. PICK F : F = Owing
          OBVIOUS
        <5>2. F = E \cup {p} /\ p \notin E
          BY <1>13, <2>2, <2>6, <4>1, <5>1
        <5> QED BY <5>1, <2>3, <5>2, OwesInsert
      <4>2. CASE hasError(p)
        <5>1. SUFFICES ASSUME Counted(x)
                       PROVE  Owes(par, Owing, A) = Owes(par, E, A) + Num(par[p], A)
          OBVIOUS
        <5>2. x \notin Parents(p)
          BY <1>1, <4>2, <5>1 DEF Waiters, Counted, Evaluated
        <5> QED BY <2>5, <1>13, <2>2, <4>2, NumNone, <2>1, <2>3, <5>2 DEF Parents
      <4> QED BY <4>1, <4>2
    <3>5. gain(x) = Num(par[p], A)
      BY <2>1, <2>6
    <3> QED BY <1>12, <2>1, <2>2, <2>4, <2>5, <3>1, <3>2, <3>3, <3>4, <3>5
  <2>7. CASE ~(Pending(p) = 1 /\ ~hasTLA(p))
    <3>1. Num(Todo', A) = Num(Tail(Todo), A)
      <4>1. CASE Pending(p) = 1
        <5>1. PICK e : e = Onward(p)
          OBVIOUS
        <5>2. e \in Seq(Module) /\ Num(e, A) = 0
          BY NumNone, <2>7, <4>1, <5>1 DEF Onward
        <5>3. Num(e \o rest, A) = Num(e, A) + Num(rest, A)
          BY <5>2, NumConcatModules
        <5> QED BY <1>2, <2>5, <4>1, <5>1, <5>2, <5>3
      <4> QED BY <4>1, <1>2
    <3> QED BY <1>12, <2>1, <2>2, <2>5, <3>1, <2>7, <1>13
  <2> QED BY <2>6, <2>7
<1>15. ASSUME NEW x \in Module
       PROVE  /\ Owes(Par', Held', {x}) \in Nat /\ Owes(Par', Owing', {x}) \in Nat
              /\ Num(Todo, {x}) \in Nat /\ Num(Tail(Todo), {x}) \in Nat
              /\ Num(Tail(Todo), {x}) = Num(Todo, {x}) - IF p = x THEN 1 ELSE 0
              /\ Pending(x)' = Pending(x) - IF p = x THEN 1 ELSE 0
              /\ Pending(x) \in Nat
  <2>1. Owes(Par', Held', {x}) \in Nat /\ Owes(Par', Owing', {x}) \in Nat
    BY <1>12, <1>13, ParType, OwedFinite
  <2>2. Pending(x) \in Nat
    BY RecordsType
  <2> QED BY <2>1, <2>2, <1>3
<1> HIDE DEF gain
<1>16. Enough'
  <2>1. SUFFICES ASSUME NEW x \in Module
                 PROVE  Pending(x)' >= Owes(Par', Held', {x}) + Num(Todo', {x})
    BY DEF Enough
  <2>2. Pending(x) >= Owes(Par, Held, {x}) + Num(Todo, {x})
    BY <1>1 DEF Enough
  <2>3. PICK g \in Nat : /\ Num(Todo', {x}) = Num(Tail(Todo), {x}) + g
                         /\ Owes(Par, Held, {x}) = Owes(Par', Held', {x}) + g
    BY <1>14
  <2> QED BY <2>2, <2>3, <1>15
<1>17. Exact'
  <2>1. SUFFICES ASSUME ~abandoned', NEW x \in Module, Counted(x)'
                 PROVE  Pending(x)' = Owes(Par', Owing', {x}) + Num(Todo', {x})
    BY DEF Exact
  <2>2. Counted(x)
    BY <1>4, <2>1, <1>1, RecordsType DEF Counted, Rooted
  <2>3. Pending(x) = Owes(Par, Owing, {x}) + Num(Todo, {x})
    BY <1>1, <2>1, <2>2 DEF Exact
  <2>4. PICK g \in Nat : /\ Num(Todo', {x}) = Num(Tail(Todo), {x}) + g
                         /\ Owes(Par, Owing, {x}) = Owes(Par', Owing', {x}) + g
    BY <1>14, <2>2
  <2> QED BY <2>3, <2>4, <1>15
<1>18. Gathering'
  <2>1. SUFFICES ASSUME ~abandoned', NEW d \in Module, records'[d].cycleRoot # None, records'[d].asyncEvaluation,
                        ~Holding(d)', ~hasError(d)'
                 PROVE  d \in List'
    BY DEF Gathering
  <2>2. CASE d # p
    <3>1. d \in List \cup Running
      BY <1>1, <1>4, <2>1, <2>2 DEF Gathering, Holding
    <3> QED BY <1>2, <1>3, <3>1
  <2> QED BY <2>2, <1>2, <1>6, <2>1
<1> QED BY <1>7, <1>8, <1>9, <1>11, <1>16, <1>17, <1>18 DEF Counts

----------------------------------------------------------------------------
(* One importer of a completion. *)
LEMMA CountsGather ==
  ASSUME TypeOK, TypeOK', Skeleton, Skeleton', Counts, program' = program, Gather
  PROVE  Counts'
<1>1. /\ Shaped /\ On("completion") /\ Top.todo # <<>> /\ suspended' = suspended
  BY DEF Skeleton, Gather, bodies
<1>2. /\ Head(Todo) \in Module /\ Todo = Top.todo /\ List = Top.list /\ Pending(Head(Todo)) > 0
      /\ Todo \in Seq(Module) /\ Tail(Todo) \in Seq(Module) /\ List \in SUBSET Module
  BY <1>1, GatherHead
<1>3. /\ Size = 1 /\ Top \in Call /\ Top.at = "completion" /\ Typed
  BY <1>1, CompletionFacts, <1>2, GatherFacts
<1> PICK p \in Module : p = Head(Todo)
  BY <1>2
<1> PICK s \in Seq(Module) : s = Tail(Todo)
  BY <1>2
<1> PICK R : R = records[p].cycleRoot
  OBVIOUS
<1>4. PICK t \in Call : t = Top
  BY <1>3
<1>5. CASE /\ p \in List \/ (R \in Module /\ hasError(R))
           /\ Turns([t EXCEPT !.todo = s])
           /\ records' = records /\ abandoned' = abandoned
  <2>1. PICK f : f = [t EXCEPT !.todo = s]
    OBVIOUS
  <2>2. f.at = "completion" /\ f.todo = s /\ f.list = t.list
    BY <1>3, <1>4, <2>1 DEF Call
  <2> QED BY <1>1, <1>4, <1>5, CountsGatherSkips, <1>3, <1>2, <2>2, <2>1 DEF Typed, Turns, Alone
<1>6. CASE /\ p \notin List /\ R \in Module /\ ~hasError(R) /\ abandoned' = abandoned
           /\ Turns([t EXCEPT !.todo = IF Pending(p) = 1 THEN Onward(p) \o s ELSE s,
                              !.list = IF Pending(p) = 1 THEN @ \cup {p} ELSE @])
           /\ \A x \in Module : /\ Pending(x)' = IF x = p THEN Pending(x) - 1 ELSE Pending(x)
                                /\ records'[x].asyncParentModules = records[x].asyncParentModules
           /\ SameState /\ SameIndex /\ SameAsync /\ SameCaps
  <2>1. PICK q : q = IF Pending(p) = 1 THEN Onward(p) \o s ELSE s
    OBVIOUS
  <2>2. PICK f : f = [t EXCEPT !.todo = q, !.list = IF Pending(p) = 1 THEN @ \cup {p} ELSE @]
    OBVIOUS
  <2>3. Alone(f)
    BY <1>3, <1>6, <2>1, <2>2, <1>4 DEF Turns, Alone, Call
  <2>4. /\ f.todo = IF Pending(p) = 1 THEN Onward(p) \o Tail(Todo) ELSE Tail(Todo)
        /\ f.list = IF Pending(p) = 1 THEN List \cup {p} ELSE List
    BY <1>2, <1>4, <2>1, <1>3, <2>2 DEF Call
  <2> QED BY <1>1, <1>4, <1>6, <2>3, <2>4, CountsGatherCounts, <1>3, EsmAssumption DEF Typed
<1> QED BY <1>5, <1>6, <1>1, CountsGatherStops, <1>3, <1>2, <1>4, GatherFacts DEF Typed

(* Every step keeps the counts. *)
LEMMA CountsStep ==
  ASSUME TypeOK, TypeOK', Skeleton, Skeleton', Counts, Next
  PROVE  Counts'
<1>1. program' = program
  BY ProgramStays
<1>2. CASE Runtime
  <2>1. CASE Enter \/ EnterSynthetic \/ Rethrow \/ Depend
    BY <1>1, <2>1, CountsEnter, CountsSynthetic, CountsRethrow, CountsDepend
  <2>2. CASE Execute \/ EvaluateAsync \/ Close \/ Conclude
    BY <1>1, <2>2, CountsExecute, CountsEvaluateAsync, CountsClose, CountsConclude
  <2> QED BY <1>2, <2>1, <2>2, <1>1, CountsGathered, CountsGather DEF Runtime
<1>3. CASE Ends
  BY <1>1, <1>3, CountsBodyEnds, CountsThrows, CountsResumedReturns, CountsResumedSuspends, CountsResumedThrows DEF
     Ends
<1> QED BY <1>2, <1>3, <1>1, CountsSettleFulfilled, CountsSettleRejected, CountsEvaluate DEF Next, Settles

----------------------------------------------------------------------------
(* The inductive invariant. *)
Inv == TypeOK /\ Skeleton /\ Counts

LEMMA InitInv ==
  ASSUME Init
  PROVE  Inv
<1>1. records = [m \in Module |-> Record] /\ calls = <<>> /\ suspended = {} /\ abandoned = FALSE
  BY DEF Init
<1>2. TypeOK
  <2>1. records \in [Module -> RecordType]
    BY <1>1 DEF Record, RecordType
  <2>2. calls \in Seq(Call) /\ started \in Seq(Module)
    BY DEF Init
  <2>3. asked \in 0 .. MaxCalls
    BY EsmAssumption DEF Init
  <2> QED BY <2>1, <2>2, <2>3 DEF TypeOK, Init, RecordType, Call
<1>3. \A x \in Module : /\ records[x].status = "linked" /\ ~hasError(x) /\ records[x].cycleRoot = None
                        /\ ~records[x].asyncEvaluation /\ records[x].asyncParentModules = <<>> /\ Pending(x) = 0
                        /\ ~Evaluated(x)
  BY <1>1 DEF hasError, Pending, Evaluated, Record, RecordType
<1>4. /\ Evaluations = {} /\ Busy = {} /\ Nested = {} /\ Bodies = {} /\ List = {} /\ Running = {} /\ Todo = <<>>
  BY <1>2, StackSmall, <1>1 DEF Evaluations, Shaped, Idle, Size
<1>5. Counts
  <2>1. \A p \in Module : Owes(Par, Held, {p}) = 0 /\ Owes(Par, Owing, {p}) = 0 /\ Num(Todo, {p}) = 0
    <3>1. SUFFICES ASSUME NEW p \in Module
                   PROVE  Owes(Par, Held, {p}) = 0 /\ Owes(Par, Owing, {p}) = 0 /\ Num(Todo, {p}) = 0
      OBVIOUS
    <3>2. PICK D \in SUBSET Module : D = {}
      OBVIOUS
    <3>3. PICK t : t = Todo
      OBVIOUS
    <3> QED BY <3>2, <3>3, NumNone, <1>4, OwesNone, <1>2, ParType, <1>3 DEF Held, Owing, Holding
  <2> QED BY <1>3, <2>1, <1>4, <1>1, <1>2, ParentsType DEF Counts, Gathering, Enough, Exact, Awaiting, Fresh,
       Marks, Waiters
<1> QED BY <1>2, <1>5, <1>1, <1>3, <1>4 DEF Inv, Skeleton, Shaped, Idle, Size, Trees, Tangles, Rooted

LEMMA StutterInv ==
  ASSUME Inv, UNCHANGED vars
  PROVE  Inv'
<1>1. /\ program' = program /\ records' = records /\ calls' = calls /\ tangled' = tangled
      /\ suspended' = suspended /\ abandoned' = abandoned
  BY DEF vars
<1>2. TypeOK /\ Skeleton /\ Counts /\ TypeOK'
  BY DEF Inv, TypeOK, vars
<1>3. /\ Size \in Nat /\ Size' = Size /\ Keeps(Size) /\ calls' \in Seq(Call)
  <2>1. PICK s \in Nat : s = Size
    BY <1>2, CallsType
  <2> QED BY <1>1, <2>1, <1>2, CallsType DEF Keeps, Size
<1>4. /\ Busy' = Busy /\ Bodies' = Bodies /\ Nested' = Nested /\ SameCompletion
      /\ Evaluations' = Evaluations /\ \A k : Members(k)' = Members(k)
  BY <1>1 DEF Busy, Bodies, Nested, SameCompletion, Todo, List, Running, Completing, Evaluations, Members, Size,
     requested, Idle
<1>5. Rooted'
  BY <1>1, <1>2, RootedSame, SameRecords DEF Skeleton
<1>6. Trees'
  BY <1>1, <1>2, <1>3, TreesSame, SameRecords DEF Skeleton
<1>7. Counts'
  BY <1>1, <1>2, <1>4, CountsSame, SameRecords DEF Skeleton
<1> QED BY <1>2, <1>5, <1>6, <1>7, <1>1, <1>3, TanglesQuiet, ShapedShorter DEF Inv, Skeleton

LEMMA InvStep ==
  ASSUME Inv, [Next]_vars
  PROVE  Inv'
<1> QED BY StutterInv, CountsStep, SkeletonStep, ReadyHolds DEF Inv

(* Between jobs a module counts exactly the modules it waits for. *)
LEMMA InvCounts ==
  ASSUME Inv
  PROVE  PendingCounted
<1> SUFFICES ASSUME NEW p \in Module, Idle, ~abandoned, records[p].status = "evaluating-async",
                    ~hasError(records[p].cycleRoot)
             PROVE  Pending(p) =
    Cardinality(UNION {{<<d, i>> : i \in {j \in DOMAIN records[d].asyncParentModules :
                                             records[d].asyncParentModules[j] = p}}
                       : d \in {e \in Module : records[e].asyncEvaluation /\ ~hasError(e)}})
  BY DEF PendingCounted, Pending
<1>1. /\ TypeOK /\ Shaped /\ Rooted /\ Trees /\ Fresh /\ Marks /\ Exact /\ Gathering
  BY DEF Inv, Skeleton, Counts
<1>2. Num(Todo, {p}) = 0
  <2>1. PICK t : t = Todo
    OBVIOUS
  <2> QED BY <2>1, NumNone, <1>1, StackSmall
<1>3. Owing = {e \in Module : records[e].asyncEvaluation /\ ~hasError(e)}
  BY <1>1, StackSmall, RecordsType DEF Owing, Holding, Gathering, Rooted, RecordType, Evaluated, Fresh, Trees,
     Marks
<1>4. UNION {{<<d, i>> : i \in Places(Par[d], {p})} : d \in Owing}
      = UNION {{<<d, i>> : i \in {j \in DOMAIN records[d].asyncParentModules :
                                     records[d].asyncParentModules[j] = p}} : d \in Owing}
  BY <1>1, ParPlaces DEF Places, Owing
<1>5. Owes(Par, Owing, {p}) =
   Cardinality(UNION {{<<d, i>> : i \in {j \in DOMAIN records[d].asyncParentModules :
                                            records[d].asyncParentModules[j] = p}}
                      : d \in {e \in Module : records[e].asyncEvaluation /\ ~hasError(e)}})
  BY <1>3, <1>4, OwedUnion, PlacesNat, <1>1, ParType DEF Owes, Owing, ParentLists
<1> QED BY <1>2, <1>5, <1>1, CountTypes DEF Exact, Counted

(* The inductive invariant holds of every behaviour. *)
LEMMA InvHolds == Spec => []Inv
BY InitInv, InvStep, PTL DEF Spec

(* Every record has its type, and between jobs a module's                    *)
(* pendingAsyncDependencies is the number of modules it waits for that have   *)
(* not completed, for any graphs and any number of imports and requires:      *)
(* innerModuleEvaluation counts up, gatherAvailableAncestors down.            *)
THEOREM RecordsCorrect == Spec => []RecordsSound
<1> QED BY InvHolds, PTL, InvCounts DEF Inv, RecordsSound

=============================================================================
