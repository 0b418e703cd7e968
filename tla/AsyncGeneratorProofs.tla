------------------------ MODULE AsyncGeneratorProofs ------------------------
(* Theorems about AsyncGenerator, for every value of its constants. *)
EXTENDS AsyncGenerator, FiniteSetTheorems, TLAPS

----------------------------------------------------------------------------
(* The inductive invariant.  Requests are answered from the front: the      *)
(* answered ones come first, then the one in flight, then the queue, whose  *)
(* sids are consecutive; and the stack says who holds the one in flight.    *)

Current == Len(steps) - Len(queue)
Base == IF running THEN Current - 1 ELSE Current

Answers ==
  /\ Base \in Nat
  /\ \A i \in 1 .. Len(steps) : steps[i] = "pending" <=> Base < i
Consecutive == \A i \in 1 .. Len(queue) : queue[i].sid = Current + i
Holder ==
  /\ control.at = "body" => running /\ control = InBody(Current) /\ jobs = {}
  /\ control.at = "pump" => ~running /\ control = Pumping /\ jobs = {}
  /\ control.at = "js" => control = JS
  /\ control.at = "js" /\ running => \E j \in Job : jobs = {j} /\ j.sid = Current
  /\ control.at = "js" /\ ~running => jobs = {} /\ queue = <<>>
Coroutine ==
  /\ body = "executing" <=> control.at = "body"
  /\ body = "await" <=> \E j \in jobs : j.kind = "await"
  /\ \A j \in jobs : j.kind = "yield" => body = "yield"
Over == (\E i \in 1 .. Len(steps) : steps[i] = "done") => body = "done"

IInv == TypeOK /\ Answers /\ Consecutive /\ Holder /\ Coroutine /\ Over

----------------------------------------------------------------------------
(* Sequences and records. *)

Outcome == {"pending", "value", "done", "rejected"}

LEMMA Appended ==
  ASSUME NEW S, NEW s \in Seq(S), NEW x \in S
  PROVE  /\ Append(s, x) \in Seq(S) /\ Len(Append(s, x)) = Len(s) + 1 /\ Len(s) \in Nat
         /\ \A i \in 1 .. Len(s) : Append(s, x)[i] = s[i]
         /\ Append(s, x)[Len(s) + 1] = x
  OBVIOUS

LEMMA Tailed ==
  ASSUME NEW S, NEW s \in Seq(S), s # <<>>
  PROVE  /\ Head(s) \in S /\ Tail(s) \in Seq(S) /\ Len(s) \in Nat \ {0}
         /\ Len(Tail(s)) = Len(s) - 1 /\ Head(s) = s[1]
         /\ \A i \in 1 .. Len(s) - 1 : Tail(s)[i] = s[i + 1]
  OBVIOUS

LEMMA Updated ==
  ASSUME NEW S, NEW s \in Seq(S), NEW k \in 1 .. Len(s), NEW x \in S
  PROVE  /\ [s EXCEPT ![k] = x] \in Seq(S) /\ Len([s EXCEPT ![k] = x]) = Len(s)
         /\ [s EXCEPT ![k] = x][k] = x
         /\ \A i \in 1 .. Len(s) : i # k => [s EXCEPT ![k] = x][i] = s[i]
  OBVIOUS

LEMMA ControlFields ==
  /\ JS \in Control /\ JS.at = "js" /\ Pumping \in Control /\ Pumping.at = "pump"
  /\ \A n \in Nat : InBody(n) \in Control /\ InBody(n).at = "body" /\ InBody(n).sid = n
  BY DEF JS, Pumping, InBody, Control

LEMMA JobFields ==
  ASSUME NEW x \in Operand, NEW n \in Nat
  PROVE  /\ Return(x, n) \in Job /\ Return(x, n).sid = n /\ Return(x, n).kind = "return"
         /\ \A k \in {"await", "yield"} :
              /\ Continue(k, x, n) \in Job
              /\ Continue(k, x, n).sid = n /\ Continue(k, x, n).kind = k
  BY DEF Return, Continue, Job, Operand

----------------------------------------------------------------------------
(* What every action that drives a request has in common: sid is the oldest *)
(* one not answered, and the queue holds the ones after it.                 *)

Serves(sid) ==
  /\ sid \in 1 .. Len(steps) /\ sid = Base + 1
  /\ queue' \in Seq(Request) /\ Len(queue') = Len(steps) - sid
  /\ \A i \in 1 .. Len(queue') : queue'[i].sid = sid + i

LEMMA ServesCurrent ==
  ASSUME IInv, running, UNCHANGED queue
  PROVE  Serves(Current)
  BY DEF IInv, TypeOK, Answers, Consecutive, Base, Current, Serves

LEMMA ServesHead ==
  ASSUME IInv, ~running, queue # <<>>, queue' = Tail(queue)
  PROVE  Serves(Head(queue).sid) /\ Head(queue) \in Request
<1>1. /\ Head(queue) \in Request /\ Tail(queue) \in Seq(Request)
      /\ Len(queue) \in Nat \ {0} /\ Len(Tail(queue)) = Len(queue) - 1
      /\ Head(queue) = queue[1]
      /\ \A i \in 1 .. Len(queue) - 1 : Tail(queue)[i] = queue[i + 1]
  BY Tailed DEF IInv, TypeOK
<1>2. Len(steps) \in Nat /\ Base = Len(steps) - Len(queue) /\ Base \in Nat /\ Current = Base
  BY DEF IInv, TypeOK, Answers, Base, Current
<1>3. \A i \in 1 .. Len(queue) : queue[i].sid = Base + i
  BY <1>2 DEF IInv, Consecutive
<1>4. Head(queue).sid = Base + 1
  BY <1>1, <1>3
<1>5. \A i \in 1 .. Len(queue') : queue'[i].sid = Base + 1 + i
  BY <1>1, <1>2, <1>3
<1> QED BY <1>1, <1>2, <1>4, <1>5 DEF Serves

(* Finish: the request is answered, and the queue is pumped. *)

LEMMA FinishStep ==
  ASSUME IInv, NEW sid, Serves(sid), NEW outcome \in Outcome \ {"pending"},
         Finish(sid, outcome), jobs' = {}, UNCHANGED promises,
         body' \in {"start", "yield", "done"},
         body = "done" => body' = "done",
         outcome = "done" => body' = "done"
  PROVE  IInv'
<1>1. /\ sid \in 1 .. Len(steps) /\ sid \in Nat /\ Len(steps) \in Nat /\ Base = sid - 1
      /\ steps[sid] = "pending"
      /\ \A i \in 1 .. Len(steps) : steps[i] = "pending" <=> sid - 1 < i
  BY DEF IInv, TypeOK, Answers, Serves
<1>2. steps' = [steps EXCEPT ![sid] = outcome]
  BY <1>1 DEF Finish
<1>3. /\ steps' \in Seq(Outcome) /\ Len(steps') = Len(steps)
      /\ steps'[sid] = outcome
      /\ \A i \in 1 .. Len(steps) : i # sid => steps'[i] = steps[i]
  BY <1>1, <1>2, Updated DEF IInv, TypeOK, Outcome
<1>4. running' = FALSE /\ control' = Pumping /\ control'.at = "pump"
  BY ControlFields DEF Finish
<1>5. TypeOK'
  BY <1>3, <1>4, ControlFields DEF IInv, TypeOK, Outcome, Serves
<1>6. Current' = sid /\ Base' = sid
  <2>1. Len(queue') = Len(steps) - sid
    BY DEF Serves
  <2>2. Current' = sid
    BY <1>1, <1>3, <2>1 DEF Current
  <2> QED BY <1>4, <2>2 DEF Base
<1>7. Answers'
  <2>1. \A i \in 1 .. Len(steps) : steps'[i] = "pending" <=> sid < i
    BY <1>1, <1>3
  <2> QED BY <1>1, <1>3, <1>6, <2>1 DEF Answers
<1>8. Consecutive'
  BY <1>6 DEF Consecutive, Serves
<1>9. Holder'
  BY <1>4 DEF Holder
<1>10. Coroutine'
  BY <1>4 DEF Coroutine
<1>11. Over'
  BY <1>1, <1>3 DEF IInv, Over, Outcome
<1> QED BY <1>5, <1>7, <1>8, <1>9, <1>10, <1>11 DEF IInv

(* Resume: the request is answered at once or the body runs for it. *)

LEMMA ResumeStep ==
  ASSUME IInv, NEW sid, Serves(sid), NEW kind \in Kind,
         Resume(kind, sid), jobs' = {}, UNCHANGED promises
  PROVE  IInv'
<1>1. CASE NoBody(kind)
  <2>1. body' = "done" /\ Finish(sid, IF kind = "throw" THEN "rejected" ELSE "done")
    BY <1>1 DEF Resume
  <2> QED BY <2>1, FinishStep DEF Outcome
<1>2. CASE ~NoBody(kind)
  <2>1. /\ body' = "executing" /\ running' = TRUE /\ control' = InBody(sid) /\ steps' = steps
        /\ body # "done"
    BY <1>2 DEF Resume, NoBody
  <2>2. /\ sid \in 1 .. Len(steps) /\ sid \in Nat /\ Len(steps) \in Nat /\ Base = sid - 1
    BY DEF IInv, TypeOK, Answers, Serves
  <2>3. control'.at = "body" /\ control' \in Control
    BY <2>1, <2>2, ControlFields
  <2>4. TypeOK'
    BY <2>1, <2>3 DEF IInv, TypeOK, Serves
  <2>5. Current' = sid /\ Base' = sid - 1
    <3>1. Len(queue') = Len(steps) - sid
      BY DEF Serves
    <3>2. Current' = sid
      BY <2>1, <2>2, <3>1 DEF Current
    <3> QED BY <2>1, <3>2 DEF Base
  <2>6. Answers' /\ Consecutive'
    BY <2>1, <2>2, <2>5 DEF IInv, Answers, Consecutive, Serves
  <2>7. Holder' /\ Coroutine' /\ Over'
    BY <2>1, <2>3, <2>5 DEF IInv, Holder, Coroutine, Over
  <2> QED BY <2>4, <2>6, <2>7 DEF IInv
<1> QED BY <1>1, <1>2

----------------------------------------------------------------------------
(* The actions. *)

LEMMA Initially == Init => IInv
<1> SUFFICES ASSUME Init PROVE IInv
  OBVIOUS
<1>1. Len(steps) = 0 /\ Len(queue) = 0 /\ Base = 0
  BY DEF Init, Base, Current
<1>2. TypeOK
  <2>1. promises \in [External -> {"pending", "fulfilled", "rejected"}]
    BY DEF Init
  <2>2. steps \in Seq(Outcome) /\ queue \in Seq(Request)
    BY DEF Init
  <2> QED BY <2>1, <2>2, ControlFields DEF Init, TypeOK, Outcome
<1> QED BY <1>1, <1>2, ControlFields
      DEF Init, IInv, Answers, Consecutive, Holder, Coroutine, Over

LEMMA EnqueueStep ==
  ASSUME IInv, NEW kind \in Kind, NEW x \in Operand, Enqueue(kind, x)
  PROVE  IInv'
<1> DEFINE r == [kind |-> kind, value |-> x, sid |-> Len(steps) + 1]
<1>1. Len(steps) \in Nat /\ Len(queue) \in Nat /\ r \in Request
  BY DEF IInv, TypeOK, Request
<1>2. steps' = Append(steps, "pending") /\ queue' = Append(queue, r)
  BY DEF Enqueue
<1>3. /\ steps' \in Seq(Outcome) /\ Len(steps') = Len(steps) + 1
      /\ \A i \in 1 .. Len(steps) : steps'[i] = steps[i]
      /\ steps'[Len(steps) + 1] = "pending"
  BY <1>2, Appended DEF IInv, TypeOK, Outcome
<1>4. /\ queue' \in Seq(Request) /\ Len(queue') = Len(queue) + 1
      /\ \A i \in 1 .. Len(queue) : queue'[i] = queue[i]
      /\ queue'[Len(queue) + 1] = r
  <2> HIDE DEF r
  <2> QED BY <1>1, <1>2, Appended DEF IInv, TypeOK
<1>5. control' = (IF running THEN control ELSE Pumping)
      /\ UNCHANGED <<promises, running, body, jobs>> /\ control.at \in {"js", "body"}
  BY DEF Enqueue
<1>6. TypeOK'
  BY <1>3, <1>4, <1>5, ControlFields DEF IInv, TypeOK, Outcome
<1>7. Current' = Current
  BY <1>1, <1>3, <1>4 DEF Current
<1>8. Base' = Base
  BY <1>5, <1>7 DEF Base
<1>9. Answers'
  <2>1. Base \in Nat /\ Base <= Len(steps)
    BY <1>1 DEF IInv, TypeOK, Answers, Base, Current
  <2>2. \A i \in 1 .. Len(steps) : steps'[i] = "pending" <=> Base < i
    BY <1>3 DEF IInv, Answers
  <2> QED BY <1>1, <1>3, <1>8, <2>1, <2>2 DEF Answers
<1>10. Consecutive'
  <2>1. \A i \in 1 .. Len(queue) : queue'[i].sid = Current + i
    BY <1>4 DEF IInv, Consecutive
  <2>2. queue'[Len(queue) + 1].sid = Current + (Len(queue) + 1)
    BY <1>1, <1>4 DEF Current
  <2> QED BY <1>1, <1>4, <1>7, <2>1, <2>2 DEF Consecutive
<1>11. Holder'
  BY <1>5, <1>7, ControlFields DEF IInv, Holder
<1>12. Coroutine'
  BY <1>5, ControlFields DEF IInv, Holder, Coroutine
<1>13. Over'
  BY <1>1, <1>3, <1>5 DEF IInv, Over
<1> QED BY <1>6, <1>9, <1>10, <1>11, <1>12, <1>13 DEF IInv

LEMMA SettlePromiseStep ==
  ASSUME IInv, NEW p \in External, NEW state \in {"fulfilled", "rejected"},
         SettlePromise(p, state)
  PROVE  IInv'
<1>1. TypeOK'
  BY DEF SettlePromise, IInv, TypeOK
<1> QED BY <1>1 DEF SettlePromise, IInv, Answers, Consecutive, Holder, Coroutine, Over, Base, Current

LEMMA PumpEmptyStep == ASSUME IInv, PumpEmpty PROVE IInv'
<1>1. control' = JS /\ control.at = "pump" /\ queue = <<>>
      /\ UNCHANGED <<promises, steps, queue, running, body, jobs>>
  BY DEF PumpEmpty
<1>2. TypeOK'
  BY <1>1, ControlFields DEF IInv, TypeOK
<1>3. Holder'
  BY <1>1, ControlFields DEF IInv, Holder
<1>4. Coroutine'
  BY <1>1, ControlFields DEF IInv, Coroutine
<1> QED BY <1>1, <1>2, <1>3, <1>4 DEF IInv, Answers, Consecutive, Over, Base, Current

LEMMA StartStep == ASSUME IInv, Start PROVE IInv'
<1>1. ~running /\ jobs' = {} /\ queue # <<>> /\ queue' = Tail(queue) /\ UNCHANGED promises
  BY DEF Start, IInv, Holder
<1>2. Serves(Head(queue).sid) /\ Head(queue).kind \in Kind
  BY <1>1, ServesHead DEF Request
<1>3. Resume(Head(queue).kind, Head(queue).sid)
  BY DEF Start
<1> QED BY <1>1, <1>2, <1>3, ResumeStep

(* A job is left behind for the request in flight. *)
LEMMA LeaveStep ==
  ASSUME IInv, NEW sid, Serves(sid), NEW j \in Job, j.sid = sid,
         jobs' = {j}, running' = TRUE, control' = JS,
         UNCHANGED <<promises, steps>>,
         body' \in {"start", "yield", "await", "done"},
         body' = "await" <=> j.kind = "await",
         j.kind = "yield" => body' = "yield",
         body = "done" => body' = "done"
  PROVE  IInv'
<1>1. sid \in 1 .. Len(steps) /\ sid \in Nat /\ Len(steps) \in Nat /\ Base = sid - 1
  BY DEF IInv, TypeOK, Answers, Serves
<1>2. TypeOK'
  BY ControlFields DEF IInv, TypeOK, Serves
<1>3. Current' = sid /\ Base' = sid - 1
  <2>1. Len(queue') = Len(steps) - sid
    BY DEF Serves
  <2>2. Current' = sid
    BY <1>1, <2>1 DEF Current
  <2> QED BY <2>2 DEF Base
<1>4. Answers' /\ Consecutive'
  BY <1>1, <1>3 DEF IInv, Answers, Consecutive, Serves
<1>5. Holder' /\ Coroutine' /\ Over'
  BY <1>3, ControlFields DEF IInv, Holder, Coroutine, Over
<1> QED BY <1>2, <1>4, <1>5 DEF IInv

LEMMA StartReturnStep == ASSUME IInv, StartReturn PROVE IInv'
<1>1. ~running /\ jobs = {} /\ queue # <<>> /\ queue' = Tail(queue)
      /\ UNCHANGED <<promises, steps, body>> /\ running' = TRUE /\ control' = JS
  BY DEF StartReturn, IInv, Holder
<1>2. Serves(Head(queue).sid) /\ Head(queue) \in Request
  BY <1>1, ServesHead
<1> DEFINE j == Return(Head(queue).value, Head(queue).sid)
<1>3. jobs' = {j}
  BY <1>1 DEF StartReturn
<1>4. j \in Job /\ j.sid = Head(queue).sid /\ j.kind = "return"
  BY <1>2, JobFields DEF Request
<1>5. body \in {"start", "yield", "done"}
  BY <1>1 DEF StartReturn, IInv, TypeOK, Coroutine
<1> HIDE DEF j
<1> QED BY <1>1, <1>2, <1>3, <1>4, <1>5, LeaveStep

LEMMA SuspendStep ==
  ASSUME IInv, NEW kind \in {"await", "yield"}, NEW x \in Operand, Suspend(kind, x)
  PROVE  IInv'
<1>1. running /\ jobs = {} /\ control = InBody(Current) /\ UNCHANGED <<promises, steps, queue>>
      /\ control' = JS /\ running' = TRUE /\ body' = kind /\ body = "executing"
  BY DEF Suspend, IInv, TypeOK, Holder, Coroutine
<1>2. Serves(Current)
  BY <1>1, ServesCurrent
<1>3. Current \in Nat
  BY <1>2 DEF Serves, IInv, TypeOK
<1> DEFINE j == Continue(kind, x, Current)
<1>4. control.sid = Current
  BY <1>1, <1>3, ControlFields
<1>5. jobs' = {j}
  BY <1>1, <1>4 DEF Suspend
<1>6. j \in Job /\ j.sid = Current /\ j.kind = kind
  BY <1>3, JobFields
<1> HIDE DEF j
<1> QED BY <1>1, <1>2, <1>5, <1>6, LeaveStep

LEMMA BodyEndsStep ==
  ASSUME IInv, NEW outcome \in {"done", "rejected"}, BodyEnds(outcome)
  PROVE  IInv'
<1>1. running /\ jobs' = {} /\ control = InBody(Current) /\ UNCHANGED <<promises, queue>>
      /\ body' = "done"
  BY DEF BodyEnds, IInv, Holder
<1>2. Serves(Current)
  BY <1>1, ServesCurrent
<1>3. Finish(Current, outcome)
  <2>1. Current \in Nat
    BY <1>2 DEF Serves, IInv, TypeOK
  <2> QED BY <1>1, <2>1, ControlFields DEF BodyEnds
<1> QED BY <1>1, <1>2, <1>3, FinishStep DEF Outcome

(* The one job is taken. *)
LEMMA TakeStep ==
  ASSUME IInv, NEW j \in jobs, NEW kind, Take(j, kind)
  PROVE  /\ j \in Job /\ jobs = {j} /\ j.sid = Current /\ jobs' = {} /\ running
         /\ Serves(Current) /\ UNCHANGED promises /\ j.kind = kind
<1>1. control.at = "js" /\ jobs' = jobs \ {j} /\ UNCHANGED <<promises, queue>> /\ j.kind = kind
  BY DEF Take
<1>2. running /\ \E k \in Job : jobs = {k} /\ k.sid = Current
  BY <1>1 DEF IInv, TypeOK, Holder
<1>3. Serves(Current)
  BY <1>1, <1>2, ServesCurrent
<1> QED BY <1>1, <1>2, <1>3

LEMMA RunStep ==
  ASSUME IInv, RunReturn \/ RunAwait \/ RunYield
  PROVE  IInv'
<1>1. CASE RunReturn
  <2>1. PICK j \in jobs : Take(j, "return") /\ Resume("return", j.sid)
    BY <1>1 DEF RunReturn
  <2> QED BY <2>1, TakeStep, ResumeStep DEF Kind
<1>2. CASE RunAwait
  <2>1. PICK j \in jobs : Take(j, "await") /\ Resume("next", j.sid)
    BY <1>2 DEF RunAwait
  <2> QED BY <2>1, TakeStep, ResumeStep DEF Kind
<1>3. CASE RunYield
  <2>1. PICK j \in jobs :
          /\ Take(j, "yield")
          /\ Finish(j.sid, IF Fulfilled(j.on) THEN "value" ELSE "rejected")
          /\ UNCHANGED body
    BY <1>3 DEF RunYield
  <2>2. jobs = {j} /\ j.sid = Current /\ jobs' = {} /\ Serves(Current) /\ UNCHANGED promises
        /\ j.kind = "yield"
    BY <2>1, TakeStep
  <2>3. body = "yield"
    BY <2>2 DEF IInv, Coroutine
  <2> QED BY <2>1, <2>2, <2>3, FinishStep DEF Outcome
<1> QED BY <1>1, <1>2, <1>3

LEMMA Inductive == IInv /\ [Next]_vars => IInv'
<1> SUFFICES ASSUME IInv, [Next]_vars PROVE IInv'
  OBVIOUS
<1>1. CASE UNCHANGED vars
  BY <1>1 DEF vars, IInv, TypeOK, Answers, Consecutive, Holder, Coroutine, Over, Base, Current
<1>2. CASE Enqueue("next", Plain) \/ Enqueue("throw", Plain)
  BY <1>2, EnqueueStep DEF Kind, Operand
<1>3. CASE \E x \in Operand : Enqueue("return", x)
  BY <1>3, EnqueueStep DEF Kind
<1>4. CASE \E p \in External, s \in {"fulfilled", "rejected"} : SettlePromise(p, s)
  BY <1>4, SettlePromiseStep
<1>5. CASE \E x \in Operand : BodyAwaits(x) \/ BodyYields(x)
  BY <1>5, SuspendStep DEF BodyAwaits, BodyYields
<1>6. CASE \E o \in {"done", "rejected"} : BodyEnds(o)
  BY <1>6, BodyEndsStep
<1>7. CASE PumpEmpty \/ StartReturn \/ Start
  BY <1>7, PumpEmptyStep, StartReturnStep, StartStep
<1>8. CASE RunReturn \/ RunAwait \/ RunYield
  BY <1>8, RunStep
<1> QED BY <1>1, <1>2, <1>3, <1>4, <1>5, <1>6, <1>7, <1>8 DEF Next, Ends, Loop

LEMMA Invariant == Spec => []IInv
<1> QED BY Initially, Inductive, PTL DEF Spec

----------------------------------------------------------------------------
(* Every reachable state is type correct. *)
THEOREM TypeCorrect == Spec => []TypeOK
<1>1. IInv => TypeOK
  BY DEF IInv
<1> QED BY <1>1, Invariant, PTL

(* However next, return and throw are called, from inside the body too, the *)
(* requests are answered in the order they were made.                       *)
THEOREM SettleInOrderCorrect == Spec => []SettleInOrder
<1>1. IInv => SettleInOrder
  <2> SUFFICES ASSUME IInv, NEW i \in DOMAIN steps, NEW j \in DOMAIN steps, i < j,
                      steps[j] # "pending"
               PROVE  steps[i] # "pending"
    BY DEF SettleInOrder
  <2>1. DOMAIN steps = 1 .. Len(steps) /\ Base \in Nat
    BY DEF IInv, TypeOK, Answers
  <2> QED BY <2>1 DEF IInv, Answers
<1> QED BY <1>1, Invariant, PTL

(* One request drives the body at a time, and each unanswered one is queued or *)
(* in flight: none is forgotten, and none is in both places.                   *)
THEOREM OneInFlightCorrect == Spec => []OneInFlight
<1>1. IInv => OneInFlight
  <2> SUFFICES ASSUME IInv PROVE OneInFlight
    OBVIOUS
  <2>1. InFlight = IF running THEN {Current} ELSE {}
    <3>1. CASE control.at = "body"
      <4>1. running /\ control = InBody(Current) /\ jobs = {}
        BY <3>1 DEF IInv, Holder
      <4>2. control.sid = Current
        BY <4>1 DEF InBody
      <4> QED BY <3>1, <4>1, <4>2 DEF InFlight
    <3>2. CASE control.at = "pump"
      BY <3>2 DEF IInv, Holder, InFlight
    <3>3. CASE control.at = "js"
      BY <3>3 DEF IInv, Holder, InFlight
    <3> QED BY <3>1, <3>2, <3>3 DEF IInv, TypeOK, Control
  <2>2. Cardinality(InFlight) <= 1
    <3>1. Cardinality({}) = 0 /\ Cardinality({Current}) = 1
      BY FS_EmptySet, FS_Singleton
    <3> QED BY <2>1, <3>1
  <2>3. running \in BOOLEAN /\ Len(steps) \in Nat /\ Len(queue) \in Nat /\ Base \in Nat
        /\ DOMAIN steps = 1 .. Len(steps) /\ DOMAIN queue = 1 .. Len(queue)
    BY DEF IInv, TypeOK, Answers
  <2>4. Queued = Current + 1 .. Len(steps)
    <3>1. \A i \in 1 .. Len(queue) : queue[i].sid = Current + i
      BY DEF IInv, Consecutive
    <3>2. Current \in Int /\ Len(steps) = Current + Len(queue)
      BY <2>3 DEF Current
    <3>3. Queued \subseteq Current + 1 .. Len(steps)
      BY <2>3, <3>1, <3>2 DEF Queued
    <3>4. ASSUME NEW n \in Current + 1 .. Len(steps) PROVE n \in Queued
      <4>1. n - Current \in 1 .. Len(queue) /\ queue[n - Current].sid = n
        BY <2>3, <3>1, <3>2
      <4> QED BY <2>3, <4>1 DEF Queued
    <3> QED BY <3>3, <3>4
  <2>5. {i \in DOMAIN steps : steps[i] = "pending"} = Base + 1 .. Len(steps)
    BY <2>3 DEF IInv, Answers
  <2>6. Base + 1 .. Len(steps) = (Current + 1 .. Len(steps)) \cup InFlight
        /\ (Current + 1 .. Len(steps)) \cap InFlight = {}
    BY <2>1, <2>3 DEF Base, Current
  <2>7. control.at = "js" /\ ~running => queue = <<>>
    BY DEF IInv, Holder
  <2> QED BY <2>1, <2>2, <2>3, <2>4, <2>5, <2>6, <2>7 DEF OneInFlight
<1> QED BY <1>1, Invariant, PTL

(* A body suspended in an await is resumed by the continuation of that await and *)
(* by no request; while it executes, nothing resumes it.                         *)
THEOREM AwaitsAreInternalCorrect == Spec => AwaitsAreInternal
<1> DEFINE Resumed == body \in {"await", "executing"} /\ control.at # "body" /\ control.at' = "body"
<1>1. IInv /\ [Next]_vars => [Resumed => ResumedByAwait]_vars
  <2> SUFFICES ASSUME IInv, Next, Resumed PROVE ResumedByAwait
    OBVIOUS
  <2>1. body = "await" /\ running /\ control.at = "js"
    BY DEF IInv, TypeOK, Control, Coroutine, Holder
  <2>2. PICK k \in jobs : k.kind = "await"
    BY <2>1 DEF IInv, Coroutine
  <2>3. jobs = {k}
    BY <2>1, <2>2 DEF IInv, Holder
  <2>4. ~Enqueue("next", Plain) /\ ~Enqueue("throw", Plain) /\ ~(\E x \in Operand : Enqueue("return", x))
    BY <2>1 DEF Enqueue
  <2>5. ~(\E p \in External, s \in {"fulfilled", "rejected"} : SettlePromise(p, s))
    BY <2>1 DEF SettlePromise
  <2>6. RunAwait
    BY <2>1, <2>2, <2>3, <2>4, <2>5
       DEF Next, Ends, Loop, BodyAwaits, BodyYields, Suspend, BodyEnds, PumpEmpty, StartReturn,
           Start, RunReturn, RunYield, Take
  <2>7. PICK j \in jobs : Take(j, "await") /\ Resume("next", j.sid)
    BY <2>6 DEF RunAwait
  <2>8. control' = InBody(j.sid)
    <3>1. ~Finish(j.sid, "done")
      BY ControlFields DEF Finish
    <3> QED BY <2>7, <3>1 DEF Resume
  <2>9. j \in jobs \ jobs' /\ j.kind = "await"
    BY <2>7 DEF Take
  <2> QED BY <2>1, <2>8, <2>9 DEF ResumedByAwait
<1> QED BY <1>1, Invariant, PTL DEF AwaitsAreInternal, Spec

----------------------------------------------------------------------------
(* The contract.  The answered prefix of steps is as long as Base says. *)

LEMMA PrefixIsBase == IInv => Prefix = Base
<1> SUFFICES ASSUME IInv PROVE Prefix = Base
  OBVIOUS
<1>1. Base \in Nat /\ Len(steps) \in Nat /\ Base <= Len(steps)
  BY DEF IInv, TypeOK, Answers, Base, Current
<1>2. \A i \in 1 .. Len(steps) : steps[i] # "pending" <=> i <= Base
  BY <1>1 DEF IInv, Answers
<1>3. Answered = 0 .. Base
  BY <1>1, <1>2 DEF Answered
<1>4. \A k \in Answered : k + 1 \notin Answered <=> k = Base
  BY <1>1, <1>3
<1>5. Base \in Answered
  BY <1>1, <1>3
<1> QED BY <1>4, <1>5 DEF Prefix

LEMMA PrefixIsBaseNext == IInv' => (Prefix = Base)'
<1> QED BY PrefixIsBase, PTL

Given == [i \in 1 .. Prefix |-> steps[i]]

LEMMA AskStep ==
  ASSUME IInv, IInv', NEW kind \in Kind, NEW x \in Operand, Enqueue(kind, x)
  PROVE  Contract!Ask
<1>1. /\ Len(steps') = Len(steps) + 1 /\ Len(queue') = Len(queue) + 1 /\ running' = running
      /\ \A i \in 1 .. Len(steps) : steps'[i] = steps[i]
  BY DEF Enqueue, IInv, TypeOK
<1>2. Len(steps) \in Nat /\ Len(queue) \in Nat /\ Base \in Nat /\ Base <= Len(steps)
  BY DEF IInv, TypeOK, Answers, Base, Current
<1>3. Base' = Base
  BY <1>1, <1>2 DEF Base, Current
<1>4. Prefix' = Base /\ Prefix = Base
  BY <1>3, PrefixIsBase, PrefixIsBaseNext
<1> QED BY <1>1, <1>2, <1>4 DEF Contract!Ask

(* A sequence built by appending, as a function. *)
LEMMA AppendedFunction ==
  ASSUME NEW f, NEW g, NEW n \in Nat, NEW x,
         \A i \in 1 .. n : g[i] = f[i], g[n + 1] = x
  PROVE  [i \in 1 .. n + 1 |-> g[i]] = Append([i \in 1 .. n |-> f[i]], x)
<1> DEFINE s == [i \in 1 .. n |-> f[i]]
<1>1. s \in Seq({f[i] : i \in 1 .. n} \cup {x}) /\ Len(s) = n
  OBVIOUS
<1>2. /\ Append(s, x) \in Seq({f[i] : i \in 1 .. n} \cup {x})
      /\ Len(Append(s, x)) = n + 1
      /\ \A i \in 1 .. n : Append(s, x)[i] = s[i]
      /\ Append(s, x)[n + 1] = x
  <2> HIDE DEF s
  <2> QED BY <1>1, Appended
<1>3. \A i \in 1 .. n + 1 : Append(s, x)[i] = g[i]
  BY <1>2
<1>4. Append(s, x) \in [1 .. n + 1 -> {f[i] : i \in 1 .. n} \cup {x}]
  <2> DEFINE a == Append(s, x)
  <2>1. a \in Seq({f[i] : i \in 1 .. n} \cup {x}) /\ Len(a) = n + 1
    BY <1>2
  <2> HIDE DEF a
  <2>2. a \in [1 .. n + 1 -> {f[i] : i \in 1 .. n} \cup {x}]
    BY <2>1
  <2> QED BY <2>2 DEF a
<1> HIDE DEF s
<1> QED BY <1>3, <1>4

LEMMA ReplyStep ==
  ASSUME IInv, IInv', NEW sid, Serves(sid), NEW outcome \in Outcome \ {"pending"},
         Finish(sid, outcome), outcome = "value" => body # "done"
  PROVE  Contract!Reply(outcome)
<1>1. /\ sid \in 1 .. Len(steps) /\ sid \in Nat /\ Len(steps) \in Nat /\ Base = sid - 1
      /\ steps[sid] = "pending"
  BY DEF IInv, TypeOK, Answers, Serves
<1>2. /\ Len(steps') = Len(steps)
      /\ steps'[sid] = outcome
      /\ \A i \in 1 .. Len(steps) : i # sid => steps'[i] = steps[i]
  <2>1. steps' = [steps EXCEPT ![sid] = outcome]
    BY <1>1 DEF Finish
  <2> QED BY <1>1, <2>1, Updated DEF IInv, TypeOK, Outcome
<1>3. Base' = sid
  <2>1. Len(queue') = Len(steps) - sid /\ running' = FALSE
    BY DEF Serves, Finish
  <2>2. Current' = sid
    BY <1>1, <1>2, <2>1 DEF Current
  <2> QED BY <2>1, <2>2 DEF Base
<1>4. Prefix = sid - 1 /\ Prefix' = sid
  BY <1>1, <1>3, PrefixIsBase, PrefixIsBaseNext
<1>5. Given' = Append(Given, outcome)
  <2>1. sid - 1 \in Nat /\ sid = (sid - 1) + 1 /\ \A i \in 1 .. sid - 1 : steps'[i] = steps[i]
    BY <1>1, <1>2
  <2>2. [i \in 1 .. sid |-> steps'[i]] = Append([i \in 1 .. sid - 1 |-> steps[i]], outcome)
    BY <1>2, <2>1, AppendedFunction
  <2> QED BY <1>4, <2>2 DEF Given
<1>6. Len(Given) = sid - 1 /\ DOMAIN Given = 1 .. sid - 1
  BY <1>1, <1>4 DEF Given
<1>7. outcome = "value" => ~ \E i \in DOMAIN Given : Given[i] = "done"
  <2>1. outcome = "value" => \A i \in 1 .. sid - 1 : steps[i] # "done"
    BY <1>1 DEF IInv, Over
  <2> QED BY <1>4, <1>6, <2>1 DEF Given
<1>8. Len(Given) < Len(steps)
  BY <1>1, <1>6
<1> QED BY <1>2, <1>5, <1>7, <1>8 DEF Contract!Reply, Contract!Ended, Given

LEMMA ResumeAnswers ==
  ASSUME IInv, IInv', NEW sid, Serves(sid), NEW kind, Resume(kind, sid)
  PROVE  UNCHANGED steps \/ Contract!ContractNext
<1>1. CASE NoBody(kind)
  <2> DEFINE outcome == IF kind = "throw" THEN "rejected" ELSE "done"
  <2>1. Finish(sid, outcome) /\ outcome \in Outcome \ {"pending"} /\ outcome # "value"
    BY <1>1 DEF Resume, Outcome
  <2>2. Contract!Reply(outcome) /\ outcome \in Contract!Answer
    <3> HIDE DEF outcome
    <3> QED BY <2>1, ReplyStep DEF Contract!Answer, Outcome
  <2> QED BY <2>2 DEF Contract!ContractNext
<1>2. CASE ~NoBody(kind)
  BY <1>2 DEF Resume
<1> QED BY <1>1, <1>2

(* An async generator keeps its contract: every step of it is a step of the *)
(* contract or leaves the contract's state unchanged.                       *)
THEOREM ContractCorrect == Spec => ImplementsContract
<1>1. IInv /\ Init => Contract!ContractInit
  <2> SUFFICES ASSUME IInv, Init PROVE Contract!ContractInit
    OBVIOUS
  <2>1. Base = 0 /\ Len(steps) = 0
    BY DEF Init, Base, Current
  <2>2. Prefix = 0
    BY <2>1, PrefixIsBase
  <2> QED BY <2>1, <2>2 DEF Contract!ContractInit
<1>2. IInv /\ IInv' /\ [Next]_vars
        => [Contract!ContractNext]_<<Len(steps), [i \in 1 .. Prefix |-> steps[i]]>>
  <2> SUFFICES ASSUME IInv, IInv', [Next]_vars
               PROVE  Contract!ContractNext \/ UNCHANGED <<Len(steps), [i \in 1 .. Prefix |-> steps[i]]>>
    OBVIOUS
  <2>1. CASE UNCHANGED steps
    BY <2>1 DEF Prefix, Answered
  <2>2. CASE Enqueue("next", Plain) \/ Enqueue("throw", Plain) \/ \E x \in Operand : Enqueue("return", x)
    BY <2>2, AskStep DEF Contract!ContractNext, Kind, Operand
  <2>3. CASE Start
    <3>1. ~running /\ queue # <<>> /\ queue' = Tail(queue)
      BY <2>3 DEF Start, IInv, Holder
    <3>2. Serves(Head(queue).sid) /\ Resume(Head(queue).kind, Head(queue).sid)
      BY <2>3, <3>1, ServesHead DEF Start
    <3> QED BY <2>1, <3>2, ResumeAnswers
  <2>4. CASE RunReturn
    <3>1. PICK j \in jobs : Take(j, "return") /\ Resume("return", j.sid)
      BY <2>4 DEF RunReturn
    <3>2. Serves(j.sid)
      BY <3>1, TakeStep
    <3> QED BY <2>1, <3>1, <3>2, ResumeAnswers
  <2>5. CASE RunAwait
    <3>1. PICK j \in jobs : Take(j, "await") /\ Resume("next", j.sid)
      BY <2>5 DEF RunAwait
    <3>2. Serves(j.sid)
      BY <3>1, TakeStep
    <3> QED BY <2>1, <3>1, <3>2, ResumeAnswers
  <2>6. CASE \E o \in {"done", "rejected"} : BodyEnds(o)
    <3>1. PICK o \in {"done", "rejected"} : BodyEnds(o)
      BY <2>6
    <3>2. running /\ control = InBody(Current) /\ UNCHANGED queue
      BY <3>1 DEF BodyEnds, IInv, Holder
    <3>3. Serves(Current) /\ control.sid = Current
      BY <3>2, ServesCurrent DEF InBody
    <3>4. Contract!Reply(o) /\ o \in Contract!Answer
      BY <3>1, <3>3, ReplyStep DEF BodyEnds, Outcome, Contract!Answer
    <3> QED BY <3>4 DEF Contract!ContractNext
  <2>7. CASE RunYield
    <3>1. PICK j \in jobs :
            Take(j, "yield") /\ Finish(j.sid, IF Fulfilled(j.on) THEN "value" ELSE "rejected")
      BY <2>7 DEF RunYield
    <3>2. Serves(j.sid) /\ j.kind = "yield"
      BY <3>1, TakeStep
    <3>3. body = "yield"
      BY <3>2 DEF IInv, Coroutine
    <3>4. PICK outcome \in {"value", "rejected"} : Finish(j.sid, outcome)
      BY <3>1
    <3>5. Contract!Reply(outcome)
      BY <3>2, <3>3, <3>4, ReplyStep DEF Outcome
    <3> QED BY <3>4, <3>5 DEF Contract!ContractNext, Contract!Answer
  <2>8. CASE \/ \E x \in Operand : BodyAwaits(x) \/ BodyYields(x)
             \/ \E p \in External, s \in {"fulfilled", "rejected"} : SettlePromise(p, s)
             \/ PumpEmpty \/ StartReturn \/ UNCHANGED vars
    BY <2>1, <2>8 DEF BodyAwaits, BodyYields, Suspend, SettlePromise, PumpEmpty, StartReturn, vars
  <2> QED BY <2>2, <2>3, <2>4, <2>5, <2>6, <2>7, <2>8 DEF Next, Ends, Loop
<1> QED BY <1>1, <1>2, Initially, Invariant, PTL DEF Spec, ImplementsContract, Contract!ContractSpec
=============================================================================
