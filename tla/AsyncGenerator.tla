--------------------------- MODULE AsyncGenerator ---------------------------
(***************************************************************************)
(* One async generator of src/src/host.rs: the queue of its requests, the  *)
(* coroutine they resume one at a time, and the step promises they settle. *)
(*                                                                         *)
(* The body is any program: between a resumption and a suspension it may   *)
(* call the generator's own methods and settle promises; it suspends in an *)
(* await or a yield, or ends.  A reaction is a job that is ready once the  *)
(* promise it waits for has settled; the order of the microtask queue is   *)
(* the subject of Promises, and here any ready job may be the next.        *)
(***************************************************************************)
EXTENDS Integers, Sequences, FiniteSets

CONSTANTS
  External,       \* promises the program settles
  Plain,          \* any value that is not a promise
  MaxRequests     \* bound: calls of next, return and throw

ASSUME AsyncGeneratorAssumption == MaxRequests \in Nat /\ Plain \notin External

VARIABLES
  promises,   \* the state of each external promise
  steps,      \* what each request's promise came to, in the order they were made
  queue,      \* [[AsyncGeneratorQueue]]
  running,    \* GenCell.running: a queued request is being driven
  body,       \* what the coroutine is suspended in, if it is
  jobs,       \* continuations of the request in flight
  control     \* whose code is on the stack

vars == <<promises, steps, queue, running, body, jobs, control>>

Kind == {"next", "return", "throw"}
Operand == External \cup {Plain}
Request == [kind : Kind, value : Operand, sid : Nat]
Job == [kind : {"return", "await", "yield"}, on : Operand, value : Operand, sid : Nat]
Control == [at : {"js", "body", "pump"}, sid : Nat]

JS == [at |-> "js", sid |-> 0]
Pumping == [at |-> "pump", sid |-> 0]
InBody(sid) == [at |-> "body", sid |-> sid]

Continue(kind, x, sid) == [kind |-> kind, on |-> x, value |-> Plain, sid |-> sid]
Return(x, sid) == [kind |-> "return", on |-> Plain, value |-> x, sid |-> sid]

Settled(x) == x \in {Plain} \cup {p \in External : promises[p] # "pending"}
Fulfilled(x) == x \in {Plain} \cup {p \in External : promises[p] = "fulfilled"}

Init ==
  /\ promises = [p \in External |-> "pending"]
  /\ steps = <<>> /\ queue = <<>> /\ running = FALSE
  /\ body = "start" /\ jobs = {} /\ control = JS

(* The program: consumers, the body itself, and whoever settles promises. *)

\* async_gen_enqueue
Enqueue(kind, x) ==
  /\ control.at \in {"js", "body"} /\ Len(steps) < MaxRequests
  /\ steps' = Append(steps, "pending")
  /\ queue' = Append(queue, [kind |-> kind, value |-> x, sid |-> Len(steps) + 1])
  /\ control' = IF running THEN control ELSE Pumping
  /\ UNCHANGED <<promises, running, body, jobs>>

SettlePromise(p, state) ==
  /\ control.at \in {"js", "body"} /\ promises[p] = "pending"
  /\ promises' = [promises EXCEPT ![p] = state]
  /\ UNCHANGED <<steps, queue, running, body, jobs, control>>

\* Mutant of Finish: the next request waits for somebody to enqueue another.
FinishAlone(sid, outcome) ==
  /\ steps' = IF steps[sid] = "pending" THEN [steps EXCEPT ![sid] = outcome] ELSE steps
  /\ running' = FALSE
  /\ control' = JS

(* finish_async_gen_step, after the request's promise has settled. *)
Finish(sid, outcome) ==
  /\ steps' = IF steps[sid] = "pending" THEN [steps EXCEPT ![sid] = outcome] ELSE steps
  /\ running' = FALSE
  /\ control' = Pumping

(* resume_async_gen_req: gen_resume, gen_return or gen_throw. *)
NoBody(kind) == body = "done" \/ (body = "start" /\ kind # "next")
Resume(kind, sid) ==
  \/ /\ NoBody(kind)
     /\ body' = "done"
     /\ Finish(sid, IF kind = "throw" THEN "rejected" ELSE "done")
  \/ /\ ~NoBody(kind)
     /\ body' = "executing" /\ running' = TRUE
     /\ control' = InBody(sid)
     /\ UNCHANGED steps

(* pump_async_gen and start_async_gen_req *)

PumpEmpty ==
  /\ control.at = "pump" /\ queue = <<>>
  /\ control' = JS
  /\ UNCHANGED <<promises, steps, queue, running, body, jobs>>

\* A return completion costs a microtask before the body sees it.
StartReturn ==
  /\ control.at = "pump" /\ queue # <<>> /\ Head(queue).kind = "return"
  /\ queue' = Tail(queue) /\ running' = TRUE
  /\ jobs' = jobs \cup {Return(Head(queue).value, Head(queue).sid)}
  /\ control' = JS
  /\ UNCHANGED <<promises, steps, body>>

Start ==
  /\ control.at = "pump" /\ queue # <<>> /\ Head(queue).kind # "return"
  /\ queue' = Tail(queue)
  /\ Resume(Head(queue).kind, Head(queue).sid)
  /\ UNCHANGED <<promises, jobs>>

(* settle_async_gen_step: how the body's turn ends. *)

Suspend(kind, x) ==
  /\ control.at = "body"
  /\ body' = kind
  /\ jobs' = jobs \cup {Continue(kind, x, control.sid)}
  /\ control' = JS
  /\ UNCHANGED <<promises, steps, queue, running>>
BodyAwaits(x) == Suspend("await", x)
BodyYields(x) == Suspend("yield", x)

\* Mutant of BodyEnds: the generator is not marked done.
BodyEndsOpen(outcome) ==
  /\ control.at = "body"
  /\ body' = "yield"
  /\ Finish(control.sid, outcome)
  /\ UNCHANGED <<promises, queue, jobs>>

BodyEnds(outcome) ==
  /\ control.at = "body"
  /\ body' = "done"
  /\ Finish(control.sid, outcome)
  /\ UNCHANGED <<promises, queue, jobs>>

(* The microtasks *)

Take(j, kind) ==
  /\ control.at = "js" /\ j \in jobs /\ j.kind = kind /\ Settled(j.on)
  /\ jobs' = jobs \ {j}
  /\ UNCHANGED <<promises, queue>>

RunReturn == \E j \in jobs : Take(j, "return") /\ Resume("return", j.sid)

\* drive_async_gen: the body resumes from its await, whatever came of it.
RunAwait == \E j \in jobs : Take(j, "await") /\ Resume("next", j.sid)

\* The yielded value has settled: so does the step.  The body stays where it is.
RunYield ==
  \E j \in jobs :
    /\ Take(j, "yield")
    /\ Finish(j.sid, IF Fulfilled(j.on) THEN "value" ELSE "rejected")
    /\ UNCHANGED body

Ends == (\E x \in Operand : BodyYields(x)) \/ (\E o \in {"done", "rejected"} : BodyEnds(o))
Loop == PumpEmpty \/ StartReturn \/ Start \/ RunReturn \/ RunAwait \/ RunYield

Next ==
  \/ Enqueue("next", Plain) \/ Enqueue("throw", Plain)
  \/ \E x \in Operand : Enqueue("return", x)
  \/ \E p \in External, s \in {"fulfilled", "rejected"} : SettlePromise(p, s)
  \/ \E x \in Operand : BodyAwaits(x)
  \/ Ends \/ Loop

Spec == Init /\ [][Next]_vars

(* The loop runs what is ready, the program settles what is awaited, and a body *)
(* that is resumed again and again in the end yields or ends.                   *)
Fairness ==
  /\ WF_vars(Loop)
  /\ \A p \in External : WF_vars(\E s \in {"fulfilled", "rejected"} : SettlePromise(p, s))
  /\ SF_vars(Ends)

FairSpec == Spec /\ Fairness

----------------------------------------------------------------------------
TypeOK ==
  /\ promises \in [External -> {"pending", "fulfilled", "rejected"}]
  /\ steps \in Seq({"pending", "value", "done", "rejected"})
  /\ queue \in Seq(Request)
  /\ running \in BOOLEAN
  /\ body \in {"start", "yield", "await", "executing", "done"}
  /\ jobs \subseteq Job
  /\ control \in Control

InFlight == {j.sid : j \in jobs} \cup (IF control.at = "body" THEN {control.sid} ELSE {})
Queued == {queue[i].sid : i \in DOMAIN queue}

\* One request drives the body at a time, and a request that is not answered is
\* queued or in flight: with nothing in flight, nothing is left in the queue.
OneInFlight ==
  /\ Cardinality(InFlight) <= 1
  /\ running <=> InFlight # {}
  /\ {i \in DOMAIN steps : steps[i] = "pending"} = Queued \cup InFlight
  /\ Queued \cap InFlight = {}
  /\ control.at = "js" /\ ~running => queue = <<>>

\* "so their results settle in request order"
SettleInOrder ==
  \A i, j \in DOMAIN steps : i < j /\ steps[j] # "pending" => steps[i] # "pending"

\* A request never resumes the body while it is suspended in an await of an
\* earlier one, or executing: only the continuation of that await does.
ResumedByAwait ==
  /\ body = "await"
  /\ \E j \in jobs \ jobs' : j.kind = "await" /\ InBody(j.sid) = control'
AwaitsAreInternal ==
  [][(body \in {"await", "executing"} /\ control.at # "body" /\ control.at' = "body")
       => ResumedByAwait]_vars

\* Answered in order, one at a time, and never a value once it is done.
Answered == {k \in 0 .. Len(steps) : \A i \in 1 .. k : steps[i] # "pending"}
Prefix == CHOOSE k \in Answered : k + 1 \notin Answered
Contract == INSTANCE AsyncGeneratorContract
  WITH asked <- Len(steps), answers <- [i \in 1 .. Prefix |-> steps[i]]
ImplementsContract == Contract!ContractSpec

\* Every request is answered.
RequestsAnswered ==
  \A i \in 1 .. MaxRequests :
    (i \in DOMAIN steps) ~> (i \in DOMAIN steps /\ steps[i] # "pending")
=============================================================================
