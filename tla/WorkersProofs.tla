--------------------------- MODULE WorkersProofs ---------------------------
(* Theorems about Workers, for any threads, codes and number of calls. *)
EXTENDS Workers, FiniteSetTheorems, SequenceTheorems, TLAPS

USE DEF loops, messages

(* The tasks the code builds. *)
LEMMA TaskTypes ==
  /\ \A k \in MainEvents, w \in Thread, n \in Nat : Event(k, w, n) \in Task
  /\ \A k \in {"deliver", "release", "close", "wake"}, n \in Nat : Own(k, n) \in Task
  BY DEF Event, Own, Task, Thread

LEMMA Activations == \A is \in {"nothing", "task", "exit", "leaving", "exiting"} : Do(is) \in Activation
  BY DEF Do, Activation, Thread

----------------------------------------------------------------------------
(* Types. *)

LEMMA TypeInit == Init => TypeOK
<1> SUFFICES ASSUME Init PROVE TypeOK
  OBVIOUS
<1>1. running \in [Thread -> Activation]
  BY Activations DEF Init
<1> QED BY <1>1, WorkersAssumption DEF Init, TypeOK, Thread, None

(* A task is sent to the loop of a thread. *)
LEMMA Sending ==
  ASSUME TypeOK, NEW t \in Thread, NEW task \in Task, Send(t, task)
  PROVE  /\ io_rx' \in [Thread -> Seq(Task)]
         /\ io_rx'[t] = io_rx[t] \o <<task>> /\ <<task>> \in Seq(Task)
         /\ \A u \in Thread : u # t => io_rx'[u] = io_rx[u]
<1>1. io_rx \in [Thread -> Seq(Task)] /\ io_rx' = [io_rx EXCEPT ![t] = Append(io_rx[t], task)]
  BY DEF TypeOK, Send
<1>2. Append(io_rx[t], task) \in Seq(Task) /\ Append(io_rx[t], task) = io_rx[t] \o <<task>>
  BY <1>1, AppendProperties, AppendIsConcat
<1> QED BY <1>1, <1>2

LEMMA Taking ==
  ASSUME TypeOK, NEW t \in Thread, Receiving(t), Take(t)
  PROVE  /\ io_rx' \in [Thread -> Seq(Task)] /\ Head(io_rx[t]) \in Task
         /\ io_rx[t] # <<>> /\ io_rx'[t] = Tail(io_rx[t])
         /\ \A u \in Thread : u # t => io_rx'[u] = io_rx[u]
<1>1. /\ io_rx \in [Thread -> Seq(Task)] /\ io_rx' = [io_rx EXCEPT ![t] = Tail(io_rx[t])]
      /\ io_rx[t] # <<>>
  BY DEF TypeOK, Take, Receiving
<1>2. Head(io_rx[t]) \in Task /\ Tail(io_rx[t]) \in Seq(Task)
  BY <1>1, HeadTailProperties
<1> QED BY <1>1, <1>2

LEMMA Calling ==
  ASSUME TypeOK, Called
  PROVE  calls' \in 0 .. MaxCalls
  BY WorkersAssumption DEF Called, TypeOK

Context ==
  [parent : Thread, bridge : {"none", "on", "off"}, port_released : BOOLEAN, port_closed : BOOLEAN,
   port_close_emitted : BOOLEAN, exit_code : Nat \cup {None}, exiting : BOOLEAN]

LEMMA CtxTypes ==
  ASSUME TypeOK, NEW w \in Worker
  PROVE  /\ ctx \in [Worker -> Context] /\ ctx[w] \in Context
         /\ w \in Thread /\ ctx[w].parent \in Thread
  BY DEF TypeOK, Thread, Context

(* The calls of a program that count. *)
LEMMA TypeCalls ==
  ASSUME TypeOK, NEW t \in Thread, NEW w \in Worker,
         \/ construct_worker(t, w) \/ PostToWorker(t, w) \/ TerminateWorker(t, w)
         \/ start_parent_bridge(w) \/ PostToParent(w) \/ close_parent_port(w)
  PROVE  TypeOK'
<1>1. calls' \in 0 .. MaxCalls
  BY Calling DEF construct_worker, PostToWorker, TerminateWorker, worker_call,
     start_parent_bridge, PostToParent, close_parent_port
<1>2. w \in Thread /\ ctx[w].parent \in Thread
  BY CtxTypes
<1>4. CASE construct_worker(t, w)
  <2>1. ctx' = [ctx EXCEPT ![w].parent = t] /\ ctx \in [Worker -> Context]
    BY <1>4, CtxTypes DEF construct_worker
  <2>2. ctx' \in [Worker -> Context]
    BY <2>1 DEF Context
  <2>3. life' \in [Thread -> {"unborn", "spawned", "on", "left", "dead"}]
    BY <1>2, <1>4 DEF construct_worker, TypeOK
  <2>4. WORKERS' \subseteq Worker
    BY <1>4 DEF construct_worker, TypeOK
  <2>5. open_handles' \in [Thread -> Nat]
    BY <1>4 DEF construct_worker, incr_handle, TypeOK
  <2> QED BY <1>1, <1>4, <2>2, <2>3, <2>4, <2>5 DEF construct_worker, TypeOK, Context
<1>5. CASE PostToWorker(t, w) \/ TerminateWorker(t, w)
  <2>1. PICK msg \in Nat : worker_call(t, w, msg)
    <3>1. sent[w] + 1 \in Nat /\ Terminate \in Nat
      BY DEF TypeOK, Terminate
    <3> QED BY <1>5, <3>1 DEF PostToWorker, TerminateWorker
  <2>2. to_worker' \in [Worker -> Seq(Nat)]
    <3>1. to_worker \in [Worker -> Seq(Nat)] /\ to_worker' = [to_worker EXCEPT ![w] = Append(to_worker[w], msg)]
      BY <2>1 DEF worker_call, TypeOK
    <3>2. Append(to_worker[w], msg) \in Seq(Nat)
      BY <3>1, AppendProperties
    <3> QED BY <3>1, <3>2
  <2>3. sent \in [Worker -> Nat] /\ (sent' = sent \/ sent' = [sent EXCEPT ![w] = sent[w] + 1])
    BY <1>5 DEF PostToWorker, TerminateWorker, TypeOK
  <2>4. sent' \in [Worker -> Nat]
    BY <2>3
  <2> QED BY <1>1, <2>1, <2>2, <2>4 DEF worker_call, TypeOK
<1>6. CASE start_parent_bridge(w)
  <2>1. ctx' = [ctx EXCEPT ![w].bridge = "on"] /\ ctx \in [Worker -> Context]
    BY <1>6, CtxTypes DEF start_parent_bridge
  <2>2. ctx' \in [Worker -> Context]
    BY <2>1 DEF Context
  <2>3. open_handles' \in [Thread -> Nat]
    <3>1. open_handles \in [Thread -> Nat] /\ open_handles' = [open_handles EXCEPT ![w] = open_handles[w] + 1]
      BY <1>6 DEF start_parent_bridge, incr_handle, TypeOK
    <3> QED BY <1>2, <3>1
  <2> QED BY <1>1, <1>6, <2>2, <2>3 DEF start_parent_bridge, TypeOK, Context
<1>7. CASE PostToParent(w)
  <2>1. Event("message", w, posted[w] + 1) \in Task
    BY <1>2, TaskTypes DEF MainEvents, TypeOK
  <2>2. io_rx' \in [Thread -> Seq(Task)]
    BY <1>2, <1>7, <2>1, Sending DEF PostToParent
  <2>3. posted' \in [Worker -> Nat]
    BY <1>7 DEF PostToParent, TypeOK
  <2> QED BY <1>1, <1>7, <2>2, <2>3 DEF PostToParent, TypeOK
<1>8. CASE close_parent_port(w)
  <2>1. Own("close", 0) \in Task /\ Send(w, Own("close", 0))
    BY <1>8, TaskTypes DEF close_parent_port
  <2>2. io_rx' \in [Thread -> Seq(Task)]
    BY <1>2, <2>1, Sending
  <2>3. ctx' = [ctx EXCEPT ![w].port_closed = TRUE] /\ ctx \in [Worker -> Context]
    BY <1>8, CtxTypes DEF close_parent_port
  <2>4. ctx' \in [Worker -> Context]
    BY <2>3 DEF Context
  <2>5. open_handles' \in [Thread -> Nat]
    <3>1. open_handles \in [Thread -> Nat] /\ open_handles' = [open_handles EXCEPT ![w] = open_handles[w] + 1]
      BY <1>8 DEF close_parent_port, incr_handle, TypeOK
    <3> QED BY <1>2, <3>1
  <2> QED BY <1>1, <1>8, <2>2, <2>4, <2>5 DEF close_parent_port, TypeOK, Context
<1> QED BY <1>4, <1>5, <1>6, <1>7, <1>8

(* A thread ends. *)
LEMMA TypeEnd ==
  ASSUME TypeOK, NEW w \in Worker, NEW how \in {"left", "dead"}, End(w, how),
         ctx' \in [Worker -> Context]
  PROVE  TypeOK' /\ \E n \in Nat : Send(ctx[w].parent, Event("exit", w, n))
<1>0. ctx'[w].exit_code # None => ctx'[w].exit_code \in Nat
  BY DEF Context
<1>1. PICK n \in Nat : Send(ctx[w].parent, Event("exit", w, n))
  BY <1>0 DEF End
<1>2. w \in Thread /\ ctx[w].parent \in Thread
  BY CtxTypes
<1>3. Event("exit", w, n) \in Task
  BY <1>2, TaskTypes DEF MainEvents
<1>4. io_rx' \in [Thread -> Seq(Task)]
  BY <1>1, <1>2, <1>3, Sending
<1>5. running' \in [Thread -> Activation]
  BY <1>2, Activations DEF End, TypeOK
<1> QED BY <1>1, <1>2, <1>4, <1>5 DEF End, TypeOK, Context

LEMMA TypeExits ==
  ASSUME TypeOK, NEW w \in Worker, NEW c \in Code,
         SetExitCode(w, c) \/ ProcessExit(w, c) \/ ProcessExitAgain(w, c)
  PROVE  TypeOK'
<1>1. w \in Thread /\ c \in Nat
  BY CtxTypes, WorkersAssumption
<1>2. ASSUME ctx' = [ctx EXCEPT ![w].exit_code = c]
      PROVE  ctx' \in [Worker -> Context]
  BY <1>1, <1>2, CtxTypes DEF Context
<1>3. CASE SetExitCode(w, c)
  BY <1>2, <1>3, Calling DEF SetExitCode, TypeOK, Context
<1>4. CASE ProcessExit(w, c)
  <2>1. ctx' = [ctx EXCEPT ![w].exit_code = c, ![w].exiting = TRUE] /\ ctx \in [Worker -> Context]
    BY <1>4, CtxTypes DEF ProcessExit
  <2>2. ctx' \in [Worker -> Context]
    <3>1. [ctx[w] EXCEPT !.exit_code = c, !.exiting = TRUE] \in Context
      BY <1>1, <2>1 DEF Context
    <3>2. ctx' = [ctx EXCEPT ![w] = [ctx[w] EXCEPT !.exit_code = c, !.exiting = TRUE]]
      BY <2>1
    <3> QED BY <2>1, <3>1, <3>2
  <2>3. running' \in [Thread -> Activation]
    BY <1>1, <1>4, Activations DEF ProcessExit, TypeOK
  <2> QED BY <1>4, <2>2, <2>3 DEF ProcessExit, TypeOK, Context
<1>5. CASE ProcessExitAgain(w, c)
  BY <1>2, <1>5, TypeEnd DEF ProcessExitAgain
<1> QED BY <1>3, <1>4, <1>5

LEMMA TypeEnds ==
  ASSUME TypeOK, NEW t \in Thread, Return(t) \/ ExitDispatched(t) \/ Throw(t)
  PROVE  TypeOK'
<1>1. \A is \in {"nothing", "task", "exit", "leaving", "exiting"} :
        [running EXCEPT ![t] = Do(is)] \in [Thread -> Activation]
  BY Activations DEF TypeOK
<1>2. CASE Return(t)
  BY <1>1, <1>2 DEF Return, TypeOK
<1>3. CASE ExitDispatched(t)
  <2>1. io_rx' \in [Thread -> Seq(Task)]
    <3>1. Own("wake", 0) \in Task
      BY TaskTypes
    <3> QED BY <1>3, <3>1, Sending DEF ExitDispatched
  <2>2. open_handles' \in [Thread -> Nat]
    BY <1>3 DEF ExitDispatched, decr_handle, TypeOK
  <2> QED BY <1>1, <1>3, <2>1, <2>2 DEF ExitDispatched, TypeOK
<1>4. ASSUME Throw(t), running' = [running EXCEPT ![t] = Do("nothing")],
             UNCHANGED <<life, work, open_handles, io_rx, ctx, WORKERS, to_worker, calls, messages>>
      PROVE  TypeOK'
  BY <1>1, <1>4 DEF TypeOK
<1>5. ASSUME EndProcess("dead"), t = Main PROVE TypeOK'
  BY <1>1, <1>5 DEF EndProcess, TypeOK
<1>6. ASSUME Fail(t), t \in Worker PROVE TypeOK'
  <2>1. io_rx \in [Thread -> Seq(Task)] /\ ctx[t].parent \in Thread
    BY <1>6, CtxTypes DEF TypeOK
  <2>2. Event("error", t, 0) \in Task /\ Event("exit", t, 1) \in Task
    BY TaskTypes DEF MainEvents
  <2>3. <<Event("error", t, 0), Event("exit", t, 1)>> \in Seq(Task)
    BY <2>2
  <2>4. io_rx[ctx[t].parent] \o <<Event("error", t, 0), Event("exit", t, 1)>> \in Seq(Task)
    BY <2>1, <2>3, ConcatProperties
  <2>5. io_rx' \in [Thread -> Seq(Task)]
    BY <1>6, <2>1, <2>4 DEF Fail
  <2> QED BY <1>1, <1>6, <2>5 DEF Fail, TypeOK
<1> QED BY <1>2, <1>3, <1>4, <1>5, <1>6 DEF Throw, Thread

LEMMA TypeThreads ==
  ASSUME TypeOK, NEW w \in Worker, StartThread(w) \/ Forward(w)
  PROVE  TypeOK'
<1>1. w \in Thread /\ ctx[w].parent \in Thread
  BY CtxTypes
<1>2. CASE StartThread(w)
  <2>1. Event("online", w, 0) \in Task
    BY <1>1, TaskTypes DEF MainEvents
  <2>2. io_rx' \in [Thread -> Seq(Task)]
    BY <1>1, <1>2, <2>1, Sending DEF StartThread
  <2>3. running' \in [Thread -> Activation]
    BY <1>2, Activations DEF StartThread, TypeOK
  <2> QED BY <1>2, <2>2, <2>3 DEF StartThread, TypeOK
<1>3. CASE Forward(w)
  <2>1. to_worker \in [Worker -> Seq(Nat)] /\ to_worker[w] # <<>>
    BY <1>3 DEF Forward, TypeOK
  <2>2. Head(to_worker[w]) \in Nat /\ Tail(to_worker[w]) \in Seq(Nat)
    BY <2>1, HeadTailProperties
  <2>3. Own("deliver", Head(to_worker[w])) \in Task /\ Own("release", 0) \in Task
    BY <2>2, TaskTypes
  <2>4. io_rx' \in [Thread -> Seq(Task)]
    BY <1>1, <1>3, <2>3, Sending DEF Forward
  <2>5. to_worker' \in [Worker -> Seq(Nat)]
    <3>1. \/ to_worker' = [to_worker EXCEPT ![w] = Tail(to_worker[w])]
          \/ to_worker' = [to_worker EXCEPT ![w] = <<>>]
      BY <1>3 DEF Forward
    <3>2. ASSUME NEW q \in Seq(Nat), to_worker' = [to_worker EXCEPT ![w] = q]
          PROVE  to_worker' \in [Worker -> Seq(Nat)]
      BY <2>1, <3>2
    <3>3. <<>> \in Seq(Nat)
      OBVIOUS
    <3> QED BY <2>2, <3>1, <3>2, <3>3
  <2>6. ctx \in [Worker -> Context] /\ (ctx' = ctx \/ ctx' = [ctx EXCEPT ![w].bridge = "off"])
    BY <1>3, CtxTypes DEF Forward
  <2>7. ctx' \in [Worker -> Context]
    BY <2>6 DEF Context
  <2> QED BY <1>3, <2>4, <2>5, <2>7 DEF Forward, TypeOK, Context
<1> QED BY <1>2, <1>3

LEMMA TypeLoop ==
  ASSUME TypeOK, NEW t \in Thread, Loop(t)
  PROVE  TypeOK'
<1>1. \A is \in {"nothing", "task", "exit", "leaving", "exiting"} :
        [running EXCEPT ![t] = Do(is)] \in [Thread -> Activation]
  BY Activations DEF TypeOK
<1>2. CASE RunWork(t)
  BY <1>1, <1>2 DEF RunWork, TypeOK
<1>3. CASE DispatchMain(t)
  <2> DEFINE task == Head(io_rx[t])
  <2>1. io_rx' \in [Thread -> Seq(Task)] /\ task \in Task
    BY <1>3, Taking DEF DispatchMain
  <2>2. running' \in [Thread -> Activation]
    <3>1. [is |-> IF task.kind = "exit" THEN "exit" ELSE "task", of |-> task.from] \in Activation
      BY <2>1 DEF Task, Activation
    <3>2. \/ running' = running
          \/ running' = [running EXCEPT ![t] =
                [is |-> IF task.kind = "exit" THEN "exit" ELSE "task", of |-> task.from]]
      BY <1>3 DEF DispatchMain
    <3> HIDE DEF task
    <3> QED BY <3>1, <3>2 DEF TypeOK
  <2>3. heard' \in [Worker -> Seq(Task)]
    <3> HIDE DEF task
    <3>1. heard' = heard \/ (task.from \in Worker /\ heard' = [heard EXCEPT ![task.from] = Append(@, task)])
      BY <1>3 DEF DispatchMain, task, TypeOK
    <3>2. task.from \in Worker => Append(heard[task.from], task) \in Seq(Task)
      BY <2>1, AppendProperties DEF TypeOK
    <3> QED BY <3>1, <3>2 DEF TypeOK
  <2> QED BY <1>3, <2>1, <2>2, <2>3 DEF DispatchMain, TypeOK
<1>4. CASE RunWake(t)
  BY <1>4, Taking DEF RunWake, TypeOK
<1>5. ASSUME t \in Worker, ParentDeliver(t) PROVE TypeOK'
  <2>1. io_rx' \in [Thread -> Seq(Task)]
    BY <1>5, Taking DEF ParentDeliver
  <2>2. running' \in [Thread -> Activation]
    BY <1>1, <1>5 DEF ParentDeliver, TypeOK
  <2>3. delivered' \in [Worker -> Seq(Nat)]
    <3>1. Head(io_rx[t]).n \in Nat
      BY <1>5, Taking DEF ParentDeliver, Task
    <3>2. Append(delivered[t], Head(io_rx[t]).n) \in Seq(Nat)
      BY <1>5, <3>1, AppendProperties DEF TypeOK
    <3>3. delivered' = delivered \/ delivered' = [delivered EXCEPT ![t] = Append(delivered[t], Head(io_rx[t]).n)]
      BY <1>5 DEF ParentDeliver
    <3> QED BY <3>2, <3>3 DEF TypeOK
  <2> QED BY <1>5, <2>1, <2>2, <2>3 DEF ParentDeliver, TypeOK
<1>6. ASSUME t \in Worker, RunRelease(t) \/ RunClose(t) PROVE TypeOK'
  <2>1. io_rx' \in [Thread -> Seq(Task)]
    BY <1>6, Taking DEF RunRelease, RunClose
  <2>2. running' \in [Thread -> Activation]
    BY <1>1, <1>6 DEF RunRelease, RunClose, TypeOK
  <2>3. open_handles' \in [Thread -> Nat]
    <3>1. open_handles \in [Thread -> Nat] /\ release_parent_port(t, open_handles[t]) \in Nat
      BY DEF TypeOK, release_parent_port, decr_handle
    <3>2. \E n \in Nat : open_handles' = [open_handles EXCEPT ![t] = n]
      BY <1>6, <3>1 DEF RunRelease, RunClose, decr_handle
    <3> QED BY <3>1, <3>2
  <2>4. ctx \in [Worker -> Context] /\ ctx[t].port_released \in BOOLEAN
    BY <1>6, CtxTypes DEF Context
  <2>5. PICK b \in BOOLEAN :
          \/ ctx' = [ctx EXCEPT ![t].port_released = b]
          \/ ctx' = [ctx EXCEPT ![t].port_close_emitted = TRUE, ![t].port_released = b]
    BY <1>6, <2>4 DEF RunRelease, RunClose
  <2>6. ctx' \in [Worker -> Context]
    <3>1. [ctx[t] EXCEPT !.port_released = b] \in Context
          /\ [ctx[t] EXCEPT !.port_close_emitted = TRUE, !.port_released = b] \in Context
      BY <1>6, <2>4 DEF Context
    <3>2. \/ ctx' = [ctx EXCEPT ![t] = [ctx[t] EXCEPT !.port_released = b]]
          \/ ctx' = [ctx EXCEPT ![t] = [ctx[t] EXCEPT !.port_close_emitted = TRUE, !.port_released = b]]
      BY <2>5
    <3> QED BY <2>4, <3>1, <3>2
  <2> QED BY <1>6, <2>1, <2>2, <2>3, <2>6 DEF RunRelease, RunClose, TypeOK, Context
<1>7. CASE Leave(t)
  <2>1. CASE t = Main /\ EndProcess("left")
    BY <1>1, <2>1 DEF EndProcess, TypeOK
  <2>2. ASSUME t \in Worker, running' = [running EXCEPT ![t] = Do("leaving")],
               ctx' = [ctx EXCEPT ![t].exiting = TRUE],
               UNCHANGED <<life, work, open_handles, io_rx, WORKERS, to_worker, calls, messages>>
        PROVE  TypeOK'
    <3>1. ctx' = [ctx EXCEPT ![t].exiting = TRUE] /\ ctx \in [Worker -> Context]
      BY <2>2, CtxTypes
    <3>2. ctx' \in [Worker -> Context]
      BY <3>1 DEF Context
    <3> QED BY <1>1, <2>2, <3>2 DEF TypeOK, Context
  <2>3. CASE t \in Worker /\ UNCHANGED ctx /\ End(t, "left")
    <3>1. ctx' \in [Worker -> Context]
      BY <2>3, CtxTypes
    <3> QED BY <2>3, <3>1, TypeEnd
  <2> QED BY <1>7, <2>1, <2>2, <2>3 DEF Leave
<1> QED BY <1>2, <1>3, <1>4, <1>5, <1>6, <1>7 DEF Loop, Receive

LEMMA TypeStep == TypeOK /\ [Next]_vars => TypeOK'
<1> SUFFICES ASSUME TypeOK, [Next]_vars PROVE TypeOK'
  OBVIOUS
<1>1. CASE UNCHANGED vars
  BY <1>1 DEF vars, TypeOK
<1>2. ASSUME NEW t \in Thread, ScheduleWork(t) PROVE TypeOK'
  BY <1>2, Calling DEF ScheduleWork, TypeOK
<1>3. ASSUME NEW t \in Thread, t \in Worker, ExitReturns(t) PROVE TypeOK'
  <2>1. ctx' \in [Worker -> Context]
    BY <1>3, CtxTypes DEF ExitReturns
  <2> QED BY <1>3, <2>1, TypeEnd DEF ExitReturns
<1> HIDE DEF loops, messages
<1> QED BY <1>1, <1>2, <1>3, TypeCalls, TypeExits, TypeEnds, TypeThreads, TypeLoop DEF Next, Ends, Thread

\* The type invariant holds in every run, for any threads, programs and number of calls.
THEOREM TypeCorrect == Spec => []TypeOK
  BY TypeInit, TypeStep, PTL DEF Spec

----------------------------------------------------------------------------
(* The inductive invariant. *)

ClosesOnce(q, closing) ==
  /\ \A i \in DOMAIN q : q[i].kind = "close" => closing
  /\ \A i, j \in DOMAIN q : q[i].kind = "close" /\ q[j].kind = "close" => i = j

\* A bridge is released after it was started; close() sends its task once, and
\* what it does is done when that task runs.
Port(w) ==
  /\ ctx[w].bridge = "none" => ~ctx[w].port_released
  /\ ctx[w].port_close_emitted => ctx[w].port_closed
  /\ ClosesOnce(io_rx[w], Closing(w))
Ports == \A w \in Worker : Port(w)

\* Events come to a loop from the workers its thread made.
FromChild(t, task) ==
  task.kind \in MainEvents =>
    task.from \in Worker /\ ctx[task.from].parent = t /\ life[task.from] # "unborn"
FromChildren == \A t \in Thread : \A i \in DOMAIN io_rx[t] : FromChild(t, io_rx[t][i])

Registered == \A w \in WORKERS : life[w] # "unborn"

\* While its exit event is dispatched, a worker stays in its parent's registry.
Dispatched == \A t \in Thread : running[t].is = "exit" => running[t].of \in Workers(t)

IInv == TypeOK /\ Ports /\ FromChildren /\ Registered /\ Dispatched /\ HandlesCounted

----------------------------------------------------------------------------
(* Steps of a loop's channel. *)

Queued(t) ==
  \/ io_rx'[t] = io_rx[t]
  \/ io_rx[t] # <<>> /\ io_rx'[t] = Tail(io_rx[t])
  \/ \E r \in Seq(Task) : /\ io_rx'[t] = io_rx[t] \o r
                          /\ \A i \in DOMAIN r : r[i].kind # "close" /\ FromChild(t, r[i])

LEMMA QueueStep ==
  ASSUME IInv, NEW t \in Thread, Queued(t)
  PROVE  /\ \A c : ClosesOnce(io_rx[t], c) => ClosesOnce(io_rx'[t], c)
         /\ \A i \in DOMAIN io_rx'[t] : FromChild(t, io_rx'[t][i])
<1>1. PICK q \in Seq(Task) : q = io_rx[t]
  BY DEF IInv, TypeOK
<1>2. \A i \in DOMAIN q : FromChild(t, q[i])
  BY <1>1 DEF IInv, FromChildren
<1>3. CASE io_rx'[t] = q
  BY <1>1, <1>2, <1>3
<1>4. CASE q # <<>> /\ io_rx'[t] = Tail(q)
  <2>1. \A i \in DOMAIN Tail(q) : i \in Nat /\ i + 1 \in DOMAIN q /\ Tail(q)[i] = q[i + 1]
    BY <1>4, HeadTailProperties, LenProperties, EmptySeq
  <2> QED BY <1>1, <1>2, <1>4, <2>1 DEF ClosesOnce
<1>5. CASE \E r \in Seq(Task) : /\ io_rx'[t] = q \o r
                              /\ \A i \in DOMAIN r : r[i].kind # "close" /\ FromChild(t, r[i])
  <2>1. PICK r \in Seq(Task) : /\ io_rx'[t] = q \o r
                               /\ \A i \in DOMAIN r : r[i].kind # "close" /\ FromChild(t, r[i])
    BY <1>5
  <2>2. /\ Len(q) \in Nat /\ Len(r) \in Nat /\ DOMAIN q = 1 .. Len(q) /\ DOMAIN r = 1 .. Len(r)
        /\ q \o r \in Seq(Task) /\ DOMAIN (q \o r) = 1 .. Len(q) + Len(r)
        /\ \A i \in 1 .. Len(q) + Len(r) : (q \o r)[i] = IF i <= Len(q) THEN q[i] ELSE r[i - Len(q)]
    BY LenProperties, ConcatProperties
  <2>3. ASSUME NEW i \in DOMAIN (q \o r)
        PROVE  \/ i \in DOMAIN q /\ (q \o r)[i] = q[i]
               \/ FromChild(t, (q \o r)[i]) /\ (q \o r)[i].kind # "close"
    <3>1. CASE i <= Len(q)
      BY <2>2, <3>1
    <3>2. CASE ~(i <= Len(q))
      <4>1. i - Len(q) \in DOMAIN r
        BY <2>2, <3>2
      <4> QED BY <2>1, <2>2, <3>2, <4>1
    <3> QED BY <3>1, <3>2
  <2> QED BY <1>1, <1>2, <2>1, <2>3 DEF ClosesOnce
<1> QED BY <1>1, <1>3, <1>4, <1>5 DEF Queued

(* A task that a thread sends. *)
LEMMA Sends ==
  ASSUME TypeOK, NEW t \in Thread, NEW task \in Task, Send(t, task),
         task.kind # "close", FromChild(t, task)
  PROVE  \A u \in Thread : Queued(u)
<1>1. /\ <<task>> \in Seq(Task) /\ io_rx'[t] = io_rx[t] \o <<task>>
      /\ \A u \in Thread : u # t => io_rx'[u] = io_rx[u]
  BY Sending
<1>2. DOMAIN <<task>> = {1} /\ <<task>>[1] = task
  OBVIOUS
<1> QED BY <1>1, <1>2 DEF Queued

LEMMA Takes ==
  ASSUME TypeOK, NEW t \in Thread, Receiving(t), Take(t)
  PROVE  \A u \in Thread : Queued(u)
  BY Taking DEF Queued

----------------------------------------------------------------------------
(* Steps that move no handle. *)

Same(w) ==
  /\ ctx'[w].parent = ctx[w].parent
  /\ ctx'[w].bridge = "none" <=> ctx[w].bridge = "none"
  /\ ctx'[w].port_released = ctx[w].port_released
  /\ ctx'[w].port_closed = ctx[w].port_closed
  /\ ctx'[w].port_close_emitted = ctx[w].port_close_emitted

LEMMA Plain ==
  ASSUME IInv, TypeOK', \A w \in Worker : Same(w),
         \A w \in Worker : life[w] # "unborn" => life'[w] # "unborn",
         \A t \in Thread : Queued(t),
         \A t \in Thread : running'[t].is = "exit" => running'[t].of \in Workers(t),
         UNCHANGED <<open_handles, WORKERS>>
  PROVE  IInv'
<1>1. \A w \in Worker : (Holding(w)' <=> Holding(w)) /\ (Closing(w)' <=> Closing(w))
  BY DEF Same, Holding, Closing
<1>2. \A t \in Thread : Workers(t)' = Workers(t)
  BY DEF Same, Workers, IInv, TypeOK
<1>3. \A t \in Thread : HandlesHeld(t)' = HandlesHeld(t)
  BY <1>1, <1>2 DEF HandlesHeld, PortHandles, Thread
<1>4. HandlesCounted'
  BY <1>3 DEF HandlesCounted, IInv
<1>5. Ports'
  <2>1. ASSUME NEW w \in Worker PROVE ClosesOnce(io_rx'[w], Closing(w)')
    <3>1. ClosesOnce(io_rx'[w], Closing(w))
      BY QueueStep DEF Thread, IInv, Ports, Port
    <3> QED BY <1>1, <3>1 DEF ClosesOnce
  <2>2. ASSUME NEW w \in Worker
        PROVE  /\ ctx'[w].bridge = "none" => ~ctx'[w].port_released
               /\ ctx'[w].port_close_emitted => ctx'[w].port_closed
    BY DEF Same, IInv, Ports, Port
  <2> QED BY <2>1, <2>2 DEF Ports, Port
<1>6. FromChildren'
  <2>1. ASSUME NEW t \in Thread, NEW i \in DOMAIN io_rx'[t] PROVE FromChild(t, io_rx[t][i])'
    <3>1. FromChild(t, io_rx'[t][i])
      BY QueueStep
    <3> QED BY <3>1 DEF FromChild, Same
  <2> QED BY <2>1 DEF FromChildren
<1>7. Registered' /\ Dispatched'
  BY <1>2 DEF Registered, Dispatched, IInv, TypeOK
<1> QED BY <1>4, <1>5, <1>6, <1>7 DEF IInv

(* A thread that sends nothing more than a task of its own. *)
LEMMA OwnSends ==
  ASSUME TypeOK, NEW t \in Thread, NEW k \in {"deliver", "release", "wake"}, NEW n \in Nat,
         Send(t, Own(k, n))
  PROVE  \A u \in Thread : Queued(u)
<1>1. Own(k, n) \in Task /\ Own(k, n).kind = k
  BY TaskTypes DEF Own
<1>2. FromChild(t, Own(k, n))
  BY <1>1 DEF FromChild, MainEvents
<1> QED BY <1>1, <1>2, Sends

(* A worker that is not unborn tells its parent something. *)
LEMMA EventSends ==
  ASSUME TypeOK, NEW w \in Worker, life[w] # "unborn", NEW k \in MainEvents, NEW n \in Nat,
         Send(ctx[w].parent, Event(k, w, n))
  PROVE  \A u \in Thread : Queued(u)
<1>1. w \in Thread /\ ctx[w].parent \in Thread
  BY CtxTypes
<1>2. Event(k, w, n) \in Task /\ Event(k, w, n).kind # "close"
  BY <1>1, TaskTypes DEF Event, MainEvents
<1>3. FromChild(ctx[w].parent, Event(k, w, n))
  BY DEF FromChild, Event
<1> QED BY <1>1, <1>2, <1>3, Sends

(* A stack changes, and not to dispatch an exit event. *)
LEMMA Stacks ==
  ASSUME TypeOK, Dispatched,
         \/ running' = running
         \/ \E t \in Thread, is \in {"nothing", "task", "leaving", "exiting"} :
              running' = [running EXCEPT ![t] = Do(is)]
  PROVE  \A u \in Thread : running'[u].is = "exit" => running'[u].of \in Workers(u)
<1>1. running \in [Thread -> Activation]
  BY DEF TypeOK
<1>2. \A is \in {"nothing", "task", "leaving", "exiting"} : Do(is).is # "exit"
  BY DEF Do
<1> HIDE DEF Do
<1> QED BY <1>1, <1>2 DEF Dispatched

----------------------------------------------------------------------------
(* The calls of a program that move no handle. *)
LEMMA PlainCalls ==
  ASSUME IInv, TypeOK', NEW t \in Thread, NEW w \in Worker,
         PostToWorker(t, w) \/ TerminateWorker(t, w) \/ PostToParent(w)
  PROVE  IInv'
<1>1. TypeOK /\ Dispatched /\ w \in Thread
  BY CtxTypes DEF IInv
<1>2. CASE PostToWorker(t, w) \/ TerminateWorker(t, w)
  <2>1. UNCHANGED <<life, running, open_handles, io_rx, ctx, WORKERS>>
    BY <1>2 DEF PostToWorker, TerminateWorker, worker_call
  <2>2. /\ \A v \in Worker : Same(v)
        /\ \A u \in Thread : Queued(u)
    BY <2>1 DEF Same, Queued
  <2> QED BY <1>1, <2>1, <2>2, Plain DEF Dispatched
<1>3. CASE PostToParent(w)
  <2>1. UNCHANGED <<life, running, open_handles, ctx, WORKERS>> /\ life[w] # "unborn"
    BY <1>3 DEF PostToParent, Js
  <2>2. posted[w] + 1 \in Nat /\ "message" \in MainEvents
    <3>1. posted \in [Worker -> Nat]
      BY <1>1 DEF TypeOK
    <3> QED BY <3>1 DEF MainEvents
  <2>3. \A u \in Thread : Queued(u)
    BY <1>1, <1>3, <2>1, <2>2, EventSends DEF PostToParent
  <2>4. \A v \in Worker : Same(v)
    BY <2>1 DEF Same
  <2> QED BY <1>1, <2>1, <2>3, <2>4, Plain DEF Dispatched
<1> QED BY <1>2, <1>3

LEMMA PlainExits ==
  ASSUME IInv, TypeOK', NEW w \in Worker, NEW c \in Code, SetExitCode(w, c) \/ ProcessExit(w, c)
  PROVE  IInv'
<1>1. TypeOK /\ Dispatched /\ w \in Thread /\ ctx \in [Worker -> Context]
  BY CtxTypes DEF IInv
<1>2. /\ UNCHANGED <<life, open_handles, io_rx, WORKERS>>
      /\ running' = running \/ running' = [running EXCEPT ![w] = Do("exiting")]
  BY DEF SetExitCode, ProcessExit
<1>3. \A u \in Thread : Queued(u)
  BY <1>2 DEF Queued
<1>4. \A u \in Thread : running'[u].is = "exit" => running'[u].of \in Workers(u)
  BY <1>1, <1>2, Stacks
<1>5. \A v \in Worker : Same(v)
  <2>1. \/ ctx' = [ctx EXCEPT ![w].exit_code = c]
        \/ ctx' = [ctx EXCEPT ![w].exit_code = c, ![w].exiting = TRUE]
    BY DEF SetExitCode, ProcessExit
  <2> QED BY <1>1, <2>1 DEF Same, Context
<1> QED BY <1>1, <1>2, <1>3, <1>4, <1>5, Plain

LEMMA PlainEnd ==
  ASSUME IInv, TypeOK', NEW w \in Worker, NEW how \in {"left", "dead"}, life[w] # "unborn",
         End(w, how), \A v \in Worker : Same(v)
  PROVE  IInv'
<1>1. TypeOK /\ Dispatched /\ w \in Thread /\ ctx' \in [Worker -> Context]
  BY CtxTypes DEF IInv, TypeOK, Context
<1>2. (IF ctx'[w].exit_code = None THEN 0 ELSE ctx'[w].exit_code) \in Nat
  BY <1>1 DEF Context
<1>3. \A u \in Thread : Queued(u)
  <2>1. "exit" \in MainEvents
    BY DEF MainEvents
  <2> QED BY <1>1, <1>2, <2>1, EventSends DEF End
<1>4. \A u \in Thread : running'[u].is = "exit" => running'[u].of \in Workers(u)
  BY <1>1, Stacks DEF End
<1>5. \A v \in Worker : life[v] # "unborn" => life'[v] # "unborn"
  <2>1. life \in [Thread -> {"unborn", "spawned", "on", "left", "dead"}]
        /\ life' = [life EXCEPT ![w] = how]
    BY <1>1 DEF End, TypeOK
  <2> QED BY <2>1
<1> QED BY <1>3, <1>4, <1>5, Plain DEF End

LEMMA PlainFail ==
  ASSUME IInv, TypeOK', NEW w \in Worker, life[w] # "unborn", Fail(w)
  PROVE  IInv'
<1>1. TypeOK /\ Dispatched /\ w \in Thread /\ ctx[w].parent \in Thread
  BY CtxTypes DEF IInv
<1>2. \A u \in Thread : Queued(u)
  <2> DEFINE r == <<Event("error", w, 0), Event("exit", w, 1)>>
  <2>1. r \in Seq(Task)
    BY <1>1, TaskTypes DEF MainEvents
  <2>2. \A i \in DOMAIN r : r[i].kind # "close" /\ FromChild(ctx[w].parent, r[i])
    BY DEF Event, FromChild
  <2> HIDE DEF r
  <2>3. io_rx' = [io_rx EXCEPT ![ctx[w].parent] = io_rx[ctx[w].parent] \o r]
        /\ io_rx \in [Thread -> Seq(Task)]
    BY <1>1 DEF Fail, r, TypeOK
  <2>4. \A u \in Thread : u # ctx[w].parent => io_rx'[u] = io_rx[u]
    BY <2>3
  <2> QED BY <1>1, <2>1, <2>2, <2>3, <2>4 DEF Queued
<1>4. \A u \in Thread : running'[u].is = "exit" => running'[u].of \in Workers(u)
  BY <1>1, Stacks DEF Fail
<1>5. \A v \in Worker : Same(v) /\ (life[v] # "unborn" => life'[v] # "unborn")
  BY <1>1 DEF Fail, Same, TypeOK
<1> QED BY <1>2, <1>4, <1>5, Plain DEF Fail

LEMMA PlainEndProcess ==
  ASSUME IInv, TypeOK', NEW how \in {"left", "dead"}, EndProcess(how)
  PROVE  IInv'
<1>1. TypeOK /\ Dispatched /\ Main \in Thread
  BY DEF IInv, Thread
<1>2. \A u \in Thread : running'[u].is = "exit" => running'[u].of \in Workers(u)
  BY <1>1, Stacks DEF EndProcess
<1>3. /\ \A v \in Worker : Same(v) /\ (life[v] # "unborn" => life'[v] # "unborn")
      /\ \A u \in Thread : Queued(u)
  BY <1>1 DEF EndProcess, Same, Queued, TypeOK
<1> QED BY <1>2, <1>3, Plain DEF EndProcess

(* The ends of a callback that move no handle. *)
LEMMA PlainEnds ==
  ASSUME IInv, TypeOK', NEW t \in Thread,
         \/ Return(t) \/ Throw(t) \/ Leave(t)
         \/ t \in Worker /\ (ExitReturns(t) \/ \E c \in Code : ProcessExitAgain(t, c))
  PROVE  IInv'
<1>1. TypeOK /\ Dispatched
  BY DEF IInv
<1>2. ASSUME running' = [running EXCEPT ![t] = Do("nothing")]
             \/ running' = [running EXCEPT ![t] = Do("leaving")],
             UNCHANGED <<life, open_handles, io_rx, WORKERS>>, \A v \in Worker : Same(v)
      PROVE  IInv'
  <2>1. \A u \in Thread : running'[u].is = "exit" => running'[u].of \in Workers(u)
    BY <1>1, <1>2, Stacks
  <2>2. \A u \in Thread : Queued(u)
    BY <1>2 DEF Queued
  <2> QED BY <1>2, <2>1, <2>2, Plain
<1>3. UNCHANGED ctx => \A v \in Worker : Same(v)
  BY DEF Same
<1>4. CASE Return(t)
  BY <1>2, <1>3, <1>4 DEF Return
<1>5. CASE Throw(t)
  <2>1. CASE EndProcess("dead")
    BY <2>1, PlainEndProcess
  <2>2. CASE t # Main /\ Fail(t)
    BY <1>5, <2>2, PlainFail DEF Throw, Js, Thread
  <2> QED BY <1>2, <1>3, <1>5, <2>1, <2>2 DEF Throw
<1>6. CASE Leave(t)
  <2>1. CASE EndProcess("left")
    BY <2>1, PlainEndProcess
  <2>2. ASSUME t \in Worker, running' = [running EXCEPT ![t] = Do("leaving")],
               ctx' = [ctx EXCEPT ![t].exiting = TRUE],
               UNCHANGED <<life, open_handles, io_rx, WORKERS>>
        PROVE  IInv'
    <3>1. ctx \in [Worker -> Context]
      BY <1>1, <2>2, CtxTypes
    <3>2. \A v \in Worker : Same(v)
      BY <2>2, <3>1 DEF Same, Context
    <3> QED BY <1>2, <2>2, <3>2
  <2>3. CASE t \in Worker /\ Drained(t) /\ UNCHANGED ctx /\ End(t, "left")
    BY <1>3, <2>3, PlainEnd DEF Drained, Looping
  <2> QED BY <1>6, <2>1, <2>2, <2>3 DEF Leave
<1>7. CASE t \in Worker /\ ExitReturns(t)
  BY <1>3, <1>7, PlainEnd DEF ExitReturns, Js
<1>8. ASSUME t \in Worker, NEW c \in Code, ProcessExitAgain(t, c) PROVE IInv'
  <2>1. ctx \in [Worker -> Context]
    BY <1>1, <1>8, CtxTypes
  <2>2. ctx' = [ctx EXCEPT ![t].exit_code = c] /\ life[t] # "unborn" /\ End(t, "dead")
    BY <1>8 DEF ProcessExitAgain, Js
  <2>3. \A v \in Worker : Same(v)
    BY <2>1, <2>2 DEF Same, Context
  <2> QED BY <1>8, <2>2, <2>3, PlainEnd
<1> QED BY <1>4, <1>5, <1>6, <1>7, <1>8

(* The threads, and the tasks that move no handle. *)
LEMMA PlainTasks ==
  ASSUME IInv, TypeOK', NEW t \in Thread,
         \/ RunWork(t) \/ DispatchMain(t) \/ RunWake(t)
         \/ t \in Worker /\ (StartThread(t) \/ Forward(t) \/ ParentDeliver(t))
  PROVE  IInv'
<1>1. TypeOK /\ Dispatched
  BY DEF IInv
<1>2. UNCHANGED ctx => \A v \in Worker : Same(v)
  BY DEF Same
<1>3. Do("task").is # "exit"
  BY DEF Do
<1>4. CASE RunWork(t)
  <2>1. \A u \in Thread : running'[u].is = "exit" => running'[u].of \in Workers(u)
    BY <1>1, <1>4, Stacks DEF RunWork
  <2>2. \A u \in Thread : Queued(u)
    BY <1>4 DEF RunWork, Queued
  <2> QED BY <1>2, <1>4, <2>1, <2>2, Plain DEF RunWork
<1>5. CASE RunWake(t)
  <2>1. \A u \in Thread : Queued(u)
    BY <1>1, <1>5, Takes DEF RunWake
  <2> QED BY <1>1, <1>2, <1>5, <2>1, Plain, Stacks DEF RunWake
<1>6. CASE t \in Worker /\ ParentDeliver(t)
  <2>1. \A u \in Thread : Queued(u)
    BY <1>1, <1>6, Takes DEF ParentDeliver
  <2>2. \A u \in Thread : running'[u].is = "exit" => running'[u].of \in Workers(u)
    BY <1>1, <1>6, Stacks DEF ParentDeliver
  <2> QED BY <1>2, <1>6, <2>1, <2>2, Plain DEF ParentDeliver
<1>7. CASE DispatchMain(t)
  <2> DEFINE task == Head(io_rx[t])
  <2>1. \A u \in Thread : Queued(u)
    BY <1>1, <1>7, Takes DEF DispatchMain
  <2>2. Receiving(t) /\ task.kind \in MainEvents
    BY <1>7 DEF DispatchMain
  <2>3. FromChild(t, task)
    <3>1. PICK q \in Seq(Task) : q = io_rx[t]
      BY <1>1 DEF TypeOK
    <3>2. q # <<>>
      BY <2>2, <3>1 DEF Receiving
    <3>3. 1 \in DOMAIN q /\ Head(q) = q[1]
      BY <3>2, HeadTailProperties, LenProperties, EmptySeq
    <3> QED BY <3>1, <3>3 DEF IInv, FromChildren
  <2>4. \A u \in Thread : running'[u].is = "exit" => running'[u].of \in Workers(u)
    <3>1. CASE running' = running
      BY <1>1, <3>1, Stacks
    <3>2. ASSUME NEW a \in Activation, a.of = task.from, task.from \in WORKERS,
                 running' = [running EXCEPT ![t] = a]
          PROVE  \A u \in Thread : running'[u].is = "exit" => running'[u].of \in Workers(u)
      <4>1. a.of \in Workers(t) /\ running \in [Thread -> Activation]
        BY <1>1, <2>2, <2>3, <3>2 DEF FromChild, Workers, TypeOK
      <4> QED BY <1>1, <3>2, <4>1 DEF Dispatched
    <3>3. \/ running' = running
          \/ \E is \in {"task", "exit"} :
               /\ task.from \in WORKERS
               /\ running' = [running EXCEPT ![t] = [is |-> is, of |-> task.from]]
      BY <1>7 DEF DispatchMain
    <3>4. \A is \in {"task", "exit"} :
            /\ task.from \in WORKERS => [is |-> is, of |-> task.from] \in Activation
            /\ [is |-> is, of |-> task.from].of = task.from
      BY <1>1 DEF TypeOK, Activation, Thread
    <3> HIDE DEF task
    <3> QED BY <3>1, <3>2, <3>3, <3>4
  <2> QED BY <1>2, <1>7, <2>1, <2>4, Plain DEF DispatchMain
<1>8. CASE t \in Worker /\ StartThread(t)
  <2>1. \A u \in Thread : Queued(u)
    <3>1. life[t] # "unborn" /\ "online" \in MainEvents
      BY <1>8 DEF StartThread, MainEvents
    <3> QED BY <1>1, <1>8, <3>1, EventSends DEF StartThread
  <2>2. \A u \in Thread : running'[u].is = "exit" => running'[u].of \in Workers(u)
    BY <1>1, <1>8, Stacks DEF StartThread
  <2>3. \A v \in Worker : life[v] # "unborn" => life'[v] # "unborn"
    <3>1. life \in [Thread -> {"unborn", "spawned", "on", "left", "dead"}]
          /\ life' = [life EXCEPT ![t] = "on"]
      BY <1>1, <1>8 DEF StartThread, TypeOK
    <3> QED BY <3>1
  <2> QED BY <1>2, <1>8, <2>1, <2>2, <2>3, Plain DEF StartThread
<1>9. CASE t \in Worker /\ Forward(t)
  <2>1. /\ to_worker[t] \in Seq(Nat) /\ to_worker[t] # <<>> /\ ctx[t].bridge = "on"
        /\ ctx \in [Worker -> Context]
    BY <1>1, <1>9, CtxTypes DEF Forward, TypeOK
  <2>2. Head(to_worker[t]) \in Nat
    BY <2>1, HeadTailProperties
  <2>3. \A u \in Thread : Queued(u)
    BY <1>1, <1>9, <2>2, OwnSends DEF Forward
  <2>4. \A v \in Worker : Same(v)
    <3>1. ctx' = ctx \/ ctx' = [ctx EXCEPT ![t].bridge = "off"]
      BY <1>9 DEF Forward
    <3> QED BY <2>1, <3>1 DEF Same, Context
  <2> QED BY <1>1, <1>9, <2>3, <2>4, Plain, Stacks DEF Forward
<1> QED BY <1>4, <1>5, <1>6, <1>7, <1>8, <1>9

----------------------------------------------------------------------------
(* A worker comes and goes. *)

LEMMA WorkersFinite == TypeOK => \A t \in Thread : IsFiniteSet(Workers(t)) /\ HandlesHeld(t) \in Nat
<1> SUFFICES ASSUME TypeOK, NEW t \in Thread PROVE IsFiniteSet(Workers(t)) /\ HandlesHeld(t) \in Nat
  OBVIOUS
<1>1. Workers(t) \subseteq Worker /\ IsFiniteSet(Worker)
  BY WorkersAssumption DEF Workers, TypeOK
<1>2. IsFiniteSet(Workers(t)) /\ Cardinality(Workers(t)) \in Nat
  BY <1>1, FS_Subset, FS_CardinalityType
<1> QED BY <1>2 DEF HandlesHeld, PortHandles

LEMMA Constructed ==
  ASSUME IInv, TypeOK', NEW t \in Thread, NEW w \in Worker, construct_worker(t, w)
  PROVE  IInv'
<1>1. /\ ctx \in [Worker -> Context] /\ ctx' = [ctx EXCEPT ![w].parent = t]
      /\ life \in [Thread -> {"unborn", "spawned", "on", "left", "dead"}]
      /\ life' = [life EXCEPT ![w] = "spawned"] /\ life[w] = "unborn"
      /\ WORKERS' = WORKERS \cup {w} /\ WORKERS \subseteq Worker /\ w \in Thread
      /\ open_handles \in [Thread -> Nat]
      /\ open_handles' = [open_handles EXCEPT ![t] = open_handles[t] + 1]
      /\ io_rx' = io_rx /\ running' = running
  BY CtxTypes DEF construct_worker, incr_handle, IInv, TypeOK
<1>2. w \notin WORKERS
  BY <1>1 DEF IInv, Registered
<1>3. /\ \A v \in Worker : v # w => ctx'[v] = ctx[v]
      /\ ctx'[w].parent = t
      /\ ctx'[w].bridge = ctx[w].bridge /\ ctx'[w].port_released = ctx[w].port_released
      /\ ctx'[w].port_closed = ctx[w].port_closed
      /\ ctx'[w].port_close_emitted = ctx[w].port_close_emitted
  BY <1>1 DEF Context
<1>4. \A v \in Worker : (Holding(v)' <=> Holding(v)) /\ (Closing(v)' <=> Closing(v))
  BY <1>3 DEF Holding, Closing
<1>5. \A u \in Thread : Workers(u)' = IF u = t THEN Workers(u) \cup {w} ELSE Workers(u)
  BY <1>1, <1>2, <1>3 DEF Workers
<1>6. HandlesCounted'
  <2>1. ASSUME NEW u \in Thread PROVE open_handles'[u] = HandlesHeld(u)'
    <3>1. PortHandles(u)' = PortHandles(u) /\ open_handles[u] = HandlesHeld(u)
      BY <1>4 DEF PortHandles, Thread, IInv, HandlesCounted
    <3>2. IsFiniteSet(Workers(u)) /\ w \notin Workers(u)
      BY <1>2, WorkersFinite DEF IInv, Workers
    <3>3. Cardinality(Workers(u))' = Cardinality(Workers(u)) + IF u = t THEN 1 ELSE 0
      BY <1>5, <3>2, FS_AddElement, FS_CardinalityType
    <3>4. Cardinality(Workers(u)) \in Nat /\ PortHandles(u) \in Nat
      BY <3>2, FS_CardinalityType DEF PortHandles
    <3> QED BY <1>1, <3>1, <3>3, <3>4 DEF HandlesHeld
  <2> QED BY <2>1 DEF HandlesCounted
<1>7. Ports'
  BY <1>1, <1>3, <1>4 DEF Ports, Port, ClosesOnce, IInv
<1>8. FromChildren'
  BY <1>1, <1>3 DEF FromChildren, FromChild, IInv
<1>9. Registered' /\ Dispatched'
  BY <1>1, <1>5 DEF Registered, Dispatched, IInv
<1> QED BY <1>6, <1>7, <1>8, <1>9 DEF IInv

LEMMA Dispatches ==
  ASSUME IInv, TypeOK', NEW t \in Thread, ExitDispatched(t)
  PROVE  IInv'
<1> DEFINE w == running[t].of
<1>1. /\ UNCHANGED <<ctx, life>> /\ WORKERS' = WORKERS \ {w} /\ WORKERS \subseteq Worker
      /\ running \in [Thread -> Activation] /\ running' = [running EXCEPT ![t] = Do("nothing")]
      /\ open_handles \in [Thread -> Nat]
      /\ open_handles' = [open_handles EXCEPT ![t] = decr_handle(open_handles[t])]
      /\ Send(t, Own("wake", 0)) /\ TypeOK
  BY DEF ExitDispatched, IInv, TypeOK
<1>2. w \in WORKERS /\ ctx[w].parent = t /\ w \in Workers(t)
  BY DEF ExitDispatched, IInv, Dispatched, Workers
<1> HIDE DEF w
<1>3. \A u \in Thread : Workers(u)' = IF u = t THEN Workers(u) \ {w} ELSE Workers(u)
  BY <1>1, <1>2 DEF Workers
<1>4. \A v \in Worker : (Holding(v)' <=> Holding(v)) /\ (Closing(v)' <=> Closing(v))
  BY <1>1 DEF Holding, Closing
<1>5. HandlesCounted'
  <2>1. ASSUME NEW u \in Thread PROVE open_handles'[u] = HandlesHeld(u)'
    <3>1. PortHandles(u)' = PortHandles(u) /\ open_handles[u] = HandlesHeld(u)
      BY <1>4 DEF PortHandles, Thread, IInv, HandlesCounted
    <3>2. IsFiniteSet(Workers(u)) /\ Cardinality(Workers(u)) \in Nat
      BY <1>1, WorkersFinite, FS_CardinalityType
    <3>3. PortHandles(u) \in Nat
      BY DEF PortHandles
    <3>4. CASE u # t
      BY <1>1, <1>3, <3>1, <3>4 DEF HandlesHeld
    <3>5. CASE u = t
      <4>1. Cardinality(Workers(u) \ {w}) = Cardinality(Workers(u)) - 1
        BY <1>2, <3>2, <3>5, FS_RemoveElement
      <4>2. IsFiniteSet(Workers(u) \ {w})
        BY <3>2, FS_Subset
      <4>3. Cardinality(Workers(u) \ {w}) \in Nat
        BY <4>2, FS_CardinalityType
      <4>4. HandlesHeld(u)' = Cardinality(Workers(u)) - 1 + PortHandles(u)
        BY <1>3, <3>1, <3>5, <4>1 DEF HandlesHeld
      <4> QED BY <1>1, <3>1, <3>2, <3>3, <3>5, <4>1, <4>3, <4>4 DEF HandlesHeld, decr_handle
    <3> QED BY <3>4, <3>5
  <2> QED BY <2>1 DEF HandlesCounted
<1>6. \A u \in Thread : Queued(u)
  BY <1>1, OwnSends
<1>7. Ports'
  <2>1. ASSUME NEW v \in Worker PROVE Port(v)'
    <3>1. ClosesOnce(io_rx'[v], Closing(v))
      BY <1>6, QueueStep DEF Thread, IInv, Ports, Port
    <3> QED BY <1>1, <1>4, <3>1 DEF IInv, Ports, Port, ClosesOnce
  <2> QED BY <2>1 DEF Ports
<1>8. FromChildren'
  BY <1>1, <1>6, QueueStep DEF FromChildren, FromChild
<1>9. Registered' /\ Dispatched'
  <2>1. Do("nothing").is # "exit"
    BY DEF Do
  <2> HIDE DEF Do
  <2> QED BY <1>1, <1>3, <2>1 DEF Registered, Dispatched, IInv
<1> QED BY <1>5, <1>7, <1>8, <1>9 DEF IInv

----------------------------------------------------------------------------
(* What changes only the port of one worker and the handles that go with it. *)

LEMMA PortStep ==
  ASSUME IInv, TypeOK', NEW w \in Worker, UNCHANGED <<life, WORKERS>>, Port(w)',
         \A v \in Worker : ctx'[v].parent = ctx[v].parent,
         \A v \in Worker : v # w => ctx'[v] = ctx[v],
         \A t \in Thread : t # w => io_rx'[t] = io_rx[t] /\ open_handles'[t] = open_handles[t],
         \A i \in DOMAIN io_rx'[w] : FromChild(w, io_rx'[w][i]),
         \A t \in Thread : running'[t].is = "exit" => running'[t].of \in Workers(t),
         open_handles'[w] - open_handles[w] = PortHandles(w)' - PortHandles(w)
  PROVE  IInv'
<1>1. w \in Thread /\ w # Main /\ TypeOK
  BY WorkersAssumption DEF Thread, IInv
<1>2. \A t \in Thread : Workers(t)' = Workers(t)
  <2>1. WORKERS' = WORKERS /\ WORKERS \subseteq Worker
    BY <1>1 DEF TypeOK
  <2> QED BY <2>1 DEF Workers
<1>3. HandlesCounted'
  <2>1. ASSUME NEW t \in Thread PROVE open_handles'[t] = HandlesHeld(t)'
    <3>1. /\ open_handles[t] = Cardinality(Workers(t)) + PortHandles(t)
          /\ HandlesHeld(t)' = Cardinality(Workers(t)) + PortHandles(t)'
      BY <1>2 DEF IInv, HandlesCounted, HandlesHeld
    <3>2. PortHandles(t) \in Nat /\ PortHandles(t)' \in Nat /\ Cardinality(Workers(t)) \in Nat
      BY <1>1, WorkersFinite, FS_CardinalityType DEF PortHandles
    <3>3. open_handles[t] \in Nat /\ open_handles'[t] \in Nat
      BY <1>1 DEF TypeOK
    <3>4. t # w => PortHandles(t)' = PortHandles(t)
      BY DEF PortHandles, Holding, Closing, Thread
    <3> QED BY <3>1, <3>2, <3>3, <3>4
  <2> QED BY <2>1 DEF HandlesCounted
<1>4. Ports'
  <2>1. ASSUME NEW v \in Worker, v # w PROVE Port(v)'
    <3>1. ctx'[v] = ctx[v] /\ io_rx'[v] = io_rx[v]
      BY <2>1 DEF Thread
    <3> QED BY <3>1 DEF IInv, Ports, Port, Closing
  <2> QED BY <2>1 DEF Ports
<1>5. FromChildren'
  <2>1. ASSUME NEW t \in Thread, NEW i \in DOMAIN io_rx'[t] PROVE FromChild(t, io_rx[t][i])'
    <3>1. FromChild(t, io_rx'[t][i])
      BY DEF IInv, FromChildren
    <3> QED BY <3>1 DEF FromChild
  <2> QED BY <2>1 DEF FromChildren
<1>6. Registered' /\ Dispatched'
  BY <1>2 DEF Registered, Dispatched, IInv
<1> QED BY <1>3, <1>4, <1>5, <1>6 DEF IInv

(* The facts about one port that its steps start from. *)
LEMMA PortFacts ==
  ASSUME IInv, NEW w \in Worker
  PROVE  /\ TypeOK /\ Dispatched /\ w \in Thread /\ w # Main /\ Port(w)
         /\ ctx \in [Worker -> Context] /\ ctx[w] \in Context
         /\ open_handles \in [Thread -> Nat] /\ open_handles[w] \in Nat
         /\ open_handles[w] >= PortHandles(w)
         /\ PortHandles(w) = (IF Holding(w) THEN 1 ELSE 0) + (IF Closing(w) THEN 1 ELSE 0)
         /\ \A i \in DOMAIN io_rx[w] : FromChild(w, io_rx[w][i])
<1>1. TypeOK /\ w \in Thread /\ w # Main /\ ctx[w] \in Context /\ ctx \in [Worker -> Context]
  BY CtxTypes, WorkersAssumption DEF IInv
<1>2. open_handles[w] = Cardinality(Workers(w)) + PortHandles(w) /\ Cardinality(Workers(w)) \in Nat
  BY <1>1, WorkersFinite, FS_CardinalityType DEF IInv, HandlesCounted, HandlesHeld
<1>3. PortHandles(w) = (IF Holding(w) THEN 1 ELSE 0) + (IF Closing(w) THEN 1 ELSE 0)
  BY <1>1 DEF PortHandles
<1>4. open_handles \in [Thread -> Nat]
  BY <1>1 DEF TypeOK
<1> QED BY <1>1, <1>2, <1>3, <1>4 DEF IInv, Ports, FromChildren

LEMMA Started ==
  ASSUME IInv, TypeOK', NEW w \in Worker, start_parent_bridge(w)
  PROVE  IInv'
<1>1. /\ UNCHANGED <<life, running, io_rx, WORKERS>>
      /\ ctx' = [ctx EXCEPT ![w].bridge = "on"] /\ ctx[w].bridge = "none"
      /\ open_handles' = [open_handles EXCEPT ![w] = open_handles[w] + 1]
  BY DEF start_parent_bridge, incr_handle
<1>2. /\ \A v \in Worker : ctx'[v].parent = ctx[v].parent /\ (v # w => ctx'[v] = ctx[v])
      /\ ctx'[w].bridge = "on"
      /\ ctx'[w].port_released = ctx[w].port_released
      /\ ctx'[w].port_closed = ctx[w].port_closed
      /\ ctx'[w].port_close_emitted = ctx[w].port_close_emitted
  BY <1>1, PortFacts DEF Context
<1>3. ~Holding(w) /\ Holding(w)' /\ (Closing(w)' <=> Closing(w))
  BY <1>1, <1>2, PortFacts DEF Holding, Closing, Port
<1>4. Port(w)'
  BY <1>1, <1>2, <1>3, PortFacts DEF Port, ClosesOnce
<1>5. open_handles'[w] - open_handles[w] = PortHandles(w)' - PortHandles(w)
  <2>1. open_handles'[w] = open_handles[w] + 1 /\ open_handles[w] \in Nat
    BY <1>1, PortFacts
  <2>2. PortHandles(w)' = 1 + IF Closing(w) THEN 1 ELSE 0
    BY <1>3, PortFacts DEF PortHandles
  <2>3. PortHandles(w) = 0 + IF Closing(w) THEN 1 ELSE 0
    BY <1>3, PortFacts
  <2> QED BY <2>1, <2>2, <2>3
<1> QED BY <1>1, <1>2, <1>4, <1>5, PortFacts, PortStep DEF Dispatched

LEMMA Closed ==
  ASSUME IInv, TypeOK', NEW w \in Worker, close_parent_port(w)
  PROVE  IInv'
<1> DEFINE task == Own("close", 0)
<1>1. /\ UNCHANGED <<life, running, WORKERS>>
      /\ ctx' = [ctx EXCEPT ![w].port_closed = TRUE] /\ ~ctx[w].port_closed
      /\ open_handles' = [open_handles EXCEPT ![w] = open_handles[w] + 1]
      /\ Send(w, task)
  BY DEF close_parent_port, incr_handle
<1>2. /\ \A v \in Worker : ctx'[v].parent = ctx[v].parent /\ (v # w => ctx'[v] = ctx[v])
      /\ ctx'[w].bridge = ctx[w].bridge
      /\ ctx'[w].port_released = ctx[w].port_released
      /\ ctx'[w].port_closed
      /\ ctx'[w].port_close_emitted = ctx[w].port_close_emitted
  BY <1>1, PortFacts DEF Context
<1>3. (Holding(w)' <=> Holding(w)) /\ ~Closing(w) /\ Closing(w)'
  BY <1>1, <1>2, PortFacts DEF Holding, Closing, Port
<1>4. task \in Task /\ task.kind = "close" /\ FromChild(w, task)
  BY TaskTypes DEF Own, FromChild, MainEvents
<1> HIDE DEF task
<1>5. PICK q \in Seq(Task) : q = io_rx[w] /\ io_rx'[w] = Append(q, task)
  BY <1>1, PortFacts DEF Send, TypeOK
<1>6. \A t \in Thread : t # w => io_rx'[t] = io_rx[t]
  BY <1>1, <1>4, PortFacts, Sending
<1>7. Port(w)'
  <2>1. /\ Len(q) \in Nat /\ DOMAIN q = 1 .. Len(q) /\ DOMAIN Append(q, task) = 1 .. Len(q) + 1
        /\ \A i \in 1 .. Len(q) : Append(q, task)[i] = q[i]
    BY <1>4, LenProperties, AppendProperties
  <2>2. \A i \in DOMAIN q : q[i].kind # "close"
    BY <1>3, <1>5, PortFacts DEF Port, ClosesOnce
  <2>3. ClosesOnce(io_rx'[w], Closing(w)')
    BY <1>3, <1>5, <2>1, <2>2 DEF ClosesOnce
  <2> QED BY <1>2, <2>3, PortFacts DEF Port
<1>8. \A i \in DOMAIN io_rx'[w] : FromChild(w, io_rx'[w][i])
  <2>1. /\ Len(q) \in Nat /\ DOMAIN q = 1 .. Len(q) /\ DOMAIN Append(q, task) = 1 .. Len(q) + 1
        /\ \A i \in 1 .. Len(q) : Append(q, task)[i] = q[i]
        /\ Append(q, task)[Len(q) + 1] = task
    BY <1>4, LenProperties, AppendProperties
  <2>2. \A i \in 1 .. Len(q) : FromChild(w, q[i])
    BY <1>5, <2>1, PortFacts
  <2>3. \A i \in 1 .. Len(q) + 1 : i \in 1 .. Len(q) \/ i = Len(q) + 1
    BY <2>1
  <2> QED BY <1>4, <1>5, <2>1, <2>2, <2>3
<1>9. open_handles'[w] - open_handles[w] = PortHandles(w)' - PortHandles(w)
  <2>1. open_handles'[w] = open_handles[w] + 1 /\ open_handles[w] \in Nat
    BY <1>1, PortFacts
  <2>2. PortHandles(w)' = 1 + IF Holding(w) THEN 1 ELSE 0
    BY <1>3, PortFacts DEF PortHandles
  <2>3. PortHandles(w) = 0 + IF Holding(w) THEN 1 ELSE 0
    BY <1>3, PortFacts
  <2> QED BY <2>1, <2>2, <2>3
<1> QED BY <1>1, <1>2, <1>6, <1>7, <1>8, <1>9, PortFacts, PortStep DEF Dispatched

LEMMA Released ==
  ASSUME IInv, TypeOK', NEW w \in Worker, RunRelease(w) \/ RunClose(w)
  PROVE  IInv'
<1> DEFINE closes == RunClose(w)
           left == release_parent_port(w, open_handles[w])
<1>1. /\ UNCHANGED <<life, WORKERS>> /\ Receiving(w) /\ Take(w)
      /\ running' = running \/ running' = [running EXCEPT ![w] = Do("task")]
  BY DEF RunRelease, RunClose
<1>2. /\ \A v \in Worker : ctx'[v].parent = ctx[v].parent /\ (v # w => ctx'[v] = ctx[v])
      /\ ctx'[w].bridge = ctx[w].bridge
      /\ ctx'[w].port_released = (ctx[w].port_released \/ ctx[w].bridge # "none")
      /\ ctx'[w].port_closed = ctx[w].port_closed
      /\ ctx'[w].port_close_emitted = IF closes THEN TRUE ELSE ctx[w].port_close_emitted
  <2>1. \/ /\ ~closes
           /\ ctx' = [ctx EXCEPT ![w].port_released = ctx[w].port_released \/ ctx[w].bridge # "none"]
        \/ /\ closes
           /\ ctx' = [ctx EXCEPT ![w].port_close_emitted = TRUE,
                                 ![w].port_released = ctx[w].port_released \/ ctx[w].bridge # "none"]
    BY DEF RunRelease, RunClose
  <2> DEFINE b == ctx[w].port_released \/ ctx[w].bridge # "none"
  <2>2. ctx \in [Worker -> Context]
    BY PortFacts
  <2> HIDE DEF closes, b
  <2>3. CASE ~closes /\ ctx' = [ctx EXCEPT ![w].port_released = b]
    BY <2>2, <2>3 DEF Context, b
  <2>4. CASE closes /\ ctx' = [ctx EXCEPT ![w].port_close_emitted = TRUE, ![w].port_released = b]
    BY <2>2, <2>4 DEF Context, b
  <2> QED BY <2>1, <2>3, <2>4 DEF b
<1>3. PICK q \in Seq(Task) : q = io_rx[w] /\ q # <<>> /\ io_rx'[w] = Tail(q)
  BY <1>1, PortFacts, Taking DEF TypeOK
<1>4. closes <=> Head(q).kind = "close"
  <2>1. Head(q) \in Task
    BY <1>3, HeadTailProperties
  <2>2. Head(q).kind = IF closes THEN "close" ELSE "release"
    BY <1>3 DEF RunRelease, RunClose
  <2> QED BY <2>1, <2>2
<1>5. open_handles' = [open_handles EXCEPT ![w] = IF closes THEN decr_handle(left) ELSE left]
  <2>1. Head(io_rx[w]).kind = "close" => closes
    BY DEF RunRelease, RunClose
  <2> QED BY <2>1 DEF RunRelease, RunClose
<1> HIDE DEF closes, left
<1>6. \A u \in Thread : Queued(u)
  BY <1>1, PortFacts, Takes
<1>7. /\ closes => Closing(w)
      /\ ClosesOnce(io_rx'[w], Closing(w) /\ ~closes)
  <2>1. /\ 1 \in DOMAIN q /\ Head(q) = q[1]
        /\ \A i \in DOMAIN Tail(q) : i \in Nat \ {0} /\ i + 1 \in DOMAIN q /\ Tail(q)[i] = q[i + 1]
    BY <1>3, HeadTailProperties, LenProperties, EmptySeq
  <2>2. ClosesOnce(q, Closing(w))
    BY <1>3, PortFacts DEF Port
  <2>3. \A i \in Nat \ {0} : i + 1 # 1
    OBVIOUS
  <2> QED BY <1>3, <1>4, <2>1, <2>2, <2>3 DEF ClosesOnce
<1>8. /\ ~Holding(w)' /\ (closes => Closing(w) /\ ~Closing(w)')
      /\ ~closes => (Closing(w)' <=> Closing(w))
  <2>1. closes => Closing(w)
    BY <1>7
  <2> QED BY <1>2, <2>1 DEF Holding, Closing
<1>9. Port(w)'
  <2>1. ClosesOnce(io_rx'[w], Closing(w)')
    BY <1>7, <1>8 DEF ClosesOnce
  <2>2. closes => ctx[w].port_closed
    BY <1>8 DEF Closing
  <2> QED BY <1>2, <2>1, <2>2, PortFacts DEF Port
<1>10. open_handles'[w] - open_handles[w] = PortHandles(w)' - PortHandles(w)
  <2>1. open_handles'[w] = (IF closes THEN decr_handle(left) ELSE left) /\ open_handles[w] \in Nat
    BY <1>5, PortFacts
  <2>2. PortHandles(w)' = IF Closing(w) /\ ~closes THEN 1 ELSE 0
    BY <1>8, PortFacts DEF PortHandles
  <2>3. /\ open_handles[w] >= PortHandles(w)
        /\ PortHandles(w) = (IF Holding(w) THEN 1 ELSE 0) + (IF Closing(w) THEN 1 ELSE 0)
    BY PortFacts
  <2>4. left = IF Holding(w) THEN open_handles[w] - 1 ELSE open_handles[w]
    BY <2>1, <2>3 DEF left, release_parent_port, decr_handle
  <2> QED BY <1>8, <2>1, <2>2, <2>3, <2>4 DEF decr_handle
<1>11. \A t \in Thread : t # w => io_rx'[t] = io_rx[t] /\ open_handles'[t] = open_handles[t]
  BY <1>1, <1>5, PortFacts, Taking
<1>12. \A i \in DOMAIN io_rx'[w] : FromChild(w, io_rx'[w][i])
  BY <1>6, PortFacts, QueueStep
<1>13. \A t \in Thread : running'[t].is = "exit" => running'[t].of \in Workers(t)
  BY <1>1, PortFacts, Stacks
<1> QED BY <1>1, <1>2, <1>9, <1>10, <1>11, <1>12, <1>13, PortStep

----------------------------------------------------------------------------
(* The theorem. *)

LEMMA InvInit == Init => IInv
<1> SUFFICES ASSUME Init PROVE IInv
  OBVIOUS
<1>1. TypeOK
  BY TypeInit
<1>2. \A t \in Thread : io_rx[t] = <<>>
  BY DEF Init
<1>3. Ports
  <2>1. \A w \in Worker : ClosesOnce(io_rx[w], Closing(w))
    BY <1>2 DEF Thread, ClosesOnce
  <2> QED BY <2>1 DEF Init, Ports, Port
<1>4. FromChildren
  BY <1>2 DEF FromChildren
<1>5. Registered /\ Dispatched
  BY DEF Init, Registered, Dispatched, Do
<1>6. HandlesCounted
  <2>1. ASSUME NEW t \in Thread PROVE open_handles[t] = HandlesHeld(t)
    <3>1. Workers(t) = {}
      BY DEF Init, Workers
    <3>2. PortHandles(t) = 0
      BY DEF Init, PortHandles, Holding, Closing, Thread
    <3> QED BY <3>1, <3>2, FS_EmptySet DEF Init, HandlesHeld
  <2> QED BY <2>1 DEF HandlesCounted
<1> QED BY <1>1, <1>3, <1>4, <1>5, <1>6 DEF IInv

LEMMA InvStep == IInv /\ [Next]_vars => IInv'
<1> SUFFICES ASSUME IInv, [Next]_vars PROVE IInv'
  OBVIOUS
<1>1. TypeOK'
  BY TypeStep DEF IInv
<1>2. CASE UNCHANGED vars
  BY <1>2 DEF vars, IInv, TypeOK, Ports, Port, FromChildren, FromChild, Registered, Dispatched,
     HandlesCounted, HandlesHeld, PortHandles, Workers, Holding, Closing
<1>3. ASSUME NEW t \in Thread, ScheduleWork(t) PROVE IInv'
  <2>1. UNCHANGED <<life, running, open_handles, io_rx, ctx, WORKERS>>
    BY <1>3 DEF ScheduleWork
  <2>2. /\ \A v \in Worker : Same(v)
        /\ \A u \in Thread : Queued(u)
    BY <2>1 DEF Same, Queued
  <2> QED BY <1>1, <2>1, <2>2, Plain DEF Dispatched, IInv
<1>4. ASSUME NEW t \in Thread, Ends(t) \/ Loop(t) PROVE IInv'
  BY <1>1, <1>4, PlainEnds, PlainTasks, Dispatches, Released DEF Ends, Loop, Receive
<1>5. ASSUME NEW t \in Thread, NEW w \in Worker,
             construct_worker(t, w) \/ PostToWorker(t, w) \/ TerminateWorker(t, w)
      PROVE  IInv'
  BY <1>1, <1>5, PlainCalls, Constructed
<1>6. ASSUME NEW w \in Worker,
             \/ start_parent_bridge(w) \/ PostToParent(w) \/ close_parent_port(w)
             \/ StartThread(w) \/ Forward(w)
      PROVE  IInv'
  <2>1. w \in Thread
    BY DEF Thread
  <2>2. CASE PostToParent(w)
    BY <1>1, <2>1, <2>2, PlainCalls
  <2>3. CASE StartThread(w) \/ Forward(w)
    BY <1>1, <2>1, <2>3, PlainTasks
  <2> QED BY <1>1, <1>6, <2>2, <2>3, Started, Closed
<1>7. ASSUME NEW w \in Worker, NEW c \in Code,
             SetExitCode(w, c) \/ ProcessExit(w, c) \/ ProcessExitAgain(w, c)
      PROVE  IInv'
  BY <1>1, <1>7, PlainExits, PlainEnds DEF Thread
<1> HIDE DEF loops, messages
<1> QED BY <1>2, <1>3, <1>4, <1>5, <1>6, <1>7 DEF Next

\* In every run each loop is held by exactly the workers whose exit it has not
\* dispatched, a bridge that is not released and a close() that has not run.
THEOREM HandlesCountedCorrect == Spec => []HandlesCounted
<1>1. IInv => HandlesCounted
  BY DEF IInv
<1> QED BY <1>1, InvInit, InvStep, PTL DEF Spec

----------------------------------------------------------------------------
(* Numbers in ascending order. *)

LEMMA OrderLonger ==
  ASSUME NEW n \in Nat, NEW s, NEW r, DOMAIN s = 1 .. n, DOMAIN r = 1 .. n + 1,
         \A i \in 1 .. n : s[i] \in Nat /\ r[i] = s[i],
         NEW lo \in Nat, NEW hi \in Nat, lo <= hi, InOrder(s, lo, hi),
         NEW h \in Nat, (r[n + 1] = 0 /\ h = hi) \/ (r[n + 1] = hi + 1 /\ h = hi + 1)
  PROVE  InOrder(r, lo, h)
<1>1. /\ \A i \in 1 .. n : s[i] # 0 => s[i] \in lo + 1 .. hi
      /\ \A i, j \in 1 .. n : i < j /\ s[i] # 0 /\ s[j] # 0 => s[i] < s[j]
      /\ \A k \in lo + 1 .. hi : \E i \in 1 .. n : s[i] = k
  BY DEF InOrder
<1>2. \A i \in 1 .. n + 1 : i \in 1 .. n \/ i = n + 1
  OBVIOUS
<1> QED
  <2>1. \A i \in 1 .. n + 1 : r[i] # 0 => r[i] \in lo + 1 .. h
    BY <1>1, <1>2
  <2>2. ASSUME NEW i \in 1 .. n + 1, NEW j \in 1 .. n + 1, i < j, r[i] # 0, r[j] # 0
        PROVE  r[i] < r[j]
    <3>1. i \in 1 .. n /\ r[i] = s[i]
      BY <2>2
    <3>2. CASE j \in 1 .. n
      BY <1>1, <2>2, <3>1, <3>2
    <3>3. CASE j = n + 1
      <4>1. s[i] \in lo + 1 .. hi
        BY <1>1, <2>2, <3>1
      <4> QED BY <2>2, <3>1, <3>3, <4>1
    <3> QED BY <1>2, <3>2, <3>3
  <2>3. ASSUME NEW k \in lo + 1 .. h PROVE \E i \in 1 .. n + 1 : r[i] = k
    <3>1. CASE k \in lo + 1 .. hi
      <4>1. PICK i \in 1 .. n : s[i] = k
        BY <1>1, <3>1
      <4>2. i \in 1 .. n + 1 /\ r[i] = k
        BY <4>1
      <4> QED BY <4>2
    <3>2. CASE k = hi + 1
      <4>1. r[n + 1] = k /\ n + 1 \in 1 .. n + 1
        BY <3>2
      <4> QED BY <4>1
    <3> QED BY <3>1, <3>2
  <2> QED BY <2>1, <2>2, <2>3 DEF InOrder

LEMMA OrderShorter ==
  ASSUME NEW n \in Nat \ {0}, NEW s, NEW r, DOMAIN s = 1 .. n, DOMAIN r = 1 .. n - 1,
         \A i \in 1 .. n : s[i] \in Nat, \A i \in 1 .. n - 1 : r[i] = s[i + 1],
         NEW lo \in Nat, NEW hi \in Nat, InOrder(s, lo, hi)
  PROVE  /\ s[1] = 0 => InOrder(r, lo, hi)
         /\ s[1] # 0 => s[1] = lo + 1 /\ lo + 1 <= hi /\ InOrder(r, lo + 1, hi)
<1>1. /\ \A i \in 1 .. n : s[i] # 0 => s[i] \in lo + 1 .. hi
      /\ \A i, j \in 1 .. n : i < j /\ s[i] # 0 /\ s[j] # 0 => s[i] < s[j]
      /\ \A k \in lo + 1 .. hi : \E i \in 1 .. n : s[i] = k
  BY DEF InOrder
<1>2. \A i \in 1 .. n - 1 : i + 1 \in 1 .. n /\ r[i] = s[i + 1]
  OBVIOUS
<1>3. \A i, j \in 1 .. n - 1 : i < j /\ r[i] # 0 /\ r[j] # 0 => r[i] < r[j]
  <2>1. ASSUME NEW i \in 1 .. n - 1, NEW j \in 1 .. n - 1, i < j, r[i] # 0, r[j] # 0
        PROVE  r[i] < r[j]
    <3>1. i + 1 < j + 1 /\ i + 1 \in 1 .. n /\ j + 1 \in 1 .. n /\ r[i] = s[i + 1] /\ r[j] = s[j + 1]
      BY <1>2, <2>1
    <3> QED BY <1>1, <2>1, <3>1
  <2> QED BY <2>1
<1>4. ASSUME NEW k \in lo + 1 .. hi, k # s[1] PROVE \E i \in 1 .. n - 1 : r[i] = k
  <2>1. PICK i \in 1 .. n : s[i] = k
    BY <1>1
  <2>2. i - 1 \in 1 .. n - 1 /\ s[(i - 1) + 1] = k
    BY <1>4, <2>1
  <2> QED BY <1>2, <2>2
<1>5. CASE s[1] = 0
  <2>1. \A i \in 1 .. n - 1 : r[i] # 0 => r[i] \in lo + 1 .. hi
    BY <1>1, <1>2
  <2>2. \A k \in lo + 1 .. hi : \E i \in 1 .. n - 1 : r[i] = k
    BY <1>4, <1>5
  <2> QED BY <1>3, <1>5, <2>1, <2>2 DEF InOrder
<1>6. CASE s[1] # 0
  <2>1. 1 \in 1 .. n /\ s[1] \in lo + 1 .. hi
    BY <1>1, <1>6
  <2>2. ASSUME NEW i \in 1 .. n - 1, r[i] # 0 PROVE r[i] > s[1]
    <3>1. 1 < i + 1 /\ i + 1 \in 1 .. n /\ r[i] = s[i + 1]
      BY <1>2
    <3> QED BY <1>1, <1>6, <2>1, <2>2, <3>1
  <2>3. s[1] = lo + 1
    <3>1. SUFFICES ASSUME s[1] # lo + 1 PROVE FALSE
      OBVIOUS
    <3>2. PICK i \in 1 .. n - 1 : r[i] = lo + 1
      BY <1>4, <2>1, <3>1
    <3>3. r[i] # 0
      BY <3>2
    <3>4. lo + 1 > s[1]
      BY <2>2, <3>2, <3>3
    <3> QED BY <2>1, <3>4
  <2>4. \A i \in 1 .. n - 1 : r[i] # 0 => r[i] \in (lo + 1) + 1 .. hi
    <3>1. ASSUME NEW i \in 1 .. n - 1, r[i] # 0 PROVE r[i] \in (lo + 1) + 1 .. hi
      <4>1. i + 1 \in 1 .. n /\ s[i + 1] # 0 /\ r[i] = s[i + 1]
        BY <1>2, <3>1
      <4>2. r[i] \in lo + 1 .. hi /\ r[i] > lo + 1
        BY <1>1, <2>2, <2>3, <3>1, <4>1
      <4> QED BY <4>2
    <3> QED BY <3>1
  <2>5. \A k \in (lo + 1) + 1 .. hi : \E i \in 1 .. n - 1 : r[i] = k
    BY <1>4, <2>3
  <2>6. InOrder(r, lo + 1, hi)
    BY <1>3, <2>4, <2>5 DEF InOrder
  <2> QED BY <1>6, <2>1, <2>3, <2>6
<1> QED BY <1>5, <1>6

(* The numbers a function gives the elements of a sequence. *)
Under(F, q) == [i \in DOMAIN q |-> F[q[i]]]

LEMMA UnderAppend ==
  ASSUME NEW S, NEW F \in [S -> Nat], NEW q \in Seq(S), NEW x \in S,
         NEW lo \in Nat, NEW hi \in Nat, lo <= hi, InOrder(Under(F, q), lo, hi),
         NEW h \in Nat, (F[x] = 0 /\ h = hi) \/ (F[x] = hi + 1 /\ h = hi + 1)
  PROVE  InOrder(Under(F, Append(q, x)), lo, h)
<1> DEFINE n == Len(q)
<1>1. /\ n \in Nat /\ DOMAIN q = 1 .. n /\ DOMAIN Append(q, x) = 1 .. n + 1
      /\ \A i \in 1 .. n : q[i] \in S /\ Append(q, x)[i] = q[i]
      /\ Append(q, x)[n + 1] = x
  BY LenProperties, AppendProperties, ElementOfSeq
<1> HIDE DEF n
<1>2. /\ DOMAIN Under(F, q) = 1 .. n /\ DOMAIN Under(F, Append(q, x)) = 1 .. n + 1
      /\ \A i \in 1 .. n : Under(F, q)[i] = F[q[i]] /\ Under(F, Append(q, x))[i] = F[q[i]]
      /\ Under(F, Append(q, x))[n + 1] = F[x]
  <2>1. n + 1 \in 1 .. n + 1 /\ \A i \in 1 .. n : i \in 1 .. n + 1
    BY <1>1
  <2> QED BY <1>1, <2>1 DEF Under
<1>3. \A i \in 1 .. n : Under(F, q)[i] \in Nat /\ Under(F, Append(q, x))[i] = Under(F, q)[i]
  BY <1>1, <1>2
<1> DEFINE s == Under(F, q)
           r == Under(F, Append(q, x))
<1>4. /\ n \in Nat /\ DOMAIN s = 1 .. n /\ DOMAIN r = 1 .. n + 1
      /\ \A i \in 1 .. n : s[i] \in Nat /\ r[i] = s[i]
      /\ InOrder(s, lo, hi)
  BY <1>1, <1>2, <1>3
<1> HIDE DEF s, r
<1>5. (r[n + 1] = 0 /\ h = hi) \/ (r[n + 1] = hi + 1 /\ h = hi + 1)
  BY <1>2 DEF r
<1>6. InOrder(r, lo, h)
  BY <1>4, <1>5, OrderLonger
<1> QED BY <1>6 DEF r

LEMMA UnderTail ==
  ASSUME NEW S, NEW F \in [S -> Nat], NEW q \in Seq(S), q # <<>>,
         NEW lo \in Nat, NEW hi \in Nat, InOrder(Under(F, q), lo, hi)
  PROVE  /\ F[Head(q)] = 0 => InOrder(Under(F, Tail(q)), lo, hi)
         /\ F[Head(q)] # 0 => /\ F[Head(q)] = lo + 1 /\ lo + 1 <= hi
                              /\ InOrder(Under(F, Tail(q)), lo + 1, hi)
<1> DEFINE n == Len(q)
<1>1. /\ n \in Nat \ {0} /\ DOMAIN q = 1 .. n /\ DOMAIN Tail(q) = 1 .. n - 1
      /\ \A i \in 1 .. n : q[i] \in S
      /\ \A i \in 1 .. n - 1 : Tail(q)[i] = q[i + 1]
      /\ Head(q) = q[1]
  BY LenProperties, HeadTailProperties, EmptySeq, ElementOfSeq
<1> HIDE DEF n
<1>2. /\ DOMAIN Under(F, q) = 1 .. n /\ DOMAIN Under(F, Tail(q)) = 1 .. n - 1
      /\ \A i \in 1 .. n : Under(F, q)[i] = F[q[i]]
      /\ \A i \in 1 .. n - 1 : Under(F, Tail(q))[i] = F[q[i + 1]]
  BY <1>1 DEF Under
<1>3. \A i \in 1 .. n - 1 : i + 1 \in 1 .. n /\ Under(F, Tail(q))[i] = Under(F, q)[i + 1]
  BY <1>1, <1>2
<1>4. /\ \A i \in 1 .. n : Under(F, q)[i] \in Nat
      /\ Under(F, q)[1] = F[Head(q)]
  BY <1>1, <1>2
<1> DEFINE s == Under(F, q)
           r == Under(F, Tail(q))
<1>5. /\ DOMAIN s = 1 .. n /\ DOMAIN r = 1 .. n - 1
      /\ \A i \in 1 .. n : s[i] \in Nat
      /\ \A i \in 1 .. n - 1 : r[i] = s[i + 1]
      /\ InOrder(s, lo, hi)
  BY <1>2, <1>3, <1>4
<1> HIDE DEF s, r
<1>6. /\ s[1] = 0 => InOrder(r, lo, hi)
      /\ s[1] # 0 => s[1] = lo + 1 /\ lo + 1 <= hi /\ InOrder(r, lo + 1, hi)
  BY <1>1, <1>5, OrderShorter
<1> QED BY <1>4, <1>6 DEF s, r

----------------------------------------------------------------------------
(* The messages to a worker: d were emitted, q is its loop's queue, r its    *)
(* bridge's and s were sent.                                                 *)

DeliverNo == [task \in Task |-> IF task.kind = "deliver" THEN task.n ELSE 0]

KeptIn(d, q, r, s) ==
  /\ \A i \in DOMAIN d : d[i] = i
  /\ \A i \in DOMAIN q : q[i].kind = "deliver" => q[i].n # 0
  /\ \E n \in Len(d) .. s : InOrder(Under(DeliverNo, q), Len(d), n) /\ InOrder(r, n, s)

LEMMA DeliverNos ==
  /\ DeliverNo \in [Task -> Nat]
  /\ \A task \in Task : DeliverNo[task] = IF task.kind = "deliver" THEN task.n ELSE 0
<1>1. \A task \in Task : task.n \in Nat
  BY DEF Task
<1> QED BY <1>1 DEF DeliverNo

LEMMA UnderNat ==
  ASSUME NEW r \in Seq(Nat)
  PROVE  /\ [k \in Nat |-> k] \in [Nat -> Nat]
         /\ Under([k \in Nat |-> k], r) = r
<1>1. r \in [1 .. Len(r) -> Nat]
  BY LenProperties
<1>2. \A i \in DOMAIN r : r[i] \in Nat
  BY <1>1
<1> QED BY <1>1, <1>2 DEF Under

LEMMA KeptSend ==
  ASSUME NEW d \in Seq(Nat), NEW q \in Seq(Task), NEW r \in Seq(Nat), NEW s \in Nat,
         NEW task \in Task, task.kind # "deliver", KeptIn(d, q, r, s)
  PROVE  KeptIn(d, Append(q, task), r, s)
<1>1. PICK n \in Len(d) .. s : InOrder(Under(DeliverNo, q), Len(d), n) /\ InOrder(r, n, s)
  BY DEF KeptIn
<1>2. Len(d) \in Nat /\ n \in Nat /\ Len(d) <= n
  BY LenProperties
<1>3. DeliverNo[task] = 0
  BY DeliverNos
<1>4. InOrder(Under(DeliverNo, Append(q, task)), Len(d), n)
  BY <1>1, <1>2, <1>3, DeliverNos, UnderAppend
<1>5. \A i \in DOMAIN Append(q, task) : Append(q, task)[i].kind = "deliver" => Append(q, task)[i].n # 0
  <2>1. /\ Len(q) \in Nat /\ DOMAIN q = 1 .. Len(q) /\ DOMAIN Append(q, task) = 1 .. Len(q) + 1
        /\ \A i \in 1 .. Len(q) : Append(q, task)[i] = q[i]
        /\ Append(q, task)[Len(q) + 1] = task
    BY LenProperties, AppendProperties
  <2>2. \A i \in 1 .. Len(q) + 1 : i \in 1 .. Len(q) \/ i = Len(q) + 1
    BY <2>1
  <2>3. \A i \in 1 .. Len(q) : q[i].kind = "deliver" => q[i].n # 0
    BY <2>1 DEF KeptIn
  <2> QED BY <2>1, <2>2, <2>3
<1> QED BY <1>1, <1>4, <1>5 DEF KeptIn

LEMMA KeptTake ==
  ASSUME NEW d \in Seq(Nat), NEW q \in Seq(Task), NEW r \in Seq(Nat), NEW s \in Nat,
         q # <<>>, KeptIn(d, q, r, s)
  PROVE  /\ Head(q).kind # "deliver" => KeptIn(d, Tail(q), r, s)
         /\ Head(q).kind = "deliver" => KeptIn(Append(d, Head(q).n), Tail(q), r, s)
<1>1. PICK n \in Len(d) .. s : InOrder(Under(DeliverNo, q), Len(d), n) /\ InOrder(r, n, s)
  BY DEF KeptIn
<1>2. Len(d) \in Nat /\ n \in Nat /\ Len(d) <= n /\ DOMAIN d = 1 .. Len(d)
  BY LenProperties
<1>3. /\ DeliverNo[Head(q)] = 0 => InOrder(Under(DeliverNo, Tail(q)), Len(d), n)
      /\ DeliverNo[Head(q)] # 0 => /\ DeliverNo[Head(q)] = Len(d) + 1 /\ Len(d) + 1 <= n
                                   /\ InOrder(Under(DeliverNo, Tail(q)), Len(d) + 1, n)
  BY <1>1, <1>2, DeliverNos, UnderTail
<1>4. /\ Len(q) \in Nat \ {0} /\ DOMAIN q = 1 .. Len(q) /\ DOMAIN Tail(q) = 1 .. Len(q) - 1
      /\ \A i \in 1 .. Len(q) - 1 : Tail(q)[i] = q[i + 1] /\ i + 1 \in DOMAIN q
      /\ Head(q) = q[1] /\ 1 \in DOMAIN q /\ Head(q) \in Task
  BY LenProperties, HeadTailProperties, EmptySeq
<1>5. \A i \in DOMAIN Tail(q) : Tail(q)[i].kind = "deliver" => Tail(q)[i].n # 0
  BY <1>4 DEF KeptIn
<1>6. CASE Head(q).kind # "deliver"
  <2>1. DeliverNo[Head(q)] = 0
    BY <1>4, <1>6, DeliverNos
  <2> QED BY <1>1, <1>3, <1>5, <1>6, <2>1 DEF KeptIn
<1>7. CASE Head(q).kind = "deliver"
  <2>1. DeliverNo[Head(q)] = Head(q).n /\ Head(q).n # 0 /\ Head(q).n \in Nat
    BY <1>4, <1>7, DeliverNos DEF KeptIn, Task
  <2>2. PICK e \in Seq(Nat) : e = Append(d, Head(q).n)
    BY <2>1, AppendProperties
  <2>3. Len(e) = Len(d) + 1 /\ n \in Len(e) .. s
    BY <1>2, <1>3, <2>1, <2>2, AppendProperties
  <2>4. \A i \in DOMAIN e : e[i] = i
    <3>1. /\ DOMAIN e = 1 .. Len(d) + 1
          /\ \A i \in 1 .. Len(d) : e[i] = d[i]
          /\ e[Len(d) + 1] = Head(q).n
      BY <2>1, <2>2, <2>3, LenProperties, AppendProperties
    <3>2. \A i \in 1 .. Len(d) + 1 : i \in 1 .. Len(d) \/ i = Len(d) + 1
      BY <1>2
    <3>3. \A i \in 1 .. Len(d) : d[i] = i
      BY <1>2 DEF KeptIn
    <3> QED BY <1>3, <2>1, <3>1, <3>2, <3>3
  <2>5. InOrder(Under(DeliverNo, Tail(q)), Len(e), n)
    BY <1>3, <2>1, <2>3
  <2>6. KeptIn(e, Tail(q), r, s)
    BY <1>1, <1>5, <2>3, <2>4, <2>5 DEF KeptIn
  <2> QED BY <1>7, <2>2, <2>6
<1> QED BY <1>6, <1>7

LEMMA KeptPost ==
  ASSUME NEW d \in Seq(Nat), NEW q \in Seq(Task), NEW r \in Seq(Nat), NEW s \in Nat,
         KeptIn(d, q, r, s)
  PROVE  /\ KeptIn(d, q, Append(r, Terminate), s)
         /\ KeptIn(d, q, Append(r, s + 1), s + 1)
<1> DEFINE F == [k \in Nat |-> k]
<1>1. PICK n \in Len(d) .. s : InOrder(Under(DeliverNo, q), Len(d), n) /\ InOrder(r, n, s)
  BY DEF KeptIn
<1>2. Len(d) \in Nat /\ n \in Nat /\ n <= s /\ s + 1 \in Nat
  BY LenProperties
<1>3. ASSUME NEW x \in Nat, NEW h \in Nat, (x = 0 /\ h = s) \/ (x = s + 1 /\ h = s + 1)
      PROVE  KeptIn(d, q, Append(r, x), h)
  <2>1. Append(r, x) \in Seq(Nat)
    BY AppendProperties
  <2>2. F[x] = x
    OBVIOUS
  <2>3. InOrder(Under(F, r), n, s)
    BY <1>1, UnderNat
  <2>4. F \in [Nat -> Nat]
    OBVIOUS
  <2> HIDE DEF F
  <2>5. InOrder(Under(F, Append(r, x)), n, h)
    BY <1>2, <1>3, <2>2, <2>3, <2>4, UnderAppend
  <2>6. InOrder(Append(r, x), n, h)
    BY <2>1, <2>5, UnderNat DEF F
  <2>7. n \in Len(d) .. h
    BY <1>2, <1>3
  <2> QED BY <1>1, <2>6, <2>7 DEF KeptIn
<1>4. KeptIn(d, q, Append(r, Terminate), s)
  BY <1>3 DEF Terminate
<1>5. KeptIn(d, q, Append(r, s + 1), s + 1)
  BY <1>2, <1>3
<1> QED BY <1>4, <1>5

LEMMA KeptForward ==
  ASSUME NEW d \in Seq(Nat), NEW q \in Seq(Task), NEW r \in Seq(Nat), NEW s \in Nat,
         r # <<>>, Head(r) # Terminate, KeptIn(d, q, r, s)
  PROVE  KeptIn(d, Append(q, Own("deliver", Head(r))), Tail(r), s)
<1> DEFINE F == [k \in Nat |-> k]
           task == Own("deliver", Head(r))
<1>1. PICK n \in Len(d) .. s : InOrder(Under(DeliverNo, q), Len(d), n) /\ InOrder(r, n, s)
  BY DEF KeptIn
<1>2. Len(d) \in Nat /\ n \in Nat /\ Len(d) <= n /\ n + 1 \in Nat
  BY LenProperties
<1>3. Head(r) \in Nat /\ Tail(r) \in Seq(Nat)
  BY HeadTailProperties
<1>4. task \in Task /\ task.kind = "deliver" /\ task.n = Head(r)
  BY <1>3, TaskTypes DEF Own
<1> HIDE DEF task
<1>5. Head(r) = n + 1 /\ n + 1 <= s /\ InOrder(Tail(r), n + 1, s)
  <2>1. InOrder(Under(F, r), n, s) /\ F \in [Nat -> Nat] /\ F[Head(r)] = Head(r)
    BY <1>1, <1>3, UnderNat
  <2>2. Under(F, Tail(r)) = Tail(r)
    BY <1>3, UnderNat
  <2> HIDE DEF F
  <2>3. /\ F[Head(r)] = n + 1 /\ n + 1 <= s
        /\ InOrder(Under(F, Tail(r)), n + 1, s)
    BY <1>2, <2>1, UnderTail DEF Terminate
  <2> QED BY <2>1, <2>2, <2>3
<1>6. InOrder(Under(DeliverNo, Append(q, task)), Len(d), n + 1)
  <2>1. PICK h \in Nat : h = n + 1
    BY <1>2
  <2>2. DeliverNo[task] = n + 1 /\ DeliverNo \in [Task -> Nat]
    BY <1>4, <1>5, DeliverNos
  <2>3. InOrder(Under(DeliverNo, Append(q, task)), Len(d), h)
    BY <1>1, <1>2, <1>4, <2>1, <2>2, UnderAppend
  <2> QED BY <2>1, <2>3
<1>7. \A i \in DOMAIN Append(q, task) : Append(q, task)[i].kind = "deliver" => Append(q, task)[i].n # 0
  <2>1. /\ Len(q) \in Nat /\ DOMAIN q = 1 .. Len(q) /\ DOMAIN Append(q, task) = 1 .. Len(q) + 1
        /\ \A i \in 1 .. Len(q) : Append(q, task)[i] = q[i]
        /\ Append(q, task)[Len(q) + 1] = task
    BY <1>4, LenProperties, AppendProperties
  <2>2. \A i \in 1 .. Len(q) + 1 : i \in 1 .. Len(q) \/ i = Len(q) + 1
    BY <2>1
  <2>3. \A i \in 1 .. Len(q) : q[i].kind = "deliver" => q[i].n # 0
    BY <2>1 DEF KeptIn
  <2> QED BY <1>4, <2>1, <2>2, <2>3 DEF Terminate
<1>8. n + 1 \in Len(d) .. s
  BY <1>2, <1>5
<1>9. KeptIn(d, Append(q, task), Tail(r), s)
  BY <1>1, <1>5, <1>6, <1>7, <1>8 DEF KeptIn
<1> QED BY <1>9 DEF task

----------------------------------------------------------------------------
(* Which steps leave the messages to a worker as they are. *)

Excused(w) == ctx[w].bridge = "off" \/ Gone(w) \/ ctx[w].port_close_emitted
Kept(w) == Excused(w) \/ KeptIn(delivered[w], io_rx[w], to_worker[w], sent[w])
AllKept == TypeOK /\ \A w \in Worker : Kept(w)

(* What a step does to a loop's channel when it forwards and takes no message. *)
Bypassed(t) ==
  \/ io_rx'[t] = io_rx[t]
  \/ io_rx[t] # <<>> /\ Head(io_rx[t]).kind # "deliver" /\ io_rx'[t] = Tail(io_rx[t])
  \/ \E a \in Task : a.kind # "deliver" /\ io_rx'[t] = Append(io_rx[t], a)
  \/ \E a, b \in Task : /\ a.kind # "deliver" /\ b.kind # "deliver"
                        /\ io_rx'[t] = Append(Append(io_rx[t], a), b)

Excuses == \A w \in Worker : Excused(w) => Excused(w)'

LEMMA KeptBypassed ==
  ASSUME TypeOK, NEW w \in Worker, Kept(w), Bypassed(w), Excused(w) => Excused(w)',
         delivered'[w] = delivered[w], to_worker'[w] = to_worker[w], sent'[w] = sent[w]
  PROVE  Kept(w)'
<1>1. PICK q \in Seq(Task) : q = io_rx[w]
  BY CtxTypes DEF TypeOK
<1>2. PICK d \in Seq(Nat), r \in Seq(Nat), s \in Nat :
        d = delivered[w] /\ r = to_worker[w] /\ s = sent[w]
  BY DEF TypeOK
<1>3. SUFFICES ASSUME KeptIn(d, q, r, s) PROVE KeptIn(d, io_rx'[w], r, s)
  BY <1>1, <1>2 DEF Kept
<1>4. \A a \in Task : a.kind # "deliver" => Append(q, a) \in Seq(Task) /\ KeptIn(d, Append(q, a), r, s)
  BY <1>3, KeptSend, AppendProperties
<1>5. \A a, b \in Task : a.kind # "deliver" /\ b.kind # "deliver" => KeptIn(d, Append(Append(q, a), b), r, s)
  <2>1. ASSUME NEW a \in Task, NEW b \in Task, a.kind # "deliver", b.kind # "deliver"
        PROVE  KeptIn(d, Append(Append(q, a), b), r, s)
    <3>1. PICK qa \in Seq(Task) : qa = Append(q, a) /\ KeptIn(d, qa, r, s)
      BY <1>4, <2>1
    <3>2. KeptIn(d, Append(qa, b), r, s)
      BY <2>1, <3>1, KeptSend
    <3> QED BY <3>1, <3>2
  <2> QED BY <2>1
<1>6. q # <<>> /\ Head(q).kind # "deliver" => KeptIn(d, Tail(q), r, s)
  BY <1>3, KeptTake
<1> QED BY <1>1, <1>3, <1>4, <1>5, <1>6 DEF Bypassed

LEMMA SendBypasses ==
  ASSUME TypeOK, NEW t \in Thread, NEW task \in Task, Send(t, task), task.kind # "deliver"
  PROVE  \A u \in Thread : Bypassed(u)
<1>1. io_rx \in [Thread -> Seq(Task)] /\ io_rx' = [io_rx EXCEPT ![t] = Append(io_rx[t], task)]
  BY DEF Send, TypeOK
<1> QED BY <1>1 DEF Bypassed

LEMMA OwnBypasses ==
  ASSUME TypeOK, NEW t \in Thread, NEW k \in {"release", "close", "wake"}, Send(t, Own(k, 0))
  PROVE  \A u \in Thread : Bypassed(u)
<1>1. Own(k, 0) \in Task /\ Own(k, 0).kind # "deliver"
  BY TaskTypes DEF Own
<1> QED BY <1>1, SendBypasses

LEMMA EventBypasses ==
  ASSUME TypeOK, NEW w \in Worker, NEW k \in MainEvents, NEW n \in Nat,
         Send(ctx[w].parent, Event(k, w, n))
  PROVE  \A u \in Thread : Bypassed(u)
<1>1. w \in Thread /\ ctx[w].parent \in Thread
  BY CtxTypes
<1>2. Event(k, w, n) \in Task /\ Event(k, w, n).kind # "deliver"
  BY <1>1, TaskTypes DEF Event, MainEvents
<1> QED BY <1>1, <1>2, SendBypasses

LEMMA TakeBypasses ==
  ASSUME TypeOK, NEW t \in Thread, Receiving(t), Take(t), Head(io_rx[t]).kind # "deliver"
  PROVE  \A u \in Thread : Bypassed(u)
  BY Taking DEF Bypassed

(* A step that keeps every port's state, or ends a thread that runs. *)
LEMMA Excusing ==
  ASSUME TypeOK,
         \/ life' = life
         \/ \E t \in Thread, l \in {"spawned", "on", "left", "dead"} :
              life' = [life EXCEPT ![t] = l] /\ (~Gone(t) \/ l \in {"left", "dead"}),
         \A w \in Worker : ctx'[w].bridge = ctx[w].bridge
                           /\ ctx'[w].port_close_emitted = ctx[w].port_close_emitted
  PROVE  Excuses
<1>1. life \in [Thread -> {"unborn", "spawned", "on", "left", "dead"}]
  BY DEF TypeOK
<1>2. \A w \in Worker : Gone(w) => Gone(w)'
  BY <1>1 DEF Gone, Thread
<1> QED BY <1>2 DEF Excuses, Excused

(* What the theorem follows from. *)
LEMMA KeptRest ==
  ASSUME AllKept, Excuses, \A u \in Thread : Bypassed(u), UNCHANGED <<delivered, to_worker, sent>>
  PROVE  \A w \in Worker : Kept(w)'
  BY CtxTypes, KeptBypassed DEF AllKept, Excuses

Rest ==
  /\ Excuses /\ \A u \in Thread : Bypassed(u)
  /\ UNCHANGED <<delivered, to_worker, sent>>

LEMMA RestCalls ==
  ASSUME TypeOK, NEW t \in Thread, NEW w \in Worker,
         \/ ScheduleWork(t) \/ construct_worker(t, w) \/ start_parent_bridge(w) \/ PostToParent(w)
         \/ close_parent_port(w)
         \/ \E c \in Code : SetExitCode(w, c) \/ ProcessExit(w, c)
  PROVE  Rest
<1>1. w \in Thread /\ ctx \in [Worker -> Context]
  BY CtxTypes
<1>2. io_rx' = io_rx => \A u \in Thread : Bypassed(u)
  BY DEF Bypassed
<1>3. CASE ScheduleWork(t)
  <2>1. Excuses
    BY <1>3, Excusing DEF ScheduleWork
  <2> QED BY <1>2, <1>3, <2>1 DEF ScheduleWork, Rest
<1>4. CASE construct_worker(t, w)
  <2>1. ctx' = [ctx EXCEPT ![w].parent = t] /\ life' = [life EXCEPT ![w] = "spawned"] /\ ~Gone(w)
    BY <1>4 DEF construct_worker, Gone
  <2>2. \A v \in Worker : ctx'[v].bridge = ctx[v].bridge
                          /\ ctx'[v].port_close_emitted = ctx[v].port_close_emitted
    BY <1>1, <2>1 DEF Context
  <2>3. Excuses
    BY <1>1, <2>1, <2>2, Excusing
  <2> QED BY <1>2, <1>4, <2>3 DEF construct_worker, Rest
<1>5. CASE start_parent_bridge(w)
  <2>1. ctx' = [ctx EXCEPT ![w].bridge = "on"] /\ ctx[w].bridge = "none" /\ life' = life
    BY <1>5 DEF start_parent_bridge
  <2>2. \A v \in Worker : /\ ctx[v].bridge = "off" => ctx'[v].bridge = "off"
                          /\ ctx'[v].port_close_emitted = ctx[v].port_close_emitted
    BY <1>1, <2>1 DEF Context
  <2>3. Excuses
    BY <2>1, <2>2 DEF Excuses, Excused, Gone
  <2> QED BY <1>2, <1>5, <2>3 DEF start_parent_bridge, Rest
<1>6. CASE PostToParent(w)
  <2>1. posted[w] + 1 \in Nat /\ "message" \in MainEvents
    <3>1. posted \in [Worker -> Nat]
      BY DEF TypeOK
    <3> QED BY <3>1 DEF MainEvents
  <2>2. \A u \in Thread : Bypassed(u)
    BY <1>6, <2>1, EventBypasses DEF PostToParent
  <2>3. Excuses
    BY <1>6, Excusing DEF PostToParent
  <2> QED BY <1>6, <2>2, <2>3 DEF PostToParent, Rest
<1>7. CASE close_parent_port(w)
  <2>1. ctx' = [ctx EXCEPT ![w].port_closed = TRUE] /\ life' = life
    BY <1>7 DEF close_parent_port
  <2>2. \A v \in Worker : ctx'[v].bridge = ctx[v].bridge
                          /\ ctx'[v].port_close_emitted = ctx[v].port_close_emitted
    BY <1>1, <2>1 DEF Context
  <2>3. Excuses
    BY <2>1, <2>2, Excusing
  <2>4. \A u \in Thread : Bypassed(u)
    BY <1>1, <1>7, OwnBypasses DEF close_parent_port
  <2> QED BY <1>7, <2>3, <2>4 DEF close_parent_port, Rest
<1>8. ASSUME NEW c \in Code, SetExitCode(w, c) \/ ProcessExit(w, c) PROVE Rest
  <2>1. \/ ctx' = [ctx EXCEPT ![w].exit_code = c]
        \/ ctx' = [ctx EXCEPT ![w].exit_code = c, ![w].exiting = TRUE]
    BY <1>8 DEF SetExitCode, ProcessExit
  <2>2. \A v \in Worker : ctx'[v].bridge = ctx[v].bridge
                          /\ ctx'[v].port_close_emitted = ctx[v].port_close_emitted
    BY <1>1, <2>1 DEF Context
  <2>3. UNCHANGED <<life, io_rx, delivered, to_worker, sent>>
    BY <1>8 DEF SetExitCode, ProcessExit
  <2>4. Excuses
    BY <2>2, <2>3, Excusing
  <2> QED BY <1>2, <2>3, <2>4 DEF Rest
<1> QED BY <1>3, <1>4, <1>5, <1>6, <1>7, <1>8

LEMMA RestEnd ==
  ASSUME TypeOK, NEW w \in Worker, life[w] = "on", NEW how \in {"left", "dead"},
         ctx' \in [Worker -> Context], End(w, how),
         \A v \in Worker : ctx'[v].bridge = ctx[v].bridge
                           /\ ctx'[v].port_close_emitted = ctx[v].port_close_emitted
  PROVE  Rest
<1>1. PICK n \in Nat : Send(ctx[w].parent, Event("exit", w, n))
  BY TypeEnd
<1>2. \A u \in Thread : Bypassed(u)
  BY <1>1, EventBypasses DEF MainEvents
<1>3. life' = [life EXCEPT ![w] = how] /\ ~Gone(w) /\ w \in Thread
  BY CtxTypes DEF End, Gone
<1>4. Excuses
  BY <1>3, Excusing
<1> QED BY <1>2, <1>4 DEF End, Rest

LEMMA AppendTwo ==
  ASSUME NEW q \in Seq(Task), NEW a \in Task, NEW b \in Task
  PROVE  q \o <<a, b>> = Append(Append(q, a), b)
<1>1. <<a>> \in Seq(Task) /\ <<b>> \in Seq(Task) /\ Append(q, a) \in Seq(Task)
  BY AppendProperties
<1>2. Append(Append(q, a), b) = (q \o <<a>>) \o <<b>>
  BY <1>1, AppendIsConcat
<1>3. (q \o <<a>>) \o <<b>> = q \o (<<a>> \o <<b>>)
  BY <1>1, ConcatAssociative
<1>4. <<a>> \o <<b>> = <<a, b>>
  <2>1. /\ <<a>> \o <<b>> \in Seq(Task) /\ Len(<<a>> \o <<b>>) = 2
        /\ (<<a>> \o <<b>>)[1] = a /\ (<<a>> \o <<b>>)[2] = b
    BY <1>1, ConcatProperties
  <2>2. <<a, b>> \in Seq(Task) /\ Len(<<a, b>>) = 2 /\ <<a, b>>[1] = a /\ <<a, b>>[2] = b
    OBVIOUS
  <2>3. \A i \in 1 .. 2 : i = 1 \/ i = 2
    OBVIOUS
  <2> QED BY <2>1, <2>2, <2>3, SeqEqual
<1> QED BY <1>2, <1>3, <1>4

LEMMA RestFail ==
  ASSUME TypeOK, NEW w \in Worker, life[w] = "on", Fail(w)
  PROVE  Rest
<1> DEFINE a == Event("error", w, 0)
           b == Event("exit", w, 1)
           p == ctx[w].parent
<1>1. w \in Thread /\ p \in Thread
  BY CtxTypes
<1>2. a \in Task /\ b \in Task /\ a.kind # "deliver" /\ b.kind # "deliver"
  BY <1>1, TaskTypes DEF Event, MainEvents
<1> HIDE DEF a, b, p
<1>3. /\ io_rx \in [Thread -> Seq(Task)]
      /\ io_rx' = [io_rx EXCEPT ![p] = io_rx[p] \o <<a, b>>]
  BY DEF Fail, TypeOK, a, b, p
<1>4. io_rx[p] \o <<a, b>> = Append(Append(io_rx[p], a), b)
  <2>1. PICK q \in Seq(Task) : q = io_rx[p]
    BY <1>1, <1>3
  <2> QED BY <1>2, <2>1, AppendTwo
<1>5. \A u \in Thread : Bypassed(u)
  BY <1>1, <1>2, <1>3, <1>4 DEF Bypassed
<1>6. life' = [life EXCEPT ![w] = "dead"] /\ ~Gone(w) /\ ctx' = ctx
  BY DEF Fail, Gone
<1>7. Excuses
  BY <1>1, <1>6, Excusing
<1> QED BY <1>5, <1>7 DEF Fail, Rest

LEMMA RestEndProcess ==
  ASSUME TypeOK, NEW how \in {"left", "dead"}, EndProcess(how)
  PROVE  Rest
<1>1. life' = [life EXCEPT ![Main] = how] /\ Main \in Thread /\ ctx' = ctx /\ io_rx' = io_rx
  BY DEF EndProcess, Thread
<1>2. Excuses
  BY <1>1, Excusing
<1> QED BY <1>1, <1>2 DEF EndProcess, Rest, Bypassed

LEMMA RestEnds ==
  ASSUME TypeOK, NEW t \in Thread,
         \/ Return(t) \/ ExitDispatched(t) \/ Throw(t) \/ Leave(t)
         \/ t \in Worker /\ (ExitReturns(t) \/ \E c \in Code : ProcessExitAgain(t, c))
  PROVE  Rest
<1>1. ASSUME UNCHANGED <<life, io_rx, delivered, to_worker, sent>>,
             \A v \in Worker : ctx'[v].bridge = ctx[v].bridge
                               /\ ctx'[v].port_close_emitted = ctx[v].port_close_emitted
      PROVE  Rest
  <2>1. Excuses
    BY <1>1, Excusing
  <2> QED BY <1>1, <2>1 DEF Rest, Bypassed
<1>2. CASE Return(t)
  BY <1>1, <1>2 DEF Return
<1>3. CASE ExitDispatched(t)
  <2>1. Excuses
    BY <1>3, Excusing DEF ExitDispatched
  <2>2. \A u \in Thread : Bypassed(u)
    BY <1>3, OwnBypasses DEF ExitDispatched
  <2> QED BY <1>3, <2>1, <2>2 DEF ExitDispatched, Rest
<1>4. CASE Throw(t)
  <2>1. CASE UNCHANGED <<life, work, open_handles, io_rx, ctx, WORKERS, to_worker, calls, messages>>
    BY <1>1, <2>1
  <2>2. CASE EndProcess("dead")
    BY <2>2, RestEndProcess
  <2>3. CASE t # Main /\ Fail(t)
    <3>1. t \in Worker /\ life[t] = "on"
      BY <1>4, <2>3 DEF Throw, Js, Thread
    <3> QED BY <2>3, <3>1, RestFail
  <2> QED BY <1>4, <2>1, <2>2, <2>3 DEF Throw
<1>5. CASE Leave(t)
  <2>1. CASE EndProcess("left")
    BY <2>1, RestEndProcess
  <2>2. ASSUME t \in Worker, ctx' = [ctx EXCEPT ![t].exiting = TRUE],
               UNCHANGED <<life, io_rx, to_worker, messages>>
        PROVE  Rest
    <3>1. ctx \in [Worker -> Context]
      BY <2>2, CtxTypes
    <3>2. \A v \in Worker : ctx'[v].bridge = ctx[v].bridge
                            /\ ctx'[v].port_close_emitted = ctx[v].port_close_emitted
      BY <2>2, <3>1 DEF Context
    <3> QED BY <1>1, <2>2, <3>2
  <2>3. CASE t \in Worker /\ Drained(t) /\ UNCHANGED ctx /\ End(t, "left")
    <3>1. ctx' \in [Worker -> Context] /\ life[t] = "on"
      BY <2>3, CtxTypes DEF Drained, Looping
    <3> QED BY <2>3, <3>1, RestEnd
  <2> QED BY <1>5, <2>1, <2>2, <2>3 DEF Leave
<1>6. CASE t \in Worker /\ ExitReturns(t)
  <2>1. ctx' = ctx /\ ctx' \in [Worker -> Context] /\ life[t] = "on"
        /\ (End(t, "left") \/ End(t, "dead"))
    BY <1>6, CtxTypes DEF ExitReturns, Js
  <2> QED BY <1>6, <2>1, RestEnd
<1>7. ASSUME t \in Worker, NEW c \in Code, ProcessExitAgain(t, c) PROVE Rest
  <2>1. /\ ctx \in [Worker -> Context] /\ ctx' = [ctx EXCEPT ![t].exit_code = c] /\ c \in Nat
        /\ life[t] = "on" /\ End(t, "dead")
    BY <1>7, CtxTypes, WorkersAssumption DEF ProcessExitAgain, Js
  <2>2. /\ ctx' \in [Worker -> Context]
        /\ \A v \in Worker : ctx'[v].bridge = ctx[v].bridge
                             /\ ctx'[v].port_close_emitted = ctx[v].port_close_emitted
    BY <2>1 DEF Context
  <2> QED BY <1>7, <2>1, <2>2, RestEnd
<1> QED BY <1>2, <1>3, <1>4, <1>5, <1>6, <1>7

LEMMA RestTasks ==
  ASSUME TypeOK, NEW t \in Thread,
         \/ RunWork(t) \/ DispatchMain(t) \/ RunWake(t)
         \/ t \in Worker /\ (StartThread(t) \/ RunRelease(t) \/ RunClose(t))
  PROVE  Rest
<1>1. CASE RunWork(t)
  <2>1. Excuses
    BY <1>1, Excusing DEF RunWork
  <2> QED BY <1>1, <2>1 DEF RunWork, Rest, Bypassed
<1>2. CASE DispatchMain(t) \/ RunWake(t)
  <2>1. Receiving(t) /\ Take(t) /\ Head(io_rx[t]).kind # "deliver"
    BY <1>2 DEF DispatchMain, RunWake, MainEvents
  <2>2. UNCHANGED <<life, ctx, delivered, to_worker, sent>>
    BY <1>2 DEF DispatchMain, RunWake
  <2>3. Excuses
    BY <2>2, Excusing
  <2> QED BY <2>1, <2>2, <2>3, TakeBypasses DEF Rest
<1>3. ASSUME t \in Worker, StartThread(t) PROVE Rest
  <2>1. \A u \in Thread : Bypassed(u)
    BY <1>3, EventBypasses DEF StartThread, MainEvents
  <2>2. life' = [life EXCEPT ![t] = "on"] /\ ~Gone(t) /\ ctx' = ctx
    BY <1>3 DEF StartThread, Gone
  <2>3. Excuses
    BY <2>2, Excusing
  <2> QED BY <1>3, <2>1, <2>3 DEF StartThread, Rest
<1>4. ASSUME t \in Worker, RunRelease(t) \/ RunClose(t) PROVE Rest
  <2>1. Receiving(t) /\ Take(t) /\ Head(io_rx[t]).kind # "deliver"
    BY <1>4 DEF RunRelease, RunClose
  <2>2. UNCHANGED <<life, delivered, to_worker, sent>>
    BY <1>4 DEF RunRelease, RunClose
  <2>3. \E b \in BOOLEAN :
          \/ ctx' = [ctx EXCEPT ![t].port_released = b]
          \/ ctx' = [ctx EXCEPT ![t].port_close_emitted = TRUE, ![t].port_released = b]
    <3>1. ctx[t].port_released \in BOOLEAN
      BY <1>4, CtxTypes DEF Context
    <3> QED BY <1>4, <3>1 DEF RunRelease, RunClose
  <2>4. \A v \in Worker : /\ ctx'[v].bridge = ctx[v].bridge
                          /\ ctx[v].port_close_emitted => ctx'[v].port_close_emitted
    <3>1. ctx \in [Worker -> Context]
      BY <1>4, CtxTypes
    <3> QED BY <1>4, <2>3, <3>1 DEF Context
  <2>5. Excuses
    BY <2>2, <2>4 DEF Excuses, Excused, Gone
  <2> QED BY <2>1, <2>2, <2>5, TakeBypasses DEF Rest
<1> QED BY <1>1, <1>2, <1>3, <1>4

LEMMA KeptStep == AllKept /\ [Next]_vars => AllKept'
<1> SUFFICES ASSUME AllKept, [Next]_vars PROVE AllKept'
  OBVIOUS
<1>1. TypeOK /\ TypeOK'
  BY TypeStep DEF AllKept
<1>2. Rest => \A w \in Worker : Kept(w)'
  BY KeptRest DEF Rest
<1>3. CASE UNCHANGED vars
  <2>1. Excuses
    BY <1>3 DEF vars, Excuses, Excused, Gone
  <2> QED BY <1>1, <1>2, <1>3, <2>1 DEF vars, Rest, Bypassed, AllKept
<1>4. ASSUME NEW w \in Worker, UNCHANGED <<life, delivered>>,
             \A u \in Thread : u # w => io_rx'[u] = io_rx[u],
             \A v \in Worker : v # w => /\ ctx'[v] = ctx[v]
                                        /\ to_worker'[v] = to_worker[v] /\ sent'[v] = sent[v],
             Kept(w)'
      PROVE  \A v \in Worker : Kept(v)'
  <2>1. ASSUME NEW v \in Worker, v # w PROVE Kept(v)'
    <3>1. Bypassed(v) /\ (Excused(v) => Excused(v)')
      BY <1>4, <2>1 DEF Bypassed, Excused, Gone, Thread
    <3> QED BY <1>1, <1>4, <2>1, <3>1, KeptBypassed DEF AllKept
  <2> QED BY <1>4, <2>1
<1>5. ASSUME NEW t \in Thread, NEW w \in Worker, PostToWorker(t, w) \/ TerminateWorker(t, w)
      PROVE  \A v \in Worker : Kept(v)'
  <2>1. PICK d \in Seq(Nat), q \in Seq(Task), r \in Seq(Nat), s \in Nat :
          d = delivered[w] /\ q = io_rx[w] /\ r = to_worker[w] /\ s = sent[w]
    BY <1>1, CtxTypes DEF TypeOK
  <2>2. /\ UNCHANGED <<life, ctx, io_rx, delivered>>
        /\ \/ to_worker' = [to_worker EXCEPT ![w] = Append(r, s + 1)] /\ sent' = [sent EXCEPT ![w] = s + 1]
           \/ to_worker' = [to_worker EXCEPT ![w] = Append(r, Terminate)] /\ sent' = sent
    BY <1>5, <2>1 DEF PostToWorker, TerminateWorker, worker_call
  <2>3. to_worker \in [Worker -> Seq(Nat)] /\ sent \in [Worker -> Nat]
    BY <1>1 DEF TypeOK
  <2>4. Kept(w)'
    <3>1. CASE Excused(w)
      BY <2>2, <3>1 DEF Kept, Excused, Gone
    <3>2. CASE KeptIn(d, q, r, s)
      <4>1. KeptIn(d, q, Append(r, Terminate), s) /\ KeptIn(d, q, Append(r, s + 1), s + 1)
        BY <3>2, KeptPost
      <4>2. KeptIn(d, q, to_worker'[w], sent'[w])
        BY <2>1, <2>2, <2>3, <4>1
      <4> QED BY <2>1, <2>2, <4>2 DEF Kept
    <3> QED BY <2>1, <3>1, <3>2 DEF AllKept, Kept
  <2> QED BY <1>4, <2>2, <2>3, <2>4
<1>6. ASSUME NEW w \in Worker, Forward(w) PROVE \A v \in Worker : Kept(v)'
  <2>1. PICK d \in Seq(Nat), q \in Seq(Task), r \in Seq(Nat), s \in Nat :
          d = delivered[w] /\ q = io_rx[w] /\ r = to_worker[w] /\ s = sent[w]
    BY <1>1, CtxTypes DEF TypeOK
  <2>2. /\ UNCHANGED <<life, delivered, sent>> /\ r # <<>>
        /\ \/ /\ Head(r) # Terminate /\ UNCHANGED ctx
              /\ io_rx' = [io_rx EXCEPT ![w] = Append(q, Own("deliver", Head(r)))]
              /\ to_worker' = [to_worker EXCEPT ![w] = Tail(r)]
           \/ /\ ctx' = [ctx EXCEPT ![w].bridge = "off"]
              /\ io_rx' = [io_rx EXCEPT ![w] = Append(q, Own("release", 0))]
              /\ to_worker' = [to_worker EXCEPT ![w] = <<>>]
    BY <1>6, <2>1 DEF Forward, Send
  <2>3. /\ to_worker \in [Worker -> Seq(Nat)] /\ io_rx \in [Thread -> Seq(Task)]
        /\ ctx \in [Worker -> Context] /\ w \in Thread
    BY <1>1, CtxTypes DEF TypeOK
  <2>4. Kept(w)'
    <3>1. CASE ctx' = [ctx EXCEPT ![w].bridge = "off"]
      <4>1. ctx'[w].bridge = "off"
        BY <2>3, <3>1 DEF Context
      <4> QED BY <4>1 DEF Kept, Excused
    <3>2. CASE UNCHANGED ctx /\ Excused(w)
      BY <2>2, <3>2 DEF Kept, Excused, Gone
    <3>3. CASE /\ Head(r) # Terminate /\ KeptIn(d, q, r, s)
               /\ io_rx' = [io_rx EXCEPT ![w] = Append(q, Own("deliver", Head(r)))]
               /\ to_worker' = [to_worker EXCEPT ![w] = Tail(r)]
      <4>1. KeptIn(d, Append(q, Own("deliver", Head(r))), Tail(r), s)
        BY <2>2, <3>3, KeptForward
      <4>2. io_rx'[w] = Append(q, Own("deliver", Head(r))) /\ to_worker'[w] = Tail(r)
        BY <2>3, <3>3
      <4> QED BY <2>1, <2>2, <4>1, <4>2 DEF Kept
    <3> QED BY <2>1, <2>2, <3>1, <3>2, <3>3 DEF AllKept, Kept
  <2>5. \A v \in Worker : v # w => ctx'[v] = ctx[v] /\ to_worker'[v] = to_worker[v]
    BY <2>2, <2>3
  <2>6. \A u \in Thread : u # w => io_rx'[u] = io_rx[u]
    BY <2>2, <2>3
  <2> QED BY <1>4, <2>2, <2>4, <2>5, <2>6
<1>7. ASSUME NEW w \in Worker, ParentDeliver(w) PROVE \A v \in Worker : Kept(v)'
  <2>1. PICK d \in Seq(Nat), q \in Seq(Task), r \in Seq(Nat), s \in Nat :
          d = delivered[w] /\ q = io_rx[w] /\ r = to_worker[w] /\ s = sent[w]
    BY <1>1, CtxTypes DEF TypeOK
  <2>2. /\ UNCHANGED <<life, ctx, to_worker, sent>> /\ q # <<>> /\ Head(q).kind = "deliver"
        /\ io_rx' = [io_rx EXCEPT ![w] = Tail(q)]
        /\ \/ ctx[w].port_close_emitted /\ delivered' = delivered
           \/ ~ctx[w].port_close_emitted /\ delivered' = [delivered EXCEPT ![w] = Append(d, Head(q).n)]
    BY <1>7, <2>1 DEF ParentDeliver, Receiving, Take
  <2>3. /\ io_rx \in [Thread -> Seq(Task)] /\ w \in Thread /\ delivered \in [Worker -> Seq(Nat)]
    BY <1>1, CtxTypes DEF TypeOK
  <2>4. Kept(w)'
    <3>1. CASE Excused(w)
      BY <2>2, <3>1 DEF Kept, Excused, Gone
    <3>2. CASE KeptIn(d, q, r, s) /\ ~Excused(w)
      <4>1. KeptIn(Append(d, Head(q).n), Tail(q), r, s)
        BY <2>2, <3>2, KeptTake
      <4>2. delivered'[w] = Append(d, Head(q).n) /\ io_rx'[w] = Tail(q)
        BY <2>2, <2>3, <3>2 DEF Excused
      <4> QED BY <2>1, <2>2, <4>1, <4>2 DEF Kept
    <3> QED BY <2>1, <3>1, <3>2 DEF AllKept, Kept
  <2>5. ASSUME NEW v \in Worker, v # w PROVE Kept(v)'
    <3>1. /\ Bypassed(v) /\ (Excused(v) => Excused(v)') /\ delivered'[v] = delivered[v]
          /\ to_worker'[v] = to_worker[v] /\ sent'[v] = sent[v]
      BY <2>2, <2>3, <2>5 DEF Bypassed, Excused, Gone, Thread
    <3> QED BY <1>1, <2>5, <3>1, KeptBypassed DEF AllKept
  <2> QED BY <2>4, <2>5
<1>8. ASSUME NEW t \in Thread, ScheduleWork(t) PROVE \A v \in Worker : Kept(v)'
  <2>1. Excuses
    BY <1>1, <1>8, Excusing DEF ScheduleWork
  <2>2. Rest
    BY <1>8, <2>1 DEF ScheduleWork, Rest, Bypassed
  <2> QED BY <1>2, <2>2
<1>9. ASSUME NEW t \in Thread, Ends(t) \/ Loop(t) PROVE \A v \in Worker : Kept(v)'
  BY <1>1, <1>2, <1>7, <1>9, RestEnds, RestTasks DEF Ends, Loop, Receive
<1>10. ASSUME NEW w \in Worker, start_parent_bridge(w) \/ PostToParent(w) \/ close_parent_port(w)
       PROVE  \A v \in Worker : Kept(v)'
  BY <1>1, <1>2, <1>10, CtxTypes, RestCalls
<1>11. ASSUME NEW w \in Worker, StartThread(w) PROVE \A v \in Worker : Kept(v)'
  BY <1>1, <1>2, <1>11, CtxTypes, RestTasks
<1>12. ASSUME NEW w \in Worker, NEW c \in Code,
              SetExitCode(w, c) \/ ProcessExit(w, c) \/ ProcessExitAgain(w, c)
       PROVE  \A v \in Worker : Kept(v)'
  BY <1>1, <1>2, <1>12, CtxTypes, RestCalls, RestEnds
<1>13. ASSUME NEW t \in Thread, NEW w \in Worker, construct_worker(t, w)
       PROVE  \A v \in Worker : Kept(v)'
  BY <1>1, <1>2, <1>13, RestCalls
<1> HIDE DEF loops, messages
<1> QED BY <1>1, <1>3, <1>5, <1>6, <1>8, <1>9, <1>10, <1>11, <1>12, <1>13 DEF Next, AllKept

LEMMA KeptInit == Init => AllKept
<1> SUFFICES ASSUME Init, NEW w \in Worker PROVE KeptIn(delivered[w], io_rx[w], to_worker[w], sent[w])
  BY TypeInit DEF AllKept, Kept
<1>1. delivered[w] = <<>> /\ io_rx[w] = <<>> /\ to_worker[w] = <<>> /\ sent[w] = 0
  BY DEF Init, Thread
<1>2. InOrder(Under(DeliverNo, <<>>), 0, 0) /\ InOrder(<<>>, 0, 0)
  BY DEF InOrder, Under
<1> QED BY <1>1, <1>2 DEF KeptIn

LEMMA KeptMeans == AllKept => MessagesKept
<1> SUFFICES ASSUME AllKept, NEW w \in Worker, ~Excused(w)
    PROVE  /\ \A i \in DOMAIN delivered[w] : delivered[w][i] = i
           /\ \E n \in Len(delivered[w]) .. sent[w] :
                InOrder(Forwarded(w), Len(delivered[w]), n) /\ InOrder(to_worker[w], n, sent[w])
  BY DEF MessagesKept, Excused
<1>1. KeptIn(delivered[w], io_rx[w], to_worker[w], sent[w])
  BY DEF AllKept, Kept
<1>2. io_rx[w] \in Seq(Task)
  BY CtxTypes DEF AllKept, TypeOK
<1>3. \A i \in DOMAIN io_rx[w] : io_rx[w][i] \in Task
  BY <1>2, LenProperties
<1>4. Forwarded(w) = Under(DeliverNo, io_rx[w])
  BY <1>3 DEF Forwarded, Under, DeliverNo
<1> QED BY <1>1, <1>4 DEF KeptIn

\* While a worker's port is open, every message sent to it was emitted, waits in
\* its loop or waits for its bridge, once and in the order of the calls.
THEOREM MessagesKeptCorrect == Spec => []MessagesKept
  BY KeptInit, KeptStep, KeptMeans, PTL DEF Spec

----------------------------------------------------------------------------
(* The events of a worker: h were emitted, q is its parent's channel, p      *)
(* messages were posted, and the worker that is gone has told its parent     *)
(* `total' things; `last' of them were sent.                                 *)

From(e, w) == e.kind \in MainEvents /\ e.from = w

EventNo(w, p, total) ==
  [e \in Task |->
    IF ~From(e, w) THEN 0
    ELSE IF e.kind = "online" THEN 1
    ELSE IF e.kind = "message" THEN e.n + 1
    ELSE IF e.kind = "error" THEN p + 2 ELSE total]

Proper(e, p, gone, total) ==
  /\ e.kind = "message" => e.n \in 1 .. p
  /\ e.kind = "error" => gone /\ total = p + 3
  /\ e.kind = "exit" => gone /\ total >= p + 2

Stream(w, h, q, p, gone, total, last) ==
  /\ Len(h) <= last
  /\ \A i \in DOMAIN h : /\ From(h[i], w) /\ Proper(h[i], p, gone, total)
                         /\ EventNo(w, p, total)[h[i]] = i
  /\ \A i \in DOMAIN q : From(q[i], w) => Proper(q[i], p, gone, total)
  /\ InOrder(Under(EventNo(w, p, total), q), Len(h), last)

LEMMA EventNos ==
  ASSUME NEW w \in Worker, NEW p \in Nat, NEW total \in Nat
  PROVE  /\ EventNo(w, p, total) \in [Task -> Nat]
         /\ \A e \in Task : ~From(e, w) => EventNo(w, p, total)[e] = 0
<1>1. \A e \in Task : e.n \in Nat
  BY DEF Task
<1> QED BY <1>1 DEF EventNo

LEMMA EventKinds ==
  ASSUME NEW w \in Worker, NEW p \in Nat, NEW total \in Nat, NEW e \in Task, From(e, w)
  PROVE  /\ e.kind = "online" => EventNo(w, p, total)[e] = 1
         /\ e.kind = "message" => EventNo(w, p, total)[e] = e.n + 1
         /\ e.kind = "error" => EventNo(w, p, total)[e] = p + 2
         /\ e.kind = "exit" => EventNo(w, p, total)[e] = total
         /\ e.kind \in {"online", "message", "error", "exit"} /\ e.n \in Nat
<1>1. e.n \in Nat
  BY DEF Task
<1> QED BY <1>1 DEF EventNo, From, MainEvents

LEMMA Numbered ==
  ASSUME NEW w \in Worker, NEW p \in Nat, NEW gone \in BOOLEAN, NEW total \in Nat,
         NEW e \in Task, From(e, w), Proper(e, p, gone, total)
  PROVE  EventNo(w, p, total)[e] # 0
<1> DEFINE F == EventNo(w, p, total)
<1>1. /\ e.kind = "online" => F[e] = 1
      /\ e.kind = "message" => F[e] = e.n + 1
      /\ e.kind = "error" => F[e] = p + 2
      /\ e.kind = "exit" => F[e] = total
  BY EventKinds
<1>2. e.kind \in {"online", "message", "error", "exit"}
  BY DEF From, MainEvents
<1>3. /\ e.kind = "message" => e.n \in 1 .. p
      /\ e.kind = "exit" => total >= p + 2
  BY DEF Proper
<1> HIDE DEF F
<1> QED BY <1>1, <1>2, <1>3 DEF F

(* An element more at the end of the channel. *)
LEMMA StreamSends ==
  ASSUME NEW w \in Worker, NEW h \in Seq(Task), NEW q \in Seq(Task), NEW p \in Nat, NEW gone \in BOOLEAN,
         NEW total \in Nat, NEW last \in Nat, NEW next \in Nat, NEW e \in Task,
         Stream(w, h, q, p, gone, total, last),
         From(e, w) => Proper(e, p, gone, total),
         \/ EventNo(w, p, total)[e] = 0 /\ next = last
         \/ EventNo(w, p, total)[e] = last + 1 /\ next = last + 1
  PROVE  Stream(w, h, Append(q, e), p, gone, total, next)
<1> DEFINE F == EventNo(w, p, total)
<1>1. /\ F \in [Task -> Nat] /\ Len(h) \in Nat /\ Len(h) <= last
      /\ InOrder(Under(F, q), Len(h), last)
  BY EventNos, LenProperties DEF Stream
<1>2. (F[e] = 0 /\ next = last) \/ (F[e] = last + 1 /\ next = last + 1)
  OBVIOUS
<1> HIDE DEF F
<1>3. InOrder(Under(F, Append(q, e)), Len(h), next)
  BY <1>1, <1>2, UnderAppend
<1>4. \A i \in DOMAIN Append(q, e) :
        From(Append(q, e)[i], w) => Proper(Append(q, e)[i], p, gone, total)
  <2>1. /\ Len(q) \in Nat /\ DOMAIN q = 1 .. Len(q) /\ DOMAIN Append(q, e) = 1 .. Len(q) + 1
        /\ \A i \in 1 .. Len(q) : Append(q, e)[i] = q[i]
        /\ Append(q, e)[Len(q) + 1] = e
    BY LenProperties, AppendProperties
  <2>2. \A i \in 1 .. Len(q) + 1 : i \in 1 .. Len(q) \/ i = Len(q) + 1
    BY <2>1
  <2>3. \A i \in 1 .. Len(q) : From(q[i], w) => Proper(q[i], p, gone, total)
    BY <2>1 DEF Stream
  <2> QED BY <2>1, <2>2, <2>3
<1>5. Len(h) <= next
  BY <1>1, <1>2
<1> QED BY <1>3, <1>4, <1>5 DEF Stream, F

LEMMA StreamPasses ==
  ASSUME NEW w \in Worker, NEW h \in Seq(Task), NEW q \in Seq(Task), NEW p \in Nat, NEW gone \in BOOLEAN,
         NEW total \in Nat, NEW last \in Nat, NEW e \in Task, ~From(e, w),
         Stream(w, h, q, p, gone, total, last)
  PROVE  Stream(w, h, Append(q, e), p, gone, total, last)
  BY EventNos, StreamSends

LEMMA StreamGains ==
  ASSUME NEW w \in Worker, NEW h \in Seq(Task), NEW q \in Seq(Task), NEW p \in Nat, NEW gone \in BOOLEAN,
         NEW total \in Nat, NEW last \in Nat, NEW next \in Nat, NEW e \in Task,
         Stream(w, h, q, p, gone, total, last), Proper(e, p, gone, total),
         EventNo(w, p, total)[e] = next, next = last + 1
  PROVE  Stream(w, h, Append(q, e), p, gone, total, next)
  BY StreamSends

(* The channel's first element is taken. *)
LEMMA StreamTakes ==
  ASSUME NEW w \in Worker, NEW h \in Seq(Task), NEW q \in Seq(Task), NEW p \in Nat, NEW gone \in BOOLEAN,
         NEW total \in Nat, NEW last \in Nat, q # <<>>,
         Stream(w, h, q, p, gone, total, last)
  PROVE  /\ ~From(Head(q), w) => Stream(w, h, Tail(q), p, gone, total, last)
         /\ From(Head(q), w) => /\ Len(h) + 1 <= last
                                /\ Stream(w, Append(h, Head(q)), Tail(q), p, gone, total, last)
<1> DEFINE F == EventNo(w, p, total)
           e == Head(q)
<1>1. /\ F \in [Task -> Nat] /\ Len(h) \in Nat /\ Len(h) <= last /\ DOMAIN h = 1 .. Len(h)
      /\ InOrder(Under(F, q), Len(h), last)
  BY EventNos, LenProperties DEF Stream
<1>2. /\ Len(q) \in Nat \ {0} /\ DOMAIN q = 1 .. Len(q) /\ DOMAIN Tail(q) = 1 .. Len(q) - 1
      /\ \A i \in 1 .. Len(q) - 1 : Tail(q)[i] = q[i + 1] /\ i + 1 \in DOMAIN q
      /\ e = q[1] /\ 1 \in DOMAIN q /\ e \in Task
  BY LenProperties, HeadTailProperties, EmptySeq
<1>3. \A i \in DOMAIN Tail(q) : From(Tail(q)[i], w) => Proper(Tail(q)[i], p, gone, total)
  BY <1>2 DEF Stream
<1>4. /\ ~From(e, w) => F[e] = 0
      /\ From(e, w) => F[e] # 0 /\ Proper(e, p, gone, total)
  <2>1. From(e, w) => Proper(e, p, gone, total)
    BY <1>2 DEF Stream
  <2>2. From(e, w) => F[e] # 0
    BY <1>2, <2>1, Numbered
  <2>3. ~From(e, w) => F[e] = 0
    BY <1>2, EventNos
  <2> QED BY <2>1, <2>2, <2>3
<1> HIDE DEF F, e
<1>5. /\ F[e] = 0 => InOrder(Under(F, Tail(q)), Len(h), last)
      /\ F[e] # 0 => /\ F[e] = Len(h) + 1 /\ Len(h) + 1 <= last
                     /\ InOrder(Under(F, Tail(q)), Len(h) + 1, last)
  BY <1>1, UnderTail DEF e
<1>6. CASE ~From(e, w)
  BY <1>1, <1>3, <1>4, <1>5, <1>6 DEF Stream, F, e
<1>7. CASE From(e, w)
  <2>1. PICK g \in Seq(Task) : g = Append(h, e)
    BY <1>2, AppendProperties
  <2>2. /\ Len(g) = Len(h) + 1 /\ DOMAIN g = 1 .. Len(h) + 1
        /\ \A i \in 1 .. Len(h) : g[i] = h[i]
        /\ g[Len(h) + 1] = e
    BY <1>1, <1>2, <2>1, LenProperties, AppendProperties
  <2>3. \A i \in 1 .. Len(h) + 1 : i \in 1 .. Len(h) \/ i = Len(h) + 1
    <3>1. Len(h) \in Nat
      BY <1>1
    <3> QED BY <3>1
  <2>4. \A i \in 1 .. Len(h) : From(h[i], w) /\ Proper(h[i], p, gone, total) /\ F[h[i]] = i
    BY <1>1 DEF Stream, F
  <2>5. \A i \in DOMAIN g : From(g[i], w) /\ Proper(g[i], p, gone, total) /\ F[g[i]] = i
    BY <1>4, <1>5, <1>7, <2>2, <2>3, <2>4
  <2>6. Len(g) <= last /\ InOrder(Under(F, Tail(q)), Len(g), last)
    BY <1>4, <1>5, <1>7, <2>2
  <2>7. Stream(w, g, Tail(q), p, gone, total, last)
    BY <1>3, <2>5, <2>6 DEF Stream, F
  <2>8. Len(h) + 1 <= last
    BY <1>4, <1>5, <1>7
  <2> QED BY <1>7, <2>1, <2>7, <2>8 DEF e
<1> QED BY <1>6, <1>7 DEF e

(* A worker that runs posts more, or is gone: its earlier events stay as they are. *)
LEMMA StreamTurns ==
  ASSUME NEW w \in Worker, NEW h \in Seq(Task), NEW q \in Seq(Task), NEW p \in Nat, NEW total \in Nat,
         NEW last \in Nat, NEW was \in BOOLEAN, ~was, Stream(w, h, q, p, was, total, last),
         NEW m \in Nat, m >= p, NEW gone \in BOOLEAN, NEW sum \in Nat
  PROVE  Stream(w, h, q, m, gone, sum, last)
<1> DEFINE F == EventNo(w, p, total)
           G == EventNo(w, m, sum)
<1>1. ASSUME NEW e \in Task, From(e, w) => Proper(e, p, was, total)
      PROVE  G[e] = F[e] /\ (From(e, w) => Proper(e, m, gone, sum))
  <2>1. CASE ~From(e, w)
    <3>1. F[e] = 0 /\ G[e] = 0
      BY <2>1, EventNos
    <3> QED BY <2>1, <3>1
  <2>2. CASE From(e, w)
    <3>1. e.kind \in {"online", "message"} /\ (e.kind = "message" => e.n \in 1 .. m)
      BY <1>1, <2>2 DEF Proper, From, MainEvents
    <3>2. /\ e.kind = "online" => F[e] = 1 /\ G[e] = 1
          /\ e.kind = "message" => F[e] = e.n + 1 /\ G[e] = e.n + 1
      <4>1. /\ e.kind = "online" => F[e] = 1
            /\ e.kind = "message" => F[e] = e.n + 1
        BY <2>2, EventKinds
      <4>2. /\ e.kind = "online" => G[e] = 1
            /\ e.kind = "message" => G[e] = e.n + 1
        BY <2>2, EventKinds
      <4> QED BY <4>1, <4>2
    <3>3. G[e] = F[e]
      BY <3>1, <3>2
    <3> QED BY <3>1, <3>3 DEF Proper
  <2> QED BY <2>1, <2>2
<1>2. \A i \in DOMAIN q : q[i] \in Task /\ (From(q[i], w) => Proper(q[i], p, was, total))
  BY LenProperties DEF Stream
<1>3. \A i \in DOMAIN h : h[i] \in Task /\ From(h[i], w) /\ Proper(h[i], p, was, total) /\ F[h[i]] = i
  BY LenProperties DEF Stream
<1>4. Len(h) <= last /\ InOrder(Under(F, q), Len(h), last)
  BY DEF Stream
<1> HIDE DEF F, G
<1>5. Under(G, q) = Under(F, q)
  BY <1>1, <1>2 DEF Under
<1> QED BY <1>1, <1>2, <1>3, <1>4, <1>5 DEF Stream, G

\* What a worker will have told its parent, as things stand: nothing before it
\* starts, then that it is online and its messages, and its end.
Lasts(w, total) ==
  /\ life[w] \in {"unborn", "spawned"} => total = 0 /\ posted[w] = 0
  /\ life[w] = "on" => total = posted[w] + 1
  /\ Gone(w) => total \in {posted[w] + 2, posted[w] + 3}

Told(w) ==
  \E total \in Nat :
    /\ Lasts(w, total)
    /\ Stream(w, heard[w], io_rx[ctx[w].parent], posted[w], Gone(w), total, total)

HeardExit(w) == heard[w] # <<>> /\ heard[w][Len(heard[w])].kind = "exit"

\* A worker leaves its parent's registry when its exit has been emitted.
Exits ==
  /\ \A t \in Thread : running[t].is = "exit" => HeardExit(running[t].of)
  /\ \A w \in Worker \ WORKERS : life[w] # "unborn" => HeardExit(w)

EventsInv == IInv /\ (\A w \in Worker : Told(w)) /\ Exits

LEMMA EventsInit == Init => EventsInv
<1> SUFFICES ASSUME Init PROVE (\A w \in Worker : Told(w)) /\ Exits
  BY InvInit DEF EventsInv
<1>1. ASSUME NEW w \in Worker PROVE Told(w)
  <2>1. /\ life[w] = "unborn" /\ posted[w] = 0 /\ heard[w] = <<>> /\ ctx[w].parent = Main
        /\ io_rx[Main] = <<>>
    BY WorkersAssumption DEF Init, Thread
  <2>2. Lasts(w, 0)
    BY <2>1 DEF Lasts, Gone
  <2>3. InOrder(Under(EventNo(w, 0, 0), <<>>), 0, 0)
    BY DEF InOrder, Under
  <2>4. Stream(w, <<>>, <<>>, 0, Gone(w), 0, 0)
    BY <2>3 DEF Stream
  <2> QED BY <2>1, <2>2, <2>4 DEF Told
<1>2. Exits
  <2>1. \A t \in Thread : running[t].is # "exit"
    BY DEF Init, Do
  <2>2. \A w \in Worker : life[w] = "unborn"
    BY WorkersAssumption DEF Init, Thread
  <2> QED BY <2>1, <2>2 DEF Exits
<1> QED BY <1>1, <1>2

LEMMA EventsMean == EventsInv => EventsInOrder
<1> SUFFICES ASSUME EventsInv, NEW w \in Worker, NEW i \in DOMAIN heard[w]
    PROVE  LET e == heard[w][i]
           IN  /\ e.kind = "online" <=> i = 1
               /\ e.kind = "message" => e.n = i - 1
               /\ e.kind = "error" => i \in {posted[w] + 2, Len(heard[w]), Len(heard[w]) - 1}
               /\ e.kind = "exit" => /\ i = Len(heard[w])
                                     /\ i \in {posted[w] + 2, posted[w] + 3}
                                     /\ i = posted[w] + 3 => heard[w][i - 1].kind = "error"
  BY DEF EventsInOrder
<1>1. PICK h \in Seq(Task), p \in Nat : h = heard[w] /\ p = posted[w]
  BY DEF EventsInv, IInv, TypeOK
<1>2. PICK total \in Nat :
        Lasts(w, total) /\ Stream(w, h, io_rx[ctx[w].parent], p, Gone(w), total, total)
  BY <1>1 DEF EventsInv, Told
<1>3. /\ Len(h) \in Nat /\ Len(h) <= total /\ DOMAIN h = 1 .. Len(h)
      /\ \A j \in 1 .. Len(h) : /\ h[j] \in Task /\ From(h[j], w) /\ Proper(h[j], p, Gone(w), total)
                                /\ EventNo(w, p, total)[h[j]] = j
  BY <1>2, LenProperties, ElementOfSeq DEF Stream
<1>4. \A j \in 1 .. Len(h) :
        /\ h[j].kind = "online" => j = 1
        /\ h[j].kind = "message" => j = h[j].n + 1 /\ h[j].n \in 1 .. p
        /\ h[j].kind = "error" => j = p + 2
        /\ h[j].kind = "exit" => j = total /\ Gone(w) /\ total >= p + 2
        /\ h[j].kind \in {"online", "message", "error", "exit"}
  <2>1. ASSUME NEW j \in 1 .. Len(h)
        PROVE  /\ h[j].kind = "online" => j = 1
               /\ h[j].kind = "message" => j = h[j].n + 1 /\ h[j].n \in 1 .. p
               /\ h[j].kind = "error" => j = p + 2
               /\ h[j].kind = "exit" => j = total /\ Gone(w) /\ total >= p + 2
               /\ h[j].kind \in {"online", "message", "error", "exit"}
    <3>1. PICK e \in Task : e = h[j]
      BY <1>3
    <3>2. From(e, w) /\ Proper(e, p, Gone(w), total) /\ EventNo(w, p, total)[e] = j
      BY <1>3, <3>1
    <3>3. /\ e.kind = "online" => j = 1
          /\ e.kind = "message" => j = e.n + 1
          /\ e.kind = "error" => j = p + 2
          /\ e.kind = "exit" => j = total
          /\ e.kind \in {"online", "message", "error", "exit"}
      BY <3>2, EventKinds
    <3>4. /\ e.kind = "message" => e.n \in 1 .. p
          /\ e.kind = "exit" => Gone(w) /\ total >= p + 2
      BY <3>2 DEF Proper
    <3> QED BY <3>1, <3>3, <3>4
  <2> QED BY <2>1
<1>5. i \in 1 .. Len(h)
  BY <1>1, <1>3
<1>6. i = 1 => h[i].kind = "online"
  BY <1>4, <1>5
<1>7. ASSUME h[i].kind = "exit"
      PROVE  /\ i = Len(h) /\ i \in {p + 2, p + 3}
             /\ i = p + 3 => h[i - 1].kind = "error"
  <2>2. i = total /\ Gone(w) /\ i = Len(h)
    BY <1>3, <1>4, <1>5, <1>7
  <2>3. i \in {p + 2, p + 3}
    BY <1>1, <1>2, <2>2 DEF Lasts
  <2>4. ASSUME i = p + 3 PROVE h[i - 1].kind = "error"
    <3>1. i - 1 \in 1 .. Len(h) /\ i - 1 = p + 2 /\ i - 1 # total
      BY <1>5, <2>2, <2>4
    <3> QED BY <1>4, <3>1
  <2> QED BY <2>2, <2>3, <2>4
<1>8. /\ h[i].kind = "online" <=> i = 1
      /\ h[i].kind = "message" => h[i].n = i - 1
      /\ h[i].kind = "error" => i = p + 2
  <2>1. h[i].kind = "message" => i = h[i].n + 1 /\ h[i].n \in Nat
    BY <1>4, <1>5
  <2> QED BY <1>4, <1>5, <1>6, <2>1
<1>9. /\ h[i].kind = "error" => i \in {p + 2, Len(h), Len(h) - 1}
      /\ h[i].kind = "exit" => i \in {p + 2, p + 3}
  BY <1>7, <1>8
<1> QED BY <1>1, <1>7, <1>8, <1>9

----------------------------------------------------------------------------
(* What a step does to a loop's channel when it is no event of the worker. *)

Aside(t, w) ==
  \/ io_rx'[t] = io_rx[t]
  \/ io_rx[t] # <<>> /\ ~From(Head(io_rx[t]), w) /\ io_rx'[t] = Tail(io_rx[t])
  \/ \E a \in Task : ~From(a, w) /\ io_rx'[t] = Append(io_rx[t], a)
  \/ \E a, b \in Task : /\ ~From(a, w) /\ ~From(b, w)
                        /\ io_rx'[t] = Append(Append(io_rx[t], a), b)

Untold(w) ==
  /\ heard'[w] = heard[w] /\ posted'[w] = posted[w] /\ life'[w] = life[w]
  /\ ctx'[w].parent = ctx[w].parent
  /\ \A t \in Thread : Aside(t, w)

LEMMA ToldAside ==
  ASSUME TypeOK, NEW w \in Worker, Told(w), Untold(w)
  PROVE  Told(w)'
<1> DEFINE t == ctx[w].parent
<1>1. t \in Thread /\ t = ctx'[w].parent
  BY CtxTypes DEF Untold
<1>2. PICK q \in Seq(Task), h \in Seq(Task), p \in Nat : q = io_rx[t] /\ h = heard[w] /\ p = posted[w]
  BY <1>1 DEF TypeOK
<1> DEFINE gone == Gone(w)
<1>3. PICK total \in Nat : Lasts(w, total) /\ Stream(w, h, q, p, gone, total, total)
  BY <1>2 DEF Told
<1>4. gone \in BOOLEAN
  BY DEF Gone
<1> HIDE DEF gone
<1>5. \A a \in Task : ~From(a, w) =>
        Append(q, a) \in Seq(Task) /\ Stream(w, h, Append(q, a), p, gone, total, total)
  BY <1>3, <1>4, StreamPasses, AppendProperties
<1>6. \A a, b \in Task : ~From(a, w) /\ ~From(b, w) =>
        Stream(w, h, Append(Append(q, a), b), p, gone, total, total)
  <2>1. ASSUME NEW a \in Task, NEW b \in Task, ~From(a, w), ~From(b, w)
        PROVE  Stream(w, h, Append(Append(q, a), b), p, gone, total, total)
    <3>1. PICK qa \in Seq(Task) : qa = Append(q, a) /\ Stream(w, h, qa, p, gone, total, total)
      BY <1>5, <2>1
    <3>2. Stream(w, h, Append(qa, b), p, gone, total, total)
      BY <1>4, <2>1, <3>1, StreamPasses
    <3> QED BY <3>1, <3>2
  <2> QED BY <2>1
<1>7. q # <<>> /\ ~From(Head(q), w) => Stream(w, h, Tail(q), p, gone, total, total)
  BY <1>3, <1>4, StreamTakes
<1>8. Stream(w, h, io_rx'[t], p, gone, total, total)
  <2>1. Aside(t, w)
    BY <1>1 DEF Untold
  <2> HIDE DEF t
  <2> QED BY <1>2, <1>3, <1>4, <1>5, <1>6, <1>7, <2>1 DEF Aside
<1>9. Lasts(w, total)' /\ gone = Gone(w)'
  BY <1>3 DEF Untold, Lasts, Gone, gone
<1> QED BY <1>1, <1>2, <1>8, <1>9 DEF Told, Untold

(* Once a worker's exit was emitted nothing of it is left. *)
LEMMA NoneAfterExit ==
  ASSUME TypeOK, NEW w \in Worker, Told(w), HeardExit(w), io_rx[ctx[w].parent] # <<>>
  PROVE  ~From(Head(io_rx[ctx[w].parent]), w)
<1> DEFINE t == ctx[w].parent
<1>1. t \in Thread
  BY CtxTypes
<1>2. PICK q \in Seq(Task), h \in Seq(Task), p \in Nat : q = io_rx[t] /\ h = heard[w] /\ p = posted[w]
  BY <1>1 DEF TypeOK
<1> DEFINE gone == Gone(w)
<1>3. gone \in BOOLEAN
  BY DEF Gone
<1>4. PICK total \in Nat : Stream(w, h, q, p, gone, total, total)
  BY <1>2, <1>3 DEF Told
<1> HIDE DEF gone
<1>5. Len(h) = total
  <2>1. Len(h) \in DOMAIN h /\ h[Len(h)] \in Task /\ h[Len(h)].kind = "exit"
    BY <1>2, LenProperties, EmptySeq, ElementOfSeq DEF HeardExit
  <2>2. From(h[Len(h)], w) /\ EventNo(w, p, total)[h[Len(h)]] = Len(h)
    BY <1>4, <2>1 DEF Stream
  <2> QED BY <2>1, <2>2, EventKinds
<1>6. Len(h) \in Nat /\ q # <<>>
  BY <1>2, LenProperties
<1>7. From(Head(q), w) => Len(h) + 1 <= total
  BY <1>3, <1>4, <1>6, StreamTakes
<1> QED BY <1>2, <1>5, <1>6, <1>7

LEMMA SendAside ==
  ASSUME TypeOK, NEW w \in Worker, NEW t \in Thread, NEW task \in Task, Send(t, task), ~From(task, w)
  PROVE  \A u \in Thread : Aside(u, w)
<1>1. io_rx \in [Thread -> Seq(Task)] /\ io_rx' = [io_rx EXCEPT ![t] = Append(io_rx[t], task)]
  BY DEF Send, TypeOK
<1> QED BY <1>1 DEF Aside

LEMMA TakeAside ==
  ASSUME TypeOK, NEW w \in Worker, NEW t \in Thread, Receiving(t), Take(t), ~From(Head(io_rx[t]), w)
  PROVE  \A u \in Thread : Aside(u, w)
  BY Taking DEF Aside

(* A step that emits nothing and lets no worker go. *)
LEMMA ExitsKept ==
  ASSUME EventsInv, UNCHANGED <<heard, WORKERS>>,
         \A t \in Thread : running'[t].is = "exit" => running'[t] = running[t],
         \A w \in Worker : life'[w] # "unborn" => life[w] # "unborn"
  PROVE  Exits'
  BY DEF EventsInv, Exits, HeardExit

LEMMA StacksKept ==
  ASSUME TypeOK,
         \/ running' = running
         \/ \E t \in Thread, is \in {"nothing", "task", "leaving", "exiting"} :
              running' = [running EXCEPT ![t] = Do(is)]
  PROVE  \A u \in Thread : running'[u].is = "exit" => running'[u] = running[u]
<1>1. running \in [Thread -> Activation]
  BY DEF TypeOK
<1>2. \A is \in {"nothing", "task", "leaving", "exiting"} : Do(is).is # "exit"
  BY DEF Do
<1> HIDE DEF Do
<1> QED BY <1>1, <1>2

Calm ==
  /\ Exits' /\ \A w \in Worker : Told(w)'

(* A step that tells no parent anything. *)
LEMMA Calming ==
  ASSUME EventsInv, UNCHANGED <<WORKERS, heard, posted>>,
         \A w \in Worker : life'[w] = life[w] /\ ctx'[w].parent = ctx[w].parent,
         \/ running' = running
         \/ \E t \in Thread, is \in {"nothing", "task", "leaving", "exiting"} :
              running' = [running EXCEPT ![t] = Do(is)],
         \/ io_rx' = io_rx
         \/ \E t \in Thread, k \in {"deliver", "release", "close", "wake"}, n \in Nat : Send(t, Own(k, n))
         \/ \E t \in Thread : Receiving(t) /\ Take(t) /\ Head(io_rx[t]).kind \notin MainEvents
  PROVE  Calm
<1>1. TypeOK
  BY DEF EventsInv, IInv
<1>2. Exits'
  BY <1>1, ExitsKept, StacksKept
<1>3. ASSUME NEW w \in Worker PROVE Told(w)'
  <2>1. CASE io_rx' = io_rx
    BY <1>1, <2>1, ToldAside DEF EventsInv, Untold, Aside
  <2>2. ASSUME NEW t \in Thread, NEW k \in {"deliver", "release", "close", "wake"}, NEW n \in Nat,
               Send(t, Own(k, n))
        PROVE  Told(w)'
    <3>1. Own(k, n) \in Task /\ ~From(Own(k, n), w)
      BY TaskTypes DEF From, Own, MainEvents
    <3>2. \A u \in Thread : Aside(u, w)
      BY <1>1, <2>2, <3>1, SendAside
    <3> QED BY <1>1, <3>2, ToldAside DEF EventsInv, Untold
  <2>3. ASSUME NEW t \in Thread, Receiving(t), Take(t), Head(io_rx[t]).kind \notin MainEvents
        PROVE  Told(w)'
    <3>1. \A u \in Thread : Aside(u, w)
      BY <1>1, <2>3, TakeAside DEF From
    <3> QED BY <1>1, <3>1, ToldAside DEF EventsInv, Untold
  <2> QED BY <2>1, <2>2, <2>3
<1> QED BY <1>2, <1>3 DEF Calm

LEMMA CalmCalls ==
  ASSUME EventsInv, NEW t \in Thread, NEW w \in Worker,
         \/ ScheduleWork(t) \/ PostToWorker(t, w) \/ TerminateWorker(t, w)
         \/ start_parent_bridge(w) \/ close_parent_port(w)
         \/ \E c \in Code : SetExitCode(w, c) \/ ProcessExit(w, c)
  PROVE  Calm
<1>1. TypeOK /\ w \in Thread /\ ctx \in [Worker -> Context]
  BY CtxTypes DEF EventsInv, IInv
<1>2. CASE ScheduleWork(t)
  BY <1>2, Calming DEF ScheduleWork
<1>3. CASE PostToWorker(t, w) \/ TerminateWorker(t, w)
  BY <1>3, Calming DEF PostToWorker, TerminateWorker, worker_call
<1>4. CASE start_parent_bridge(w)
  <2>1. ctx' = [ctx EXCEPT ![w].bridge = "on"]
        /\ UNCHANGED <<WORKERS, heard, posted, life, running, io_rx>>
    BY <1>4 DEF start_parent_bridge
  <2>2. \A v \in Worker : ctx'[v].parent = ctx[v].parent
    BY <1>1, <2>1 DEF Context
  <2> QED BY <2>1, <2>2, Calming
<1>5. CASE close_parent_port(w)
  <2>1. /\ ctx' = [ctx EXCEPT ![w].port_closed = TRUE]
        /\ UNCHANGED <<WORKERS, heard, posted, life, running>> /\ Send(w, Own("close", 0))
    BY <1>5 DEF close_parent_port
  <2>2. \A v \in Worker : ctx'[v].parent = ctx[v].parent
    BY <1>1, <2>1 DEF Context
  <2>3. \E u \in Thread, k \in {"deliver", "release", "close", "wake"}, n \in Nat : Send(u, Own(k, n))
    BY <1>1, <2>1
  <2> QED BY <2>1, <2>2, <2>3, Calming
<1>6. ASSUME NEW c \in Code, SetExitCode(w, c) \/ ProcessExit(w, c) PROVE Calm
  <2>1. /\ \/ ctx' = [ctx EXCEPT ![w].exit_code = c]
           \/ ctx' = [ctx EXCEPT ![w].exit_code = c, ![w].exiting = TRUE]
        /\ UNCHANGED <<WORKERS, heard, posted, life, io_rx>>
        /\ running' = running \/ running' = [running EXCEPT ![w] = Do("exiting")]
    BY <1>6 DEF SetExitCode, ProcessExit
  <2>2. \A v \in Worker : ctx'[v].parent = ctx[v].parent
    BY <1>1, <2>1 DEF Context
  <2> QED BY <1>1, <2>1, <2>2, Calming
<1> QED BY <1>2, <1>3, <1>4, <1>5, <1>6

LEMMA CalmTasks ==
  ASSUME EventsInv, NEW t \in Thread,
         \/ RunWork(t) \/ RunWake(t)
         \/ t \in Worker /\ (Forward(t) \/ ParentDeliver(t) \/ RunRelease(t) \/ RunClose(t))
  PROVE  Calm
<1>1. TypeOK /\ "task" \in {"nothing", "task", "leaving", "exiting"}
  BY DEF EventsInv, IInv
<1>2. CASE RunWork(t)
  BY <1>1, <1>2, Calming DEF RunWork
<1>3. CASE RunWake(t)
  <2>1. Receiving(t) /\ Take(t) /\ Head(io_rx[t]).kind \notin MainEvents
    BY <1>3 DEF RunWake, MainEvents
  <2> QED BY <1>3, <2>1, Calming DEF RunWake
<1>4. ASSUME t \in Worker, ParentDeliver(t) PROVE Calm
  <2>1. Receiving(t) /\ Take(t) /\ Head(io_rx[t]).kind \notin MainEvents
    BY <1>4 DEF ParentDeliver, MainEvents
  <2>2. UNCHANGED <<WORKERS, heard, posted, life, ctx>>
    BY <1>4 DEF ParentDeliver
  <2>3. running' = running \/ running' = [running EXCEPT ![t] = Do("task")]
    BY <1>4 DEF ParentDeliver
  <2> QED BY <2>1, <2>2, <2>3, Calming
<1>5. ASSUME t \in Worker, RunRelease(t) \/ RunClose(t) PROVE Calm
  <2>1. Receiving(t) /\ Take(t) /\ Head(io_rx[t]).kind \notin MainEvents
    BY <1>5 DEF RunRelease, RunClose, MainEvents
  <2>2. UNCHANGED <<WORKERS, heard, posted, life>>
    BY <1>5 DEF RunRelease, RunClose
  <2>3. running' = running \/ running' = [running EXCEPT ![t] = Do("task")]
    BY <1>5 DEF RunRelease, RunClose
  <2>4. \E b \in BOOLEAN :
          \/ ctx' = [ctx EXCEPT ![t].port_released = b]
          \/ ctx' = [ctx EXCEPT ![t].port_close_emitted = TRUE, ![t].port_released = b]
    <3>1. ctx[t].port_released \in BOOLEAN
      BY <1>1, <1>5, CtxTypes DEF Context
    <3> QED BY <1>5, <3>1 DEF RunRelease, RunClose
  <2>5. \A v \in Worker : ctx'[v].parent = ctx[v].parent
    <3>1. ctx \in [Worker -> Context]
      BY <1>1, <1>5, CtxTypes
    <3> QED BY <1>5, <2>4, <3>1 DEF Context
  <2> QED BY <2>1, <2>2, <2>3, <2>5, Calming
<1>6. ASSUME t \in Worker, Forward(t) PROVE Calm
  <2>1. UNCHANGED <<WORKERS, heard, posted, life, running>>
    BY <1>6 DEF Forward
  <2>2. ctx' = ctx \/ ctx' = [ctx EXCEPT ![t].bridge = "off"]
    BY <1>6 DEF Forward
  <2>3. \A v \in Worker : ctx'[v].parent = ctx[v].parent
    <3>1. ctx \in [Worker -> Context]
      BY <1>1, <1>6, CtxTypes
    <3> QED BY <1>6, <2>2, <3>1 DEF Context
  <2>4. \E u \in Thread, k \in {"deliver", "release", "close", "wake"}, n \in Nat : Send(u, Own(k, n))
    <3>1. to_worker[t] \in Seq(Nat) /\ to_worker[t] # <<>>
      BY <1>1, <1>6 DEF Forward, TypeOK
    <3>2. Head(to_worker[t]) \in Nat /\ 0 \in Nat
      BY <3>1, HeadTailProperties
    <3> QED BY <1>6, <3>2 DEF Forward
  <2> QED BY <2>1, <2>3, <2>4, Calming
<1> QED BY <1>2, <1>3, <1>4, <1>5, <1>6

(* A callback that ends, and no worker with it. *)
LEMMA CalmEnds ==
  ASSUME EventsInv, NEW t \in Thread,
         \/ Return(t)
         \/ \E how \in {"left", "dead"} : EndProcess(how)
         \/ /\ running' = [running EXCEPT ![t] = Do("nothing")]
            /\ UNCHANGED <<life, work, open_handles, io_rx, ctx, WORKERS, to_worker, calls, messages>>
         \/ /\ t \in Worker
            /\ running' = [running EXCEPT ![t] = Do("leaving")]
            /\ ctx' = [ctx EXCEPT ![t].exiting = TRUE]
            /\ UNCHANGED <<life, work, open_handles, io_rx, WORKERS, to_worker, calls, messages>>
  PROVE  Calm
<1>1. TypeOK /\ Main \in Thread
  BY DEF EventsInv, IInv, Thread
<1>2. CASE Return(t) \/ (/\ running' = [running EXCEPT ![t] = Do("nothing")]
                         /\ UNCHANGED <<life, work, open_handles, io_rx, ctx, WORKERS, to_worker, calls, messages>>)
  BY <1>2, Calming DEF Return
<1>3. ASSUME NEW how \in {"left", "dead"}, EndProcess(how) PROVE Calm
  <2>1. /\ life' = [life EXCEPT ![Main] = how] /\ running' = [running EXCEPT ![Main] = Do("nothing")]
        /\ UNCHANGED <<io_rx, ctx, WORKERS, heard, posted>>
    BY <1>3 DEF EndProcess
  <2>2. \A w \in Worker : life'[w] = life[w]
    BY <1>1, <2>1, WorkersAssumption DEF TypeOK, Thread
  <2> QED BY <1>1, <2>1, <2>2, Calming
<1>4. ASSUME t \in Worker, running' = [running EXCEPT ![t] = Do("leaving")],
             ctx' = [ctx EXCEPT ![t].exiting = TRUE],
             UNCHANGED <<life, work, open_handles, io_rx, WORKERS, to_worker, calls, messages>>
      PROVE  Calm
  <2>1. \A v \in Worker : ctx'[v].parent = ctx[v].parent
    <3>1. ctx \in [Worker -> Context]
      BY <1>1, <1>4, CtxTypes
    <3> QED BY <1>4, <3>1 DEF Context
  <2> QED BY <1>4, <2>1, Calming
<1> QED BY <1>2, <1>3, <1>4

(* A worker that runs, or starts, tells its parent something. *)
LEMMA Telling ==
  ASSUME TypeOK, NEW w \in Worker, Told(w), ~Gone(w), NEW task \in Task, From(task, w),
         Send(ctx[w].parent, task), heard'[w] = heard[w], ctx'[w].parent = ctx[w].parent,
         NEW m \in Nat, m = posted'[w], m >= posted[w],
         \/ /\ life[w] = "spawned" /\ life'[w] = "on" /\ m = posted[w] /\ task.kind = "online"
         \/ /\ life[w] = "on" /\ life'[w] = "on" /\ m = posted[w] + 1 /\ task.kind = "message" /\ task.n = m
         \/ /\ life[w] = "on" /\ life'[w] \in {"left", "dead"} /\ m = posted[w] /\ task.kind = "exit"
  PROVE  Told(w)'
<1> DEFINE t == ctx[w].parent
           was == Gone(w)
           gone == Gone(w)'
<1>1. t \in Thread /\ t = ctx'[w].parent
  BY CtxTypes
<1>2. PICK q \in Seq(Task), h \in Seq(Task), p \in Nat : q = io_rx[t] /\ h = heard[w] /\ p = posted[w]
  BY <1>1 DEF TypeOK
<1>3. PICK total \in Nat : Lasts(w, total) /\ Stream(w, h, q, p, was, total, total)
  BY <1>2 DEF Told
<1>4. PICK sum \in Nat : sum = total + 1
  OBVIOUS
<1>5. /\ gone \in BOOLEAN /\ was \in BOOLEAN /\ ~was
      /\ task.kind = "online" => ~gone /\ total = 0 /\ p = 0
      /\ task.kind = "message" => ~gone /\ total = p + 1
      /\ task.kind = "exit" => gone /\ total = p + 1
      /\ task.kind \in {"online", "message", "exit"}
  BY <1>2, <1>3 DEF Gone, Lasts
<1>6. Lasts(w, sum)'
  BY <1>2, <1>3, <1>4, <1>5 DEF Lasts, Gone
<1> HIDE DEF gone, was
<1>7. Stream(w, h, q, m, gone, sum, total)
  <2>1. m >= p
    BY <1>2
  <2> QED BY <1>3, <1>5, <2>1, StreamTurns
<1>8. Proper(task, m, gone, sum)
  BY <1>2, <1>4, <1>5 DEF Proper
<1>9. EventNo(w, m, sum)[task] = total + 1
  <2>1. /\ task.kind = "online" => EventNo(w, m, sum)[task] = 1
        /\ task.kind = "message" => EventNo(w, m, sum)[task] = task.n + 1
        /\ task.kind = "exit" => EventNo(w, m, sum)[task] = sum
    BY EventKinds
  <2> QED BY <1>2, <1>4, <1>5, <2>1
<1>10. Stream(w, h, Append(q, task), m, gone, sum, sum)
  <2>1. EventNo(w, m, sum)[task] = sum /\ sum = total + 1 /\ gone \in BOOLEAN
    BY <1>4, <1>5, <1>9
  <2>2. Stream(w, h, q, m, gone, sum, total) /\ Proper(task, m, gone, sum)
    BY <1>7, <1>8
  <2> QED
    BY ONLY <2>1, <2>2, StreamGains, w \in Worker, task \in Task, m \in Nat, sum \in Nat,
            total \in Nat, h \in Seq(Task), q \in Seq(Task)
<1>11. io_rx'[t] = Append(q, task)
  <2>1. io_rx \in [Thread -> Seq(Task)] /\ io_rx' = [io_rx EXCEPT ![t] = Append(io_rx[t], task)]
    BY DEF Send, TypeOK
  <2> QED BY <1>1, <1>2, <2>1
<1>12. Stream(w, heard'[w], io_rx'[ctx'[w].parent], posted'[w], Gone(w)', sum, sum)
  BY <1>1, <1>2, <1>10, <1>11 DEF gone
<1> QED BY <1>6, <1>12 DEF Told

(* The other workers, meanwhile. *)
LEMMA OthersTold ==
  ASSUME EventsInv, NEW w \in Worker, NEW task \in Task, From(task, w), Send(ctx[w].parent, task),
         \A v \in Worker : v # w => life'[v] = life[v] /\ posted'[v] = posted[v],
         \A v \in Worker : ctx'[v].parent = ctx[v].parent,
         UNCHANGED heard
  PROVE  \A v \in Worker : v # w => Told(v)'
<1> SUFFICES ASSUME NEW v \in Worker, v # w PROVE Told(v)'
  OBVIOUS
<1>1. TypeOK /\ ctx[w].parent \in Thread
  BY CtxTypes DEF EventsInv, IInv
<1>2. ~From(task, v)
  BY DEF From
<1>3. \A u \in Thread : Aside(u, v)
  BY <1>1, <1>2, SendAside
<1> QED BY <1>1, <1>3, ToldAside DEF Untold, EventsInv

LEMMA PostTold ==
  ASSUME EventsInv, NEW w \in Worker, PostToParent(w)
  PROVE  Calm
<1>1. TypeOK /\ w \in Thread /\ posted \in [Worker -> Nat]
  BY CtxTypes DEF EventsInv, IInv, TypeOK
<1>2. PICK m \in Nat : m = posted[w] + 1
  BY <1>1
<1>3. PICK task \in Task : task = Event("message", w, m)
  BY <1>1, <1>2, TaskTypes DEF MainEvents
<1>4. /\ From(task, w) /\ task.kind = "message" /\ task.n = m
  BY <1>3 DEF From, Event, MainEvents
<1>5. /\ UNCHANGED <<life, running, ctx, WORKERS, heard>> /\ life[w] = "on" /\ ~Gone(w)
      /\ posted' = [posted EXCEPT ![w] = m] /\ Send(ctx[w].parent, task)
  BY <1>2, <1>3 DEF PostToParent, Js, Gone
<1>6. Told(w)'
  <2>1. posted'[w] = m /\ m >= posted[w]
    BY <1>1, <1>2, <1>5
  <2> QED BY <1>1, <1>2, <1>4, <1>5, <2>1, Telling DEF EventsInv
<1>7. \A v \in Worker : v # w => Told(v)'
  BY <1>1, <1>4, <1>5, OthersTold
<1>8. Exits'
  BY <1>5, ExitsKept
<1> QED BY <1>6, <1>7, <1>8 DEF Calm

LEMMA StartTold ==
  ASSUME EventsInv, NEW w \in Worker, StartThread(w)
  PROVE  Calm
<1>1. /\ TypeOK /\ w \in Thread /\ posted[w] \in Nat
      /\ life \in [Thread -> {"unborn", "spawned", "on", "left", "dead"}]
  BY CtxTypes DEF EventsInv, IInv, TypeOK
<1>2. PICK task \in Task : task = Event("online", w, 0)
  BY <1>1, TaskTypes DEF MainEvents
<1>3. From(task, w) /\ task.kind = "online"
  BY <1>2 DEF From, Event, MainEvents
<1>4. /\ UNCHANGED <<ctx, WORKERS, heard, posted>> /\ life[w] = "spawned"
      /\ life' = [life EXCEPT ![w] = "on"] /\ running' = [running EXCEPT ![w] = Do("task")]
      /\ Send(ctx[w].parent, task)
  BY <1>2 DEF StartThread
<1>5. Told(w)'
  <2>1. life'[w] = "on" /\ ~Gone(w)
    BY <1>1, <1>4 DEF Gone
  <2> QED BY <1>1, <1>3, <1>4, <2>1, Telling DEF EventsInv
<1>6. \A v \in Worker : v # w => life'[v] = life[v]
  BY <1>1, <1>4 DEF Thread
<1>7. \A v \in Worker : v # w => Told(v)'
  BY <1>3, <1>4, <1>6, OthersTold
<1>8. Exits'
  <2>1. \A v \in Worker : life'[v] # "unborn" => life[v] # "unborn"
    BY <1>4, <1>6
  <2> QED BY <1>1, <1>4, <2>1, ExitsKept, StacksKept
<1> QED BY <1>5, <1>7, <1>8 DEF Calm

LEMMA EndTold ==
  ASSUME EventsInv, NEW w \in Worker, life[w] = "on", NEW how \in {"left", "dead"},
         ctx' \in [Worker -> Context], End(w, how), \A v \in Worker : ctx'[v].parent = ctx[v].parent
  PROVE  Calm
<1>1. /\ TypeOK /\ w \in Thread /\ posted[w] \in Nat
      /\ life \in [Thread -> {"unborn", "spawned", "on", "left", "dead"}]
  BY CtxTypes DEF EventsInv, IInv, TypeOK
<1>2. PICK n \in Nat : Send(ctx[w].parent, Event("exit", w, n))
  BY <1>1, TypeEnd
<1>3. PICK task \in Task : task = Event("exit", w, n)
  BY <1>1, TaskTypes DEF MainEvents
<1>4. From(task, w) /\ task.kind = "exit" /\ Send(ctx[w].parent, task)
  BY <1>2, <1>3 DEF From, Event, MainEvents
<1>5. /\ UNCHANGED <<WORKERS, heard, posted>> /\ life' = [life EXCEPT ![w] = how]
      /\ running' = [running EXCEPT ![w] = Do("nothing")]
  BY DEF End
<1>6. Told(w)'
  <2>1. life'[w] \in {"left", "dead"} /\ ~Gone(w)
    BY <1>1, <1>5 DEF Gone
  <2> QED BY <1>1, <1>4, <1>5, <2>1, Telling DEF EventsInv
<1>7. \A v \in Worker : v # w => life'[v] = life[v]
  BY <1>1, <1>5 DEF Thread
<1>8. \A v \in Worker : v # w => Told(v)'
  BY <1>4, <1>5, <1>7, OthersTold
<1>9. Exits'
  <2>1. \A v \in Worker : life'[v] # "unborn" => life[v] # "unborn"
    BY <1>7
  <2> QED BY <1>1, <1>5, <2>1, ExitsKept, StacksKept
<1> QED BY <1>6, <1>8, <1>9 DEF Calm

LEMMA FailTold ==
  ASSUME EventsInv, NEW w \in Worker, life[w] = "on", Fail(w)
  PROVE  Calm
<1> DEFINE a == Event("error", w, 0)
           b == Event("exit", w, 1)
           t == ctx[w].parent
<1>1. /\ TypeOK /\ w \in Thread /\ t \in Thread
      /\ life \in [Thread -> {"unborn", "spawned", "on", "left", "dead"}]
      /\ io_rx \in [Thread -> Seq(Task)]
  BY CtxTypes DEF EventsInv, IInv, TypeOK
<1>2. /\ a \in Task /\ a.kind = "error" /\ From(a, w)
      /\ b \in Task /\ b.kind = "exit" /\ From(b, w)
  BY <1>1, TaskTypes DEF Event, From, MainEvents
<1>3. /\ UNCHANGED <<ctx, WORKERS, heard, posted>> /\ life' = [life EXCEPT ![w] = "dead"]
      /\ running' = [running EXCEPT ![w] = Do("nothing")]
  BY DEF Fail
<1>4. PICK q \in Seq(Task), h \in Seq(Task), p \in Nat : q = io_rx[t] /\ h = heard[w] /\ p = posted[w]
  BY <1>1 DEF TypeOK
<1> HIDE DEF a, b
<1>5. io_rx' = [io_rx EXCEPT ![t] = Append(Append(q, a), b)]
  <2>1. io_rx' = [io_rx EXCEPT ![t] = q \o <<a, b>>]
    BY <1>4 DEF Fail, a, b
  <2> QED BY <1>2, <2>1, AppendTwo
<1> HIDE DEF t
<1>6. Told(w)'
  <2> DEFINE was == Gone(w)
             gone == Gone(w)'
  <2>1. PICK total \in Nat : Lasts(w, total) /\ Stream(w, h, q, p, was, total, total)
    BY <1>4 DEF EventsInv, Told, t
  <2>2. PICK middle \in Nat, sum \in Nat : middle = total + 1 /\ sum = middle + 1
    OBVIOUS
  <2>3. total = p + 1 /\ life'[w] = "dead"
    BY <1>1, <1>3, <1>4, <2>1 DEF Lasts
  <2>0. was \in BOOLEAN /\ ~was /\ gone \in BOOLEAN /\ gone
    BY <2>3 DEF Gone
  <2> HIDE DEF was, gone
  <2>4. Stream(w, h, q, p, gone, sum, total)
    <3>1. PICK m \in Nat : m = p /\ m >= p
      OBVIOUS
    <3>2. Stream(w, h, q, m, gone, sum, total)
      BY <2>0, <2>1, <3>1, StreamTurns
    <3> QED BY <3>1, <3>2
  <2>5. /\ EventNo(w, p, sum)[a] = middle /\ EventNo(w, p, sum)[b] = sum
        /\ Proper(a, p, gone, sum) /\ Proper(b, p, gone, sum)
    <3>0. From(a, w) /\ From(b, w) /\ a \in Task /\ b \in Task /\ a.kind = "error" /\ b.kind = "exit"
      BY <1>2
    <3>1. EventNo(w, p, sum)[a] = p + 2
      BY ONLY <3>0, EventKinds, p \in Nat, sum \in Nat, w \in Worker
    <3>2. EventNo(w, p, sum)[b] = sum
      BY ONLY <3>0, EventKinds, p \in Nat, sum \in Nat, w \in Worker
    <3> QED BY <1>2, <2>0, <2>2, <2>3, <3>1, <3>2 DEF Proper
  <2>6. PICK qa \in Seq(Task) : qa = Append(q, a)
    BY <1>2, AppendProperties
  <2>7. Stream(w, h, qa, p, gone, sum, middle)
    BY <1>2, <2>0, <2>2, <2>4, <2>5, <2>6, StreamGains
  <2>8. Stream(w, h, Append(qa, b), p, gone, sum, sum)
    BY <1>2, <2>0, <2>2, <2>5, <2>7, StreamGains
  <2>9. Lasts(w, sum)'
    BY <1>3, <1>4, <2>2, <2>3 DEF Lasts, Gone
  <2>10. Stream(w, heard'[w], io_rx'[ctx'[w].parent], posted'[w], Gone(w)', sum, sum)
    <3>1. io_rx'[t] = Append(qa, b) /\ ctx'[w].parent = t
      BY <1>1, <1>3, <1>5, <2>6 DEF t
    <3> QED BY <1>3, <1>4, <2>8, <3>1 DEF gone
  <2> QED BY <2>9, <2>10 DEF Told
<1>7. \A v \in Worker : v # w => life'[v] = life[v]
  BY <1>1, <1>3 DEF Thread
<1>8. ASSUME NEW v \in Worker, v # w PROVE Told(v)'
  <2>1. ~From(a, v) /\ ~From(b, v)
    BY <1>2, <1>8 DEF From
  <2>2. \A u \in Thread : Aside(u, v)
    BY <1>1, <1>2, <1>4, <1>5, <2>1 DEF Aside
  <2> QED BY <1>1, <1>3, <1>7, <1>8, <2>2, ToldAside DEF Untold, EventsInv
<1>9. Exits'
  <2>1. \A v \in Worker : life'[v] # "unborn" => life[v] # "unborn"
    BY <1>7
  <2> QED BY <1>1, <1>3, <2>1, ExitsKept, StacksKept
<1> QED BY <1>6, <1>8, <1>9 DEF Calm

LEMMA ConstructTold ==
  ASSUME EventsInv, NEW t \in Thread, NEW w \in Worker, construct_worker(t, w)
  PROVE  Calm
<1>1. /\ TypeOK /\ w \in Thread /\ ctx \in [Worker -> Context]
      /\ life \in [Thread -> {"unborn", "spawned", "on", "left", "dead"}]
  BY CtxTypes DEF EventsInv, IInv, TypeOK
<1>2. /\ ctx' = [ctx EXCEPT ![w].parent = t] /\ life' = [life EXCEPT ![w] = "spawned"]
      /\ life[w] = "unborn" /\ WORKERS' = WORKERS \cup {w}
      /\ UNCHANGED <<running, io_rx, posted, heard>>
  BY DEF construct_worker
<1>3. /\ ctx'[w].parent = t
      /\ \A v \in Worker : v # w => ctx'[v].parent = ctx[v].parent /\ life'[v] = life[v]
  BY <1>1, <1>2 DEF Context, Thread
<1>4. ASSUME NEW v \in Worker, v # w PROVE Told(v)'
  BY <1>1, <1>2, <1>3, <1>4, ToldAside DEF EventsInv, Untold, Aside
<1>5. Told(w)'
  <2>1. PICK q \in Seq(Task), h \in Seq(Task) : q = io_rx[t] /\ h = heard[w]
    BY <1>1 DEF TypeOK
  <2>2. PICK total \in Nat : /\ Lasts(w, total)
                             /\ Stream(w, h, io_rx[ctx[w].parent], posted[w], Gone(w), total, total)
    BY <2>1 DEF EventsInv, Told
  <2>3. total = 0 /\ posted[w] = 0 /\ h = <<>>
    <3>1. total = 0 /\ posted[w] = 0
      BY <1>2, <2>2 DEF Lasts
    <3>2. Len(h) <= 0
      BY <2>2, <3>1 DEF Stream
    <3> QED BY <3>1, <3>2, LenProperties, EmptySeq
  <2>4. \A i \in DOMAIN q : q[i] \in Task /\ ~From(q[i], w)
    <3>1. \A i \in DOMAIN q : FromChild(t, q[i])
      BY <2>1 DEF EventsInv, IInv, FromChildren
    <3>2. \A i \in DOMAIN q : q[i] \in Task
      BY LenProperties
    <3> QED BY <1>2, <3>1, <3>2 DEF FromChild, From
  <2>5. InOrder(Under(EventNo(w, 0, 0), q), 0, 0)
    <3> DEFINE F == EventNo(w, 0, 0)
    <3>1. \A i \in DOMAIN q : F[q[i]] = 0
      BY <2>4, EventNos
    <3> HIDE DEF F
    <3>2. DOMAIN Under(F, q) = DOMAIN q /\ \A i \in DOMAIN q : Under(F, q)[i] = 0
      BY <3>1 DEF Under
    <3>3. InOrder(Under(F, q), 0, 0)
      BY <3>2 DEF InOrder
    <3> QED BY <3>3 DEF F
  <2>6. Stream(w, <<>>, q, 0, Gone(w)', 0, 0)
    BY <2>4, <2>5 DEF Stream
  <2>7. Lasts(w, 0)'
    BY <1>1, <1>2, <2>3 DEF Lasts, Gone
  <2> QED BY <1>2, <1>3, <2>1, <2>3, <2>6, <2>7 DEF Told
<1>6. Exits'
  <2>1. \A v \in Worker : HeardExit(v)' <=> HeardExit(v)
    BY <1>2 DEF HeardExit
  <2>2. \A u \in Thread : running[u].is = "exit" => running[u].of \in Worker /\ HeardExit(running[u].of)
    BY DEF EventsInv, IInv, Exits, Dispatched, Workers, TypeOK
  <2> QED BY <1>2, <1>3, <2>1, <2>2 DEF Exits, EventsInv
<1> QED BY <1>4, <1>5, <1>6 DEF Calm

LEMMA DispatchedTold ==
  ASSUME EventsInv, NEW t \in Thread, ExitDispatched(t)
  PROVE  Calm
<1>1. TypeOK /\ running \in [Thread -> Activation]
  BY DEF EventsInv, IInv, TypeOK
<1>2. /\ UNCHANGED <<life, ctx, posted, heard>> /\ Send(t, Own("wake", 0))
      /\ running' = [running EXCEPT ![t] = Do("nothing")]
      /\ WORKERS' = WORKERS \ {running[t].of} /\ running[t].is = "exit"
  BY DEF ExitDispatched
<1>3. ASSUME NEW w \in Worker PROVE Told(w)'
  <2>1. Own("wake", 0) \in Task /\ ~From(Own("wake", 0), w)
    BY TaskTypes DEF From, Own, MainEvents
  <2>2. \A u \in Thread : Aside(u, w)
    BY <1>1, <1>2, <2>1, SendAside
  <2> QED BY <1>1, <1>2, <2>2, ToldAside DEF Untold, EventsInv
<1>4. Exits'
  <2>1. \A u \in Thread : running'[u].is = "exit" => running'[u] = running[u]
    BY <1>1, <1>2, StacksKept
  <2>2. \A w \in Worker : HeardExit(w)' <=> HeardExit(w)
    BY <1>2 DEF HeardExit
  <2>3. \A u \in Thread : running[u].is = "exit" => running[u].of \in Worker /\ HeardExit(running[u].of)
    BY <1>1 DEF EventsInv, IInv, Exits, Dispatched, Workers, TypeOK
  <2> QED BY <1>2, <2>1, <2>2, <2>3 DEF Exits, EventsInv
<1> QED BY <1>3, <1>4 DEF Calm

(* An event is emitted: the next of its worker.  That of a worker that has left *)
(* the registry would be dropped, and there is none.                            *)
LEMMA EventTold ==
  ASSUME EventsInv, NEW t \in Thread, DispatchMain(t)
  PROVE  Calm
<1>1. TypeOK
  BY DEF EventsInv, IInv
<1>2. /\ Receiving(t) /\ Take(t) /\ Head(io_rx[t]).kind \in MainEvents
      /\ UNCHANGED <<life, ctx, posted, WORKERS>>
  BY DEF DispatchMain
<1>3. PICK q \in Seq(Task) : q = io_rx[t] /\ q # <<>> /\ io_rx'[t] = Tail(q)
  BY <1>1, <1>2, Taking DEF TypeOK
<1>4. PICK task \in Task : task = Head(q) /\ task = Head(io_rx[t]) /\ FromChild(t, task)
  <2>1. 1 \in DOMAIN q /\ Head(q) = q[1] /\ Head(q) \in Task
    BY <1>3, HeadTailProperties, LenProperties, EmptySeq
  <2> QED BY <1>3, <2>1 DEF EventsInv, IInv, FromChildren
<1>5. PICK w \in Worker : /\ w = task.from /\ From(task, w)
                         /\ ctx[w].parent = t /\ life[w] # "unborn"
  BY <1>2, <1>4 DEF From, FromChild
<1>6. ~HeardExit(w)
  BY <1>1, <1>3, <1>4, <1>5, NoneAfterExit DEF EventsInv
<1>7. w \in WORKERS
  BY <1>5, <1>6 DEF EventsInv, Exits
<1>8. /\ heard' = [heard EXCEPT ![w] = Append(heard[w], task)]
      /\ running' = [running EXCEPT ![t] = [is |-> IF task.kind = "exit" THEN "exit" ELSE "task", of |-> w]]
  BY <1>4, <1>5, <1>7 DEF DispatchMain
<1>9. heard \in [Worker -> Seq(Task)] /\ running \in [Thread -> Activation]
  BY <1>1 DEF TypeOK
<1>11. PICK h \in Seq(Task) : h = heard[w] /\ heard'[w] = Append(h, task)
  BY <1>5, <1>8, <1>9
<1>12. Told(w)'
  <2> DEFINE gone == Gone(w)
  <2>1. PICK p \in Nat : p = posted[w] /\ p = posted'[w]
    BY <1>1, <1>2, <1>5 DEF TypeOK
  <2>2. PICK total \in Nat : Lasts(w, total) /\ Stream(w, h, q, p, gone, total, total)
    BY <1>3, <1>5, <1>11, <2>1 DEF EventsInv, Told
  <2>3. gone \in BOOLEAN
    BY DEF Gone
  <2> HIDE DEF gone
  <2>4. Stream(w, Append(h, task), Tail(q), p, gone, total, total)
    <3>1. /\ Stream(w, h, q, p, gone, total, total) /\ gone \in BOOLEAN
          /\ q # <<>> /\ From(Head(q), w) /\ Head(q) = task
      BY <1>3, <1>4, <1>5, <2>2, <2>3
    <3> QED BY <3>1, StreamTakes
  <2>5. life'[w] = life[w] /\ posted'[w] = posted[w] /\ ctx'[w].parent = t /\ io_rx'[t] = Tail(q)
    BY <1>2, <1>3, <1>5
  <2>6. Lasts(w, total)' /\ gone = Gone(w)'
    BY <2>2, <2>5 DEF Lasts, Gone, gone
  <2>7. Stream(w, heard'[w], io_rx'[ctx'[w].parent], posted'[w], gone, total, total)
    BY <1>11, <2>1, <2>4, <2>5
  <2> QED BY <2>6, <2>7 DEF Told
<1>13. ASSUME NEW v \in Worker, v # w PROVE Told(v)' /\ heard'[v] = heard[v]
  <2>1. ~From(Head(io_rx[t]), v)
    BY <1>3, <1>4, <1>5, <1>13 DEF From
  <2>2. \A u \in Thread : Aside(u, v)
    BY <1>1, <1>2, <2>1, TakeAside
  <2>3. heard'[v] = heard[v]
    BY <1>8, <1>9, <1>13
  <2> QED BY <1>1, <1>2, <2>2, <2>3, ToldAside DEF Untold, EventsInv
<1>14. Exits'
  <2>1. ASSUME NEW v \in Worker, HeardExit(v) PROVE HeardExit(v)'
    BY <1>6, <1>13, <2>1 DEF HeardExit
  <2>2. task.kind = "exit" => HeardExit(w)'
    <3>1. PICK g \in Seq(Task) : g = Append(h, task)
      BY <1>4, AppendProperties
    <3>2. Len(g) = Len(h) + 1 /\ g[Len(h) + 1] = task /\ Len(h) \in Nat
      BY <1>4, <3>1, AppendProperties, LenProperties
    <3>3. g # <<>> /\ g[Len(g)] = task
      BY <3>2, EmptySeq
    <3>4. heard'[w] = g
      BY <1>11, <3>1
    <3> QED BY <3>3, <3>4 DEF HeardExit
  <2>3. ASSUME NEW u \in Thread, running'[u].is = "exit" PROVE heard'[running'[u].of] # <<>> /\ heard'[running'[u].of][Len(heard'[running'[u].of])].kind = "exit"
    <3>1. CASE u = t
      <4>1. running'[t] = [is |-> IF task.kind = "exit" THEN "exit" ELSE "task", of |-> w]
        BY <1>8, <1>9
      <4>2. task.kind = "exit" /\ running'[u].of = w
        BY <2>3, <3>1, <4>1
      <4> QED BY <2>2, <4>2 DEF HeardExit
    <3>2. CASE u # t
      <4>1. running'[u] = running[u]
        BY <1>8, <1>9, <3>2
      <4>2. PICK v \in Worker : v = running[u].of /\ HeardExit(v)
        <5>1. running[u].of \in Worker
          BY <1>1, <2>3, <4>1 DEF EventsInv, IInv, Dispatched, Workers, TypeOK
        <5>2. HeardExit(running[u].of)
          BY <2>3, <4>1 DEF EventsInv, Exits
        <5> QED BY <5>1, <5>2
      <4>3. HeardExit(v)'
        BY <2>1, <4>2
      <4> QED BY <4>1, <4>2, <4>3 DEF HeardExit
    <3> QED BY <3>1, <3>2
  <2>4. ASSUME NEW v \in Worker \ WORKERS, life[v] # "unborn" PROVE HeardExit(v)'
    BY <2>1, <2>4 DEF EventsInv, Exits
  <2> QED BY <1>2, <2>3, <2>4 DEF Exits, HeardExit
<1>15. ASSUME NEW v \in Worker PROVE Told(v)'
  <2>1. CASE v = w
    BY <1>12, <2>1
  <2>2. CASE v # w
    BY <1>13, <2>2
  <2> QED BY <2>1, <2>2
<1> QED BY <1>14, <1>15 DEF Calm

LEMMA EventsEnds ==
  ASSUME EventsInv, NEW t \in Thread,
         \/ Return(t) \/ ExitDispatched(t) \/ Throw(t) \/ Leave(t)
         \/ t \in Worker /\ (ExitReturns(t) \/ \E c \in Code : ProcessExitAgain(t, c))
  PROVE  Calm
<1>1. TypeOK
  BY DEF EventsInv, IInv
<1>2. CASE Return(t) \/ ExitDispatched(t)
  BY <1>2, CalmEnds, DispatchedTold
<1>3. CASE Throw(t)
  <2>1. CASE t # Main /\ Fail(t)
    <3>1. t \in Worker /\ life[t] = "on"
      BY <1>3, <2>1 DEF Throw, Js, Thread
    <3> QED BY <2>1, <3>1, FailTold
  <2>2. CASE EndProcess("dead")
    BY <2>2, CalmEnds
  <2>3. CASE /\ running' = [running EXCEPT ![t] = Do("nothing")]
             /\ UNCHANGED <<life, work, open_handles, io_rx, ctx, WORKERS, to_worker, calls, messages>>
    BY <2>3, CalmEnds
  <2> QED BY <1>3, <2>1, <2>2, <2>3 DEF Throw
<1>4. CASE Leave(t)
  <2>1. CASE EndProcess("left")
    BY <2>1, CalmEnds
  <2>2. CASE /\ t \in Worker
             /\ running' = [running EXCEPT ![t] = Do("leaving")]
             /\ ctx' = [ctx EXCEPT ![t].exiting = TRUE]
             /\ UNCHANGED <<life, work, open_handles, io_rx, WORKERS, to_worker, calls, messages>>
    BY <2>2, CalmEnds
  <2>3. CASE t \in Worker /\ Drained(t) /\ UNCHANGED ctx /\ End(t, "left")
    <3>1. ctx' \in [Worker -> Context] /\ life[t] = "on"
      BY <1>1, <2>3, CtxTypes DEF Drained, Looping
    <3> QED BY <2>3, <3>1, EndTold
  <2> QED BY <1>4, <2>1, <2>2, <2>3 DEF Leave
<1>5. CASE t \in Worker /\ ExitReturns(t)
  <2>1. ctx' = ctx /\ ctx' \in [Worker -> Context] /\ life[t] = "on"
        /\ (End(t, "left") \/ End(t, "dead"))
    BY <1>1, <1>5, CtxTypes DEF ExitReturns, Js
  <2> QED BY <1>5, <2>1, EndTold
<1>6. ASSUME t \in Worker, NEW c \in Code, ProcessExitAgain(t, c) PROVE Calm
  <2>1. /\ ctx \in [Worker -> Context] /\ ctx' = [ctx EXCEPT ![t].exit_code = c] /\ c \in Nat
        /\ life[t] = "on" /\ End(t, "dead")
    BY <1>1, <1>6, CtxTypes, WorkersAssumption DEF ProcessExitAgain, Js
  <2>2. /\ ctx' \in [Worker -> Context]
        /\ \A v \in Worker : ctx'[v].parent = ctx[v].parent
    BY <2>1 DEF Context
  <2> QED BY <1>6, <2>1, <2>2, EndTold
<1> QED BY <1>2, <1>3, <1>4, <1>5, <1>6

LEMMA EventsStep == EventsInv /\ [Next]_vars => EventsInv'
<1> SUFFICES ASSUME EventsInv, [Next]_vars PROVE Calm
  BY InvStep DEF EventsInv, Calm
<1>1. CASE UNCHANGED vars
  BY <1>1, Calming DEF vars
<1>2. ASSUME NEW t \in Thread, Ends(t) \/ Loop(t) PROVE Calm
  BY <1>2, EventsEnds, EventTold, CalmTasks DEF Ends, Loop, Receive
<1>3. ASSUME NEW t \in Thread, NEW w \in Worker,
             \/ construct_worker(t, w) \/ PostToWorker(t, w) \/ TerminateWorker(t, w)
             \/ start_parent_bridge(w) \/ close_parent_port(w)
             \/ \E c \in Code : SetExitCode(w, c) \/ ProcessExit(w, c)
      PROVE  Calm
  BY <1>3, CalmCalls, ConstructTold
<1>4. ASSUME NEW t \in Thread, ScheduleWork(t) PROVE Calm
  BY <1>4, Calming DEF ScheduleWork
<1>5. ASSUME NEW w \in Worker,
             PostToParent(w) \/ StartThread(w) \/ Forward(w) \/ \E c \in Code : ProcessExitAgain(w, c)
      PROVE  Calm
  BY <1>5, PostTold, StartTold, CalmTasks, EventsEnds DEF Thread
<1> HIDE DEF loops, messages
<1>6. Main \in Thread
  BY DEF Thread
<1> QED BY <1>1, <1>2, <1>3, <1>4, <1>5, <1>6 DEF Next

\* In every run a Worker object emits online, then the messages in the order they
\* were posted, an error if the worker failed, and its exit once, after all the
\* rest: none of them is dropped.
THEOREM EventsInOrderCorrect == Spec => []EventsInOrder
  BY EventsInit, EventsStep, EventsMean, PTL DEF Spec
=============================================================================
