------------------------------ MODULE Workers ------------------------------
(***************************************************************************)
(* Worker threads of src/src/stdlib/worker_threads.rs: one event loop per  *)
(* thread, the events a worker posts to the loop that spawned it, and the  *)
(* messages its bridge thread forwards to its own.  Any thread may spawn.  *)
(*                                                                         *)
(* JavaScript is whatever the programs want: while a thread's stack is not *)
(* empty it may make any of the calls below, then return or throw.  Of a   *)
(* thread's loop there is its I/O channel, its handles and the number of   *)
(* callbacks it still has to run; EventLoop has the rest.                  *)
(***************************************************************************)
EXTENDS Integers, Sequences, FiniteSets

CONSTANTS
  Worker, Main,   \* the threads
  Code,           \* exit codes the programs use
  Catching,       \* threads with an uncaughtException listener
  Spawning,       \* threads that make workers
  MaxCalls        \* bound: calls of all programs together

ASSUME WorkersAssumption ==
  /\ IsFiniteSet(Worker) /\ Main \notin Worker
  /\ Code \subseteq Nat /\ MaxCalls \in Nat
  /\ Catching \subseteq Worker \cup {Main} /\ Spawning \subseteq Worker \cup {Main}

Thread == Worker \cup {Main}

VARIABLES
  life,          \* of each thread; one that was cut short is dead
  running,       \* what is on each thread's stack
  work,          \* callbacks each thread's loop has queued
  open_handles,  \* of each thread's loop
  io_rx,         \* the I/O channel of each thread's loop
  ctx,           \* of each worker: its parent, its parentPort and bridge, its exit code
  WORKERS,       \* the workers that are in their parent's registry
  to_worker,     \* the channel to each worker's bridge
  calls,         \* history: calls made
  sent,          \* history: how many messages each worker's channel accepted
  delivered,     \* history: those its parentPort emitted
  posted,        \* history: how many messages it posted to its parent
  heard          \* history: the events its Worker object emitted

loops == <<life, running, work, open_handles, io_rx>>
messages == <<sent, delivered, posted, heard>>
vars == <<loops, ctx, WORKERS, to_worker, calls, messages>>

\* A message is its number, from 1 on.
Terminate == 0   \* WorkerMsg::Terminate
None == -1       \* no process.exitCode

\* What runs, and for an exit event the worker that has left.
Activation == [is : {"nothing", "task", "exit", "leaving", "exiting"}, of : Thread]
Do(is) == [is |-> is, of |-> Main]
Idle(t) == running[t].is = "nothing"

MainEvents == {"online", "message", "error", "exit"}
Task == [kind : MainEvents \cup {"deliver", "release", "close", "wake"}, from : Thread, n : Nat]
Event(kind, w, n) == [kind |-> kind, from |-> w, n |-> n]
Own(kind, n) == [kind |-> kind, from |-> Main, n |-> n]

Init ==
  /\ life = [t \in Thread |-> IF t = Main THEN "on" ELSE "unborn"]
  /\ running = [t \in Thread |-> Do(IF t = Main THEN "task" ELSE "nothing")]
  /\ work = [t \in Thread |-> 0]
  /\ open_handles = [t \in Thread |-> 0]
  /\ io_rx = [t \in Thread |-> <<>>]
  /\ ctx = [w \in Worker |->
             [parent |-> Main, bridge |-> "none", port_released |-> FALSE, port_closed |-> FALSE,
              port_close_emitted |-> FALSE, exit_code |-> None, exiting |-> FALSE]]
  /\ WORKERS = {}
  /\ to_worker = [w \in Worker |-> <<>>]
  /\ calls = 0
  /\ sent = [w \in Worker |-> 0] /\ delivered = [w \in Worker |-> <<>>]
  /\ posted = [w \in Worker |-> 0] /\ heard = [w \in Worker |-> <<>>]

----------------------------------------------------------------------------
(* The calls of a program. *)

Gone(t) == life[t] \in {"left", "dead"}
Over == Gone(Main)

Js(t) == life[Main] = "on" /\ life[t] = "on" /\ ~Idle(t)
Called == calls < MaxCalls /\ calls' = calls + 1

incr_handle(t) == open_handles' = [open_handles EXCEPT ![t] = @ + 1]
decr_handle(n) == IF n > 0 THEN n - 1 ELSE 0
\* A task for the loop of thread t; nobody receives for one that is over.
Send(t, task) == io_rx' = [io_rx EXCEPT ![t] = Append(@, task)]

\* Mutant of construct_worker: the new worker does not hold its parent's loop.
construct_worker_unheld(t, w) ==
  /\ Js(t) /\ Called /\ t \in Spawning /\ life[w] = "unborn"
  /\ life' = [life EXCEPT ![w] = "spawned"]
  /\ ctx' = [ctx EXCEPT ![w].parent = t]
  /\ WORKERS' = WORKERS \cup {w}
  /\ UNCHANGED <<running, work, open_handles, io_rx, to_worker, messages>>

ScheduleWork(t) ==
  /\ Js(t) /\ Called
  /\ work' = [work EXCEPT ![t] = @ + 1]
  /\ UNCHANGED <<life, running, open_handles, io_rx, ctx, WORKERS, to_worker, messages>>

construct_worker(t, w) ==
  /\ Js(t) /\ Called /\ t \in Spawning /\ life[w] = "unborn"
  /\ life' = [life EXCEPT ![w] = "spawned"]
  /\ ctx' = [ctx EXCEPT ![w].parent = t]
  /\ WORKERS' = WORKERS \cup {w}
  /\ incr_handle(t)
  /\ UNCHANGED <<running, work, io_rx, to_worker, messages>>

\* The receiver is dropped with a bridge that has ended, or with the thread.
Connected(w) == IF ctx[w].bridge = "none" THEN ~Gone(w) ELSE ctx[w].bridge = "on"

\* postMessage and terminate of a Worker object, on its parent's heap
worker_call(t, w, msg) ==
  /\ Js(t) /\ Called /\ ctx[w].parent = t /\ w \in WORKERS /\ Connected(w)
  /\ to_worker' = [to_worker EXCEPT ![w] = Append(@, msg)]
  /\ UNCHANGED <<loops, ctx, WORKERS, delivered, posted, heard>>

PostToWorker(t, w) ==
  /\ worker_call(t, w, sent[w] + 1)
  /\ sent' = [sent EXCEPT ![w] = @ + 1]

TerminateWorker(t, w) == worker_call(t, w, Terminate) /\ UNCHANGED sent

\* Mutant of start_parent_bridge: a listening port does not hold the worker.
start_parent_bridge_unheld(w) ==
  /\ Js(w) /\ Called /\ ctx[w].bridge = "none"
  /\ ctx' = [ctx EXCEPT ![w].bridge = "on"]
  /\ UNCHANGED <<loops, WORKERS, to_worker, messages>>

\* A 'message' listener of parentPort, or parentPort.start()
start_parent_bridge(w) ==
  /\ Js(w) /\ Called /\ ctx[w].bridge = "none"
  /\ ctx' = [ctx EXCEPT ![w].bridge = "on"]
  /\ incr_handle(w)
  /\ UNCHANGED <<life, running, work, io_rx, WORKERS, to_worker, messages>>

\* parentPort.postMessage
PostToParent(w) ==
  /\ Js(w) /\ Called /\ ~ctx[w].port_closed
  /\ Send(ctx[w].parent, Event("message", w, posted[w] + 1))
  /\ posted' = [posted EXCEPT ![w] = @ + 1]
  /\ UNCHANGED <<life, running, work, open_handles, ctx, WORKERS, to_worker, sent, delivered, heard>>

close_parent_port(w) ==
  /\ Js(w) /\ Called /\ ~ctx[w].port_closed
  /\ ctx' = [ctx EXCEPT ![w].port_closed = TRUE]
  /\ incr_handle(w)
  /\ Send(w, Own("close", 0))
  /\ UNCHANGED <<life, running, work, WORKERS, to_worker, messages>>

SetExitCode(w, c) ==
  /\ Js(w) /\ Called
  /\ ctx' = [ctx EXCEPT ![w].exit_code = c]
  /\ UNCHANGED <<loops, WORKERS, to_worker, messages>>

\* Mutant of End: exit_if_worker posts the event and returns to the program.
EndUnparked(w, how) ==
  /\ Send(ctx[w].parent,
          Event("exit", w, IF ctx'[w].exit_code = None THEN 0 ELSE ctx'[w].exit_code))
  /\ running' = [running EXCEPT ![w] = Do(IF how = "dead" THEN "task" ELSE "nothing")]
  /\ life' = [life EXCEPT ![w] = IF how = "dead" THEN "on" ELSE "left"]
  /\ UNCHANGED <<work, open_handles, WORKERS, to_worker, calls, messages>>

\* The end of worker_thread_main, and exit_if_worker, which parks the thread.
End(w, how) ==
  /\ Send(ctx[w].parent,
          Event("exit", w, IF ctx'[w].exit_code = None THEN 0 ELSE ctx'[w].exit_code))
  /\ running' = [running EXCEPT ![w] = Do("nothing")]
  /\ life' = [life EXCEPT ![w] = how]
  /\ UNCHANGED <<work, open_handles, WORKERS, to_worker, calls, messages>>

\* The same of a program that ends in an exception.
Fail(w) ==
  /\ io_rx' = [io_rx EXCEPT ![ctx[w].parent] = @ \o <<Event("error", w, 0), Event("exit", w, 1)>>]
  /\ running' = [running EXCEPT ![w] = Do("nothing")]
  /\ life' = [life EXCEPT ![w] = "dead"]
  /\ UNCHANGED <<work, open_handles, ctx, WORKERS, to_worker, calls, messages>>

EndProcess(how) ==
  /\ life' = [life EXCEPT ![Main] = how]
  /\ running' = [running EXCEPT ![Main] = Do("nothing")]
  /\ UNCHANGED <<work, open_handles, io_rx, ctx, WORKERS, to_worker, calls, messages>>

\* process.exit(c): the exit event of the thread first, unless it was emitted before.
ProcessExit(w, c) ==
  /\ Js(w) /\ ~ctx[w].exiting
  /\ running' = [running EXCEPT ![w] = Do("exiting")]
  /\ ctx' = [ctx EXCEPT ![w].exit_code = c, ![w].exiting = TRUE]
  /\ UNCHANGED <<life, work, open_handles, io_rx, WORKERS, to_worker, calls, messages>>

ProcessExitAgain(w, c) ==
  /\ Js(w) /\ ctx[w].exiting
  /\ ctx' = [ctx EXCEPT ![w].exit_code = c]
  /\ End(w, "dead")

Return(t) ==
  /\ Js(t) /\ running[t].is = "task"
  /\ running' = [running EXCEPT ![t] = Do("nothing")]
  /\ UNCHANGED <<life, work, open_handles, io_rx, ctx, WORKERS, to_worker, calls, messages>>

\* dispatch_main of an exit event, once its listeners have returned
ExitDispatched(t) ==
  /\ Js(t) /\ running[t].is = "exit"
  /\ running' = [running EXCEPT ![t] = Do("nothing")]
  /\ WORKERS' = WORKERS \ {running[t].of}
  /\ open_handles' = [open_handles EXCEPT ![t] = decr_handle(@)]
  /\ Send(t, Own("wake", 0))
  /\ UNCHANGED <<life, work, ctx, to_worker, calls, messages>>

ExitReturns(w) ==
  /\ Js(w) /\ UNCHANGED ctx
  /\ \/ running[w].is = "leaving" /\ End(w, "left")
     \/ running[w].is = "exiting" /\ End(w, "dead")

\* An exception reaches the top of the stack.  An uncaughtException listener is
\* offered it, except by the thread's own end.
Throw(t) ==
  /\ Js(t)
  /\ \/ /\ t \in Catching /\ running[t].is # "leaving"
        /\ running' = [running EXCEPT ![t] = Do("nothing")]
        /\ UNCHANGED <<life, work, open_handles, io_rx, ctx, WORKERS, to_worker, calls, messages>>
     \/ /\ t \notin Catching \/ running[t].is = "leaving"
        /\ IF t = Main THEN EndProcess("dead") ELSE Fail(t)

----------------------------------------------------------------------------
(* The threads and their loops. *)

\* worker_thread_main
StartThread(w) ==
  /\ ~Over /\ life[w] = "spawned"
  /\ life' = [life EXCEPT ![w] = "on"]
  /\ running' = [running EXCEPT ![w] = Do("task")]
  /\ Send(ctx[w].parent, Event("online", w, 0))
  /\ UNCHANGED <<work, open_handles, ctx, WORKERS, to_worker, calls, messages>>

Looping(t) == ~Over /\ life[t] = "on" /\ Idle(t)

RunWork(t) ==
  /\ Looping(t) /\ work[t] > 0
  /\ work' = [work EXCEPT ![t] = @ - 1]
  /\ running' = [running EXCEPT ![t] = Do("task")]
  /\ UNCHANGED <<life, open_handles, io_rx, ctx, WORKERS, to_worker, calls, messages>>

\* The loop looks at its channel while it has a handle.
Receiving(t) == Looping(t) /\ open_handles[t] > 0 /\ io_rx[t] # <<>>
Take(t) == io_rx' = [io_rx EXCEPT ![t] = Tail(@)]

\* dispatch_main
DispatchMain(t) ==
  LET task == Head(io_rx[t])
  IN  /\ Receiving(t) /\ task.kind \in MainEvents
      /\ Take(t)
      /\ IF task.from \in WORKERS
         THEN /\ running' = [running EXCEPT ![t] =
                              [is |-> IF task.kind = "exit" THEN "exit" ELSE "task",
                               of |-> task.from]]
              /\ heard' = [heard EXCEPT ![task.from] = Append(@, task)]
         ELSE UNCHANGED <<running, heard>>
      /\ UNCHANGED <<life, work, open_handles, ctx, WORKERS, to_worker, calls, sent, delivered, posted>>

\* Mutant of ParentDeliver: close() drops what it should let through first.
ParentDeliverUnclosed(w) ==
  /\ Receiving(w) /\ Head(io_rx[w]).kind = "deliver"
  /\ Take(w)
  /\ IF ctx[w].port_closed
     THEN UNCHANGED <<delivered, running>>
     ELSE /\ delivered' = [delivered EXCEPT ![w] = Append(@, Head(io_rx[w]).n)]
          /\ running' = [running EXCEPT ![w] = Do("task")]
  /\ UNCHANGED <<life, work, open_handles, ctx, WORKERS, to_worker, calls, sent, posted, heard>>

\* parent_deliver
ParentDeliver(w) ==
  /\ Receiving(w) /\ Head(io_rx[w]).kind = "deliver"
  /\ Take(w)
  /\ IF ctx[w].port_close_emitted
     THEN UNCHANGED <<delivered, running>>
     ELSE /\ delivered' = [delivered EXCEPT ![w] = Append(@, Head(io_rx[w]).n)]
          /\ running' = [running EXCEPT ![w] = Do("task")]
  /\ UNCHANGED <<life, work, open_handles, ctx, WORKERS, to_worker, calls, sent, posted, heard>>

Holding(w) == ctx[w].bridge # "none" /\ ~ctx[w].port_released

\* Mutant of release_parent_port: a bridge that has ended counts as released.
release_running_bridge(w, n) ==
  IF ctx[w].bridge = "on" /\ ~ctx[w].port_released THEN decr_handle(n) ELSE n

\* release_parent_port: what is left of n handles
release_parent_port(w, n) == IF Holding(w) THEN decr_handle(n) ELSE n

RunRelease(w) ==
  /\ Receiving(w) /\ Head(io_rx[w]).kind = "release"
  /\ Take(w)
  /\ open_handles' = [open_handles EXCEPT ![w] = release_parent_port(w, @)]
  /\ ctx' = [ctx EXCEPT ![w].port_released = @ \/ ctx[w].bridge # "none"]
  /\ UNCHANGED <<life, running, work, WORKERS, to_worker, calls, messages>>

RunClose(w) ==
  /\ Receiving(w) /\ Head(io_rx[w]).kind = "close"
  /\ Take(w)
  /\ open_handles' = [open_handles EXCEPT ![w] = decr_handle(release_parent_port(w, @))]
  /\ ctx' = [ctx EXCEPT ![w].port_close_emitted = TRUE,
                        ![w].port_released = @ \/ ctx[w].bridge # "none"]
  /\ running' = [running EXCEPT ![w] = Do("task")]
  /\ UNCHANGED <<life, work, WORKERS, to_worker, calls, messages>>

RunWake(t) ==
  /\ Receiving(t) /\ Head(io_rx[t]).kind = "wake"
  /\ Take(t)
  /\ UNCHANGED <<life, running, work, open_handles, ctx, WORKERS, to_worker, calls, messages>>

Receive(t) ==
  \/ DispatchMain(t) \/ RunWake(t)
  \/ t \in Worker /\ (ParentDeliver(t) \/ RunRelease(t) \/ RunClose(t))

\* Nothing holds the loop.  A worker emits its own exit event, once, and ends.
Drained(t) == Looping(t) /\ open_handles[t] = 0 /\ work[t] = 0
Leave(t) ==
  \/ t = Main /\ Drained(t) /\ EndProcess("left")
  \/ /\ t \in Worker /\ Drained(t) /\ ~ctx[t].exiting
     /\ running' = [running EXCEPT ![t] = Do("leaving")]
     /\ ctx' = [ctx EXCEPT ![t].exiting = TRUE]
     /\ UNCHANGED <<life, work, open_handles, io_rx, WORKERS, to_worker, calls, messages>>
  \/ t \in Worker /\ Drained(t) /\ ctx[t].exiting /\ UNCHANGED ctx /\ End(t, "left")

\* Mutant of Forward: the bridge ends at Terminate and tells nobody.
ForwardSilently(w) ==
  /\ ~Over /\ ctx[w].bridge = "on" /\ to_worker[w] # <<>>
  /\ \/ /\ Head(to_worker[w]) # Terminate
        /\ Send(w, Own("deliver", Head(to_worker[w])))
        /\ to_worker' = [to_worker EXCEPT ![w] = Tail(@)]
        /\ UNCHANGED ctx
     \/ /\ Head(to_worker[w]) = Terminate
        /\ to_worker' = [to_worker EXCEPT ![w] = <<>>]
        /\ ctx' = [ctx EXCEPT ![w].bridge = "off"]
        /\ UNCHANGED io_rx
  /\ UNCHANGED <<life, running, work, open_handles, WORKERS, calls, messages>>

\* The bridge thread forwards one message; Terminate is its last.
Forward(w) ==
  /\ ~Over /\ ctx[w].bridge = "on" /\ to_worker[w] # <<>>
  /\ \/ /\ Head(to_worker[w]) # Terminate
        /\ Send(w, Own("deliver", Head(to_worker[w])))
        /\ to_worker' = [to_worker EXCEPT ![w] = Tail(@)]
        /\ UNCHANGED ctx
     \/ /\ Head(to_worker[w]) = Terminate
        /\ Send(w, Own("release", 0))
        /\ to_worker' = [to_worker EXCEPT ![w] = <<>>]
        /\ ctx' = [ctx EXCEPT ![w].bridge = "off"]
  /\ UNCHANGED <<life, running, work, open_handles, WORKERS, calls, messages>>

----------------------------------------------------------------------------
Ends(t) == Return(t) \/ ExitDispatched(t) \/ Throw(t) \/ (t \in Worker /\ ExitReturns(t))
Loop(t) == RunWork(t) \/ Receive(t) \/ Leave(t)

Next ==
  \/ \E t \in Thread : ScheduleWork(t) \/ Ends(t) \/ Loop(t)
  \/ \E t \in Thread, w \in Worker :
       construct_worker(t, w) \/ PostToWorker(t, w) \/ TerminateWorker(t, w)
  \/ \E w \in Worker :
       \/ start_parent_bridge(w) \/ PostToParent(w) \/ close_parent_port(w)
       \/ StartThread(w) \/ Forward(w)
  \/ \E w \in Worker, c \in Code : SetExitCode(w, c) \/ ProcessExit(w, c) \/ ProcessExitAgain(w, c)

Spec == Init /\ [][Next]_vars

(* Every thread is scheduled, and callbacks end. *)
Fairness ==
  /\ \A t \in Thread : WF_vars(Ends(t)) /\ WF_vars(Loop(t))
  /\ \A w \in Worker : WF_vars(StartThread(w)) /\ WF_vars(Forward(w))

FairSpec == Spec /\ Fairness

----------------------------------------------------------------------------
TypeOK ==
  /\ life \in [Thread -> {"unborn", "spawned", "on", "left", "dead"}]
  /\ running \in [Thread -> Activation]
  /\ work \in [Thread -> Nat] /\ open_handles \in [Thread -> Nat]
  /\ io_rx \in [Thread -> Seq(Task)]
  /\ ctx \in [Worker -> [parent : Thread, bridge : {"none", "on", "off"},
                         port_released : BOOLEAN, port_closed : BOOLEAN,
                         port_close_emitted : BOOLEAN, exit_code : Nat \cup {None},
                         exiting : BOOLEAN]]
  /\ WORKERS \subseteq Worker
  /\ to_worker \in [Worker -> Seq(Nat)]
  /\ calls \in 0 .. MaxCalls
  /\ sent \in [Worker -> Nat] /\ posted \in [Worker -> Nat]
  /\ delivered \in [Worker -> Seq(Nat)] /\ heard \in [Worker -> Seq(Task)]

\* What holds a thread's loop: the workers it spawned until their exit is
\* dispatched, its bridge until it is released, a close() until it has run.
Workers(t) == {w \in WORKERS : ctx[w].parent = t}
Closing(w) == ctx[w].port_closed /\ ~ctx[w].port_close_emitted
PortHandles(t) ==
  IF t = Main THEN 0 ELSE (IF Holding(t) THEN 1 ELSE 0) + (IF Closing(t) THEN 1 ELSE 0)
HandlesHeld(t) == Cardinality(Workers(t)) + PortHandles(t)
HandlesCounted == \A t \in Thread : open_handles[t] = HandlesHeld(t)

\* A Worker object emits online, then the messages in the order they were posted,
\* an error if that is how the worker ends, and exit, once and last: by then
\* every message the worker ever posted has been emitted.
EventsInOrder ==
  \A w \in Worker : \A i \in DOMAIN heard[w] :
    LET e == heard[w][i]
    IN  /\ e.kind = "online" <=> i = 1
        /\ e.kind = "message" => e.n = i - 1
        /\ e.kind = "error" => i \in {posted[w] + 2, Len(heard[w]), Len(heard[w]) - 1}
        /\ e.kind = "exit" => /\ i = Len(heard[w])
                              /\ i \in {posted[w] + 2, posted[w] + 3}
                              /\ i = posted[w] + 3 => heard[w][i - 1].kind = "error"

\* The numbers in a sequence, apart from 0, are lo + 1 .. hi in ascending order.
InOrder(seq, lo, hi) ==
  /\ \A i \in DOMAIN seq : seq[i] # 0 => seq[i] \in lo + 1 .. hi
  /\ \A i, j \in DOMAIN seq : i < j /\ seq[i] # 0 /\ seq[j] # 0 => seq[i] < seq[j]
  /\ \A n \in lo + 1 .. hi : \E i \in DOMAIN seq : seq[i] = n

\* While the port is open nothing sent to a worker is lost, doubled or reordered:
\* the first messages were emitted, the next wait in the worker's loop, and the
\* rest wait for the bridge.
Forwarded(w) == [i \in DOMAIN io_rx[w] |-> IF io_rx[w][i].kind = "deliver" THEN io_rx[w][i].n ELSE 0]
MessagesKept ==
  \A w \in Worker :
    ctx[w].bridge # "off" /\ ~Gone(w) /\ ~ctx[w].port_close_emitted =>
      /\ \A i \in DOMAIN delivered[w] : delivered[w][i] = i
      /\ \E n \in Len(delivered[w]) .. sent[w] :
           InOrder(Forwarded(w), Len(delivered[w]), n) /\ InOrder(to_worker[w], n, sent[w])

\* The end of a worker is heard, unless its parent is cut short or was leaving already.
Exiting(t) == t \in Worker /\ ctx[t].exiting
EndsAreHeard ==
  \A w \in Worker :
    Gone(w) /\ ~Exiting(ctx[w].parent)
            ~> \/ life[Main] = "dead" \/ life[ctx[w].parent] = "dead"
               \/ heard[w] # <<>> /\ heard[w][Len(heard[w])].kind = "exit"

\* A worker that was asked to terminate ends, once its own workers have ended.
TerminatedWorkersEnd ==
  \A w \in Worker :
    (\E i \in DOMAIN to_worker[w] : to_worker[w][i] = Terminate)
      ~> (Over \/ Gone(w) \/ Workers(w) # {})

\* What was sent to a worker that listens arrives: it does not leave before,
\* unless it closes its port, is terminated or cut short.
MessagesArrive ==
  \A w \in Worker :
    (ctx[w].bridge = "on" /\ ~ctx[w].exiting /\ Len(delivered[w]) < sent[w])
      ~> \/ life[Main] = "dead" \/ life[w] = "dead" \/ ctx[w].bridge = "off"
         \/ ctx[w].port_closed \/ Len(delivered[w]) = sent[w]
=============================================================================
