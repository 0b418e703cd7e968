------------------------------- MODULE HostIo -------------------------------
(***************************************************************************)
(* What the I/O modules of src/src/stdlib share: the loop of               *)
(* src/src/host.rs as they use it.  A resource takes a handle              *)
(* (incr_handle), background threads post IoTasks on the channel, and the  *)
(* loop runs them one at a time.  An IoTask emits events; what its Rust    *)
(* function does after an emit waits in "task" while the listener runs,    *)
(* and is dropped when the listener throws, as `?` drops it.               *)
(*                                                                         *)
(* Of the rest of the loop (EventLoop) only immediates are kept.  What     *)
(* other callbacks do is done by the activation that schedules them.       *)
(***************************************************************************)
EXTENDS Integers, Sequences, FiniteSets

CONSTANTS
  Emitter,    \* the objects whose events the properties follow
  MaxCalls,   \* bound: calls the program makes
  MaxTasks    \* bound: IoTasks in the channel when a peer sends

ASSUME HostIoBounds == MaxCalls \in Nat /\ MaxTasks \in Nat

VARIABLES
  open_handles,
  io_rx,       \* IoTasks posted and not yet received
  immediates,  \* timers of delay -1, served before the channel
  task,        \* what the function being run does after the emit it is in
  running,     \* whether JavaScript is on the stack
  left,        \* "no", "left" once the loop has ended, "died" after an uncaught error
  calls,       \* calls made so far
  heard        \* the last event each emitter emitted

hostVars == <<open_handles, io_rx, immediates, task, running, left, calls, heard>>

HostInit ==
  /\ open_handles = 0 /\ io_rx = <<>> /\ immediates = <<>>
  /\ task = <<>> /\ running = TRUE /\ left = "no" /\ calls = 0
  /\ heard = [o \in Emitter |-> "nothing"]

IoTask(kind, of, id) == [kind |-> kind, of |-> of, id |-> id]
Wake == IoTask("wake", "nobody", 0)
Emit(o, event) == [do |-> "emit", of |-> o, event |-> event]
Step(what, o) == [do |-> what, of |-> o, event |-> "none"]

incr_handle == open_handles' = open_handles + 1
\* decr_handle saturates at 0.
decr_handle == open_handles' = IF open_handles = 0 THEN 0 ELSE open_handles - 1

----------------------------------------------------------------------------
(* Calls of the program. *)

Call ==
  /\ running /\ calls < MaxCalls
  /\ calls' = calls + 1
  /\ UNCHANGED <<task, running, left>>

\* A call that neither posts nor emits.
Quiet == UNCHANGED <<io_rx, immediates, heard>>

Return ==
  /\ running
  /\ running' = FALSE
  /\ UNCHANGED <<open_handles, io_rx, immediates, task, left, calls, heard>>

\* channel_deliver and broadcast_deliver print the error and go on.
Caught == task # <<>> /\ Head(task).do = "delivered"

\* The error leaves the task.  A listener of uncaughtException takes it and the
\* loop goes on; without one the process ends.
Throw ==
  /\ running /\ ~Caught
  /\ running' = FALSE /\ task' = <<>>
  /\ left' \in {"no", "died"}
  /\ UNCHANGED <<open_handles, io_rx, immediates, calls, heard>>

----------------------------------------------------------------------------
(* The loop and the function it runs. *)

Idle == ~running /\ left = "no" /\ task = <<>>

Received(kind) ==
  /\ Idle /\ immediates = <<>> /\ open_handles > 0
  /\ io_rx # <<>> /\ Head(io_rx).kind = kind
  /\ io_rx' = Tail(io_rx)
  /\ UNCHANGED <<immediates, left, calls>>

RunWake ==
  /\ Received("wake")
  /\ UNCHANGED <<open_handles, task, running, heard>>

\* The function is at step "what", and goes on with the rest.
Reached(what) ==
  /\ ~running /\ left = "no"
  /\ task # <<>> /\ Head(task).do = what
  /\ task' = Tail(task)
  /\ UNCHANGED <<immediates, left, calls>>

\* A listener runs, or none is registered: then it returns at once.
RunEmit ==
  /\ Reached("emit")
  /\ heard' = [heard EXCEPT ![Head(task).of] = Head(task).event]
  /\ running' = TRUE
  /\ UNCHANGED <<open_handles, io_rx>>

\* loop_alive: the channel does not count.
Leave ==
  /\ Idle /\ immediates = <<>> /\ open_handles = 0
  /\ left' = "left"
  /\ UNCHANGED <<open_handles, io_rx, immediates, task, running, calls, heard>>

HostNext == Return \/ Throw \/ RunWake \/ RunEmit \/ Leave
=============================================================================
