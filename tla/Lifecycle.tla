------------------------------ MODULE Lifecycle ------------------------------
(***************************************************************************)
(* How a process of src/src/host.rs lives and leaves: the entry script, the *)
(* event loop it is followed by, uncaught exceptions and unhandled          *)
(* rejections, and the beforeExit and exit events of stdlib/process.rs.     *)
(*                                                                         *)
(* Callbacks are any JavaScript: they schedule work, reject promises, add   *)
(* listeners, set process.exitCode, call process.exit, return or throw.  Of *)
(* the event loop only its turns are here; EventLoop has the rest.          *)
(***************************************************************************)
EXTENDS Integers, Sequences, FiniteSets

CONSTANTS
  Events,          \* the process events the program listens to
  Codes,           \* the codes it sets or exits with
  MaxRounds,       \* rounds of beforeExit before the loop counts as drained: 1000
  MaxCalls,        \* bound: calls that change the state of the process
  MaxRejections    \* bound: promises rejected with nobody watching

ProcessEvents ==
  {"exit", "beforeExit", "uncaughtException", "uncaughtExceptionMonitor", "unhandledRejection"}

None == -1   \* no exit code

ASSUME LifecycleAssumption ==
  /\ Events \subseteq ProcessEvents /\ Codes \subseteq Nat
  /\ MaxRounds \in Nat \ {0} /\ MaxCalls \in Nat /\ MaxRejections \in Nat

VARIABLES
  at,           \* what the runtime does next, once the callbacks on the stack return
  stack,        \* the callbacks that run, innermost last
  listeners,    \* process_listeners: how many of each event's stay, and how many are for once
  micro, macro, \* what the event loop has to run
  rejections,   \* pending_rejections
  rejected,     \* history: a promise was rejected with nobody watching
  listed,       \* those a checkpoint has taken and not looked at yet
  origin,       \* origin of the exception being delivered
  exit_code, exiting, fatal_handler_failed,
  unsettled,    \* the entry module is suspended in a top-level await
  rounds,       \* rounds of finish_process_events; 0 in run_main's own loop
  status,       \* what the process left with
  calls, said   \* bound; history: the last code the program chose since it last failed

unhandled == <<rejections, rejected>>
program == <<listeners, micro, macro, unhandled, exit_code, unsettled, calls, said>>
vars == <<at, stack, listed, origin, exiting, fatal_handler_failed, rounds, status, program>>

Places == {"drain", "check", "turn", "recover", "deliver", "handlers", "closing", "more",
           "settle", "exiting", "exited", "failing", "failed", "left"}
Frame == [event : ProcessEvents \cup {"script", "task"}, left : Nat]

Init ==
  /\ at = "drain" /\ stack = <<[event |-> "script", left |-> 0]>>
  /\ listeners = [e \in ProcessEvents |-> [on |-> 0, once |-> 0]]
  /\ micro = 0 /\ macro = 0 /\ rejections = 0 /\ rejected = FALSE /\ listed = 0
  /\ origin = "uncaughtException"
  /\ exit_code = None /\ exiting = FALSE /\ fatal_handler_failed = FALSE
  /\ unsettled \in BOOLEAN
  /\ rounds = 0 /\ status = None /\ calls = 0 /\ said = None

Idle == stack = <<>>
Top == stack[Len(stack)]
Below == SubSeq(stack, 1, Len(stack) - 1)
Alive == micro > 0 \/ macro > 0

\* The uncaught error leaves the loop: run_main recovers it, finish_process_events does not.
LoopFails == IF rounds = 0 THEN "recover" ELSE "failing"

(* take_process_listeners: the listeners of now, each once listener for the last time. *)
Count(event) == listeners[event].on + listeners[event].once
Listened(event) == Count(event) > 0
Call(event, s) ==
  /\ stack' = Append(s, [event |-> event, left |-> Count(event) - 1])
  /\ listeners' = [listeners EXCEPT ![event].once = 0]

Leave(default) ==
  /\ at' = "left" /\ stack' = <<>>
  /\ status' = IF exit_code' = None THEN default ELSE exit_code'

----------------------------------------------------------------------------
(* What a callback may do. *)

InCallback == ~Idle /\ calls < MaxCalls /\ calls' = calls + 1
Elsewhere == UNCHANGED <<at, stack, listed, origin, exiting, fatal_handler_failed, rounds, status>>

\* process.on and process.once
On(event, kind) ==
  /\ InCallback
  /\ listeners' = [listeners EXCEPT ![event][kind] = @ + 1]
  /\ UNCHANGED <<micro, macro, unhandled, exit_code, unsettled, said>> /\ Elsewhere

\* process.off
Off(event, kind) ==
  /\ InCallback /\ listeners[event][kind] > 0
  /\ listeners' = [listeners EXCEPT ![event][kind] = @ - 1]
  /\ UNCHANGED <<micro, macro, unhandled, exit_code, unsettled, said>> /\ Elsewhere

QueueMicrotask ==
  /\ InCallback /\ micro' = micro + 1
  /\ UNCHANGED <<listeners, macro, unhandled, exit_code, unsettled, said>> /\ Elsewhere
SetTimeout ==
  /\ InCallback /\ macro' = macro + 1
  /\ UNCHANGED <<listeners, micro, unhandled, exit_code, unsettled, said>> /\ Elsewhere
Reject ==
  /\ InCallback /\ rejections + listed < MaxRejections
  /\ rejections' = rejections + 1 /\ rejected' = TRUE
  /\ UNCHANGED <<listeners, micro, macro, exit_code, unsettled, said>> /\ Elsewhere

\* The entry module's top-level await is over.
SettleEntry ==
  /\ InCallback /\ unsettled' = FALSE
  /\ UNCHANGED <<listeners, micro, macro, unhandled, exit_code, said>> /\ Elsewhere

set_exit_code(code) ==
  /\ InCallback /\ exit_code' = code /\ said' = code
  /\ UNCHANGED <<listeners, micro, macro, unhandled, unsettled>> /\ Elsewhere

\* process.exit: the exit listeners run on top of the caller.
Exit(code) ==
  /\ ~Idle
  /\ exit_code' = IF code = None THEN exit_code ELSE code
  /\ said' = IF code = None THEN said ELSE code
  /\ exiting' = TRUE
  /\ \/ /\ exiting \/ ~Listened("exit")
        /\ Leave(0) /\ UNCHANGED listeners
     \/ /\ ~exiting /\ Listened("exit")
        /\ Call("exit", stack) /\ UNCHANGED <<at, status>>
  /\ UNCHANGED <<micro, macro, unhandled, listed, origin, fatal_handler_failed, unsettled,
                 rounds, calls>>

Return ==
  /\ ~Idle
  /\ \/ /\ Top.left > 0
        /\ stack' = Append(Below, [Top EXCEPT !.left = @ - 1])
        /\ UNCHANGED <<at, status, exit_code>>
     \/ /\ Top.left = 0 /\ Top.event = "exit"
        /\ UNCHANGED exit_code
        /\ Leave(IF at = "failed" /\ Len(stack) = 1 THEN 1 ELSE 0)
     \/ /\ Top.left = 0 /\ Top.event # "exit"
        /\ stack' = Below /\ UNCHANGED <<at, status, exit_code>>
  /\ UNCHANGED <<listeners, micro, macro, unhandled, listed, origin, exiting,
                 fatal_handler_failed, unsettled, rounds, calls, said>>

\* Where an exception that leaves the outermost callback goes.
Uncaught ==
  CASE Top.event = "script" -> "recover"
    [] Top.event \in {"task", "unhandledRejection"} -> LoopFails
    [] Top.event \in {"uncaughtException", "uncaughtExceptionMonitor"} ->
         IF origin = "uncaughtException" THEN "failing" ELSE LoopFails
    [] OTHER -> "failing"

\* Mutant of Throw: an exception of a listener is offered to the listeners again.
ThrowOffered ==
  /\ ~Idle /\ Len(stack) = 1 /\ stack' = <<>> /\ listed' = 0
  /\ at' = IF Top.event = "uncaughtException" THEN "recover" ELSE Uncaught
  /\ UNCHANGED <<program, origin, exiting, fatal_handler_failed, rounds, status>>

Throw ==
  /\ ~Idle
  /\ fatal_handler_failed' = (fatal_handler_failed \/ Top.event = "uncaughtException")
  /\ \/ \* an exit listener's, into the caller of process.exit, which may catch it
        /\ Len(stack) > 1 /\ stack' = Below
        /\ UNCHANGED <<at, status, exit_code, listed>>
     \/ \* an exit listener's, after the process failed: nobody looks at it
        /\ Len(stack) = 1 /\ at = "failed"
        /\ UNCHANGED <<exit_code, listed>> /\ Leave(1)
     \/ /\ Len(stack) = 1 /\ at # "failed"
        /\ stack' = <<>> /\ at' = Uncaught /\ listed' = 0
        /\ UNCHANGED <<status, exit_code>>
  /\ UNCHANGED <<listeners, micro, macro, unhandled, origin, exiting, unsettled, rounds,
                 calls, said>>
----------------------------------------------------------------------------
(* run_main, recover_uncaught, deliver_uncaught. *)

Goto(from, to) == Idle /\ at = from /\ at' = to
Others == UNCHANGED <<micro, macro, unhandled, exit_code, unsettled, calls, said,
                      exiting, fatal_handler_failed, status>>

Recover ==
  /\ \/ /\ Listened("uncaughtException") \/ Listened("uncaughtExceptionMonitor")
        /\ Goto("recover", "deliver") /\ origin' = "uncaughtException"
     \/ /\ ~Listened("uncaughtException") /\ ~Listened("uncaughtExceptionMonitor")
        /\ Goto("recover", "failing") /\ UNCHANGED origin
  /\ UNCHANGED <<stack, listeners, listed, rounds>> /\ Others

Deliver ==
  /\ Goto("deliver", "handlers")
  /\ IF Listened("uncaughtExceptionMonitor")
     THEN Call("uncaughtExceptionMonitor", stack) ELSE UNCHANGED <<stack, listeners>>
  /\ UNCHANGED <<listed, origin, rounds>> /\ Others

Handlers ==
  /\ \/ /\ Listened("uncaughtException") /\ Call("uncaughtException", stack)
        /\ Goto("handlers", IF origin = "uncaughtException" THEN "drain" ELSE "check")
        /\ UNCHANGED listed
     \/ /\ ~Listened("uncaughtException") /\ UNCHANGED <<stack, listeners>>
        /\ Goto("handlers", IF origin = "uncaughtException" THEN "failing" ELSE LoopFails)
        /\ listed' = 0
  /\ UNCHANGED <<origin, rounds>> /\ Others

(* drive_event_loop *)

Task == stack' = <<[event |-> "task", left |-> 0]>> /\ UNCHANGED listeners
OfLoop == UNCHANGED <<unhandled, exit_code, unsettled, calls, said, exiting,
                      fatal_handler_failed, status, rounds>>

Drain ==
  /\ \/ micro > 0 /\ Goto("drain", "drain") /\ Task /\ micro' = micro - 1
     \/ micro = 0 /\ Goto("drain", "check") /\ UNCHANGED <<stack, listeners, micro>>
  /\ UNCHANGED <<macro, listed, origin>> /\ OfLoop

\* check_unhandled_rejections
Check ==
  /\ \/ /\ listed = 0 /\ rejections = 0 /\ Goto("check", "turn")
        /\ UNCHANGED <<stack, listeners, unhandled, listed, origin>>
     \/ /\ listed = 0 /\ rejections > 0 /\ Goto("check", "check")
        /\ listed' = rejections /\ rejections' = 0 /\ UNCHANGED rejected
        /\ UNCHANGED <<stack, listeners, origin>>
     \/ /\ listed > 0 /\ Listened("unhandledRejection") /\ Goto("check", "check")
        /\ Call("unhandledRejection", stack) /\ listed' = listed - 1
        /\ UNCHANGED <<unhandled, origin>>
     \/ /\ listed > 0 /\ ~Listened("unhandledRejection")
        /\ Listened("uncaughtException") \/ Listened("uncaughtExceptionMonitor")
        /\ Goto("check", "deliver") /\ origin' = "unhandledRejection" /\ listed' = listed - 1
        /\ UNCHANGED <<stack, listeners, unhandled>>
     \/ /\ listed > 0 /\ ~Listened("unhandledRejection")
        /\ ~Listened("uncaughtException") /\ ~Listened("uncaughtExceptionMonitor")
        /\ Goto("check", LoopFails) /\ listed' = 0
        /\ UNCHANGED <<stack, listeners, unhandled, origin>>
  /\ UNCHANGED <<micro, macro, exit_code, unsettled, calls, said, exiting,
                 fatal_handler_failed, status, rounds>>

\* With nothing but microtasks left the table of timers is empty, and the loop breaks.
Turn ==
  /\ \/ macro > 0 /\ Goto("turn", "drain") /\ Task /\ macro' = macro - 1
     \/ macro = 0 /\ Goto("turn", "closing") /\ UNCHANGED <<stack, listeners, macro>>
  /\ UNCHANGED <<micro, listed, origin>> /\ OfLoop

(* finish_process_events *)

Closing ==
  /\ \/ rounds = MaxRounds /\ Goto("closing", "settle") /\ UNCHANGED <<stack, listeners, rounds>>
     \/ /\ rounds < MaxRounds /\ rounds' = rounds + 1
        /\ \/ Listened("beforeExit") /\ Goto("closing", "more") /\ Call("beforeExit", stack)
           \/ ~Listened("beforeExit") /\ Goto("closing", "settle") /\ UNCHANGED <<stack, listeners>>
  /\ UNCHANGED <<listed, origin>> /\ Others

\* Mutant of More: beforeExit is the end, whatever it scheduled.
MoreNever ==
  /\ Goto("more", "settle")
  /\ UNCHANGED <<stack, listeners, listed, origin, rounds>> /\ Others

More ==
  /\ Goto("more", IF Alive THEN "drain" ELSE "settle")
  /\ UNCHANGED <<stack, listeners, listed, origin, rounds>> /\ Others

\* Mutant of Settle: the warning's code overrides the program's.
SettleForcing ==
  /\ Goto("settle", "exiting")
  /\ exit_code' = IF unsettled THEN 13 ELSE exit_code
  /\ UNCHANGED <<stack, listeners, micro, macro, unhandled, unsettled, calls, said, listed,
                 origin, exiting, fatal_handler_failed, status, rounds>>

\* settle_unfinished_entry
Settle ==
  /\ Goto("settle", "exiting")
  /\ exit_code' = IF unsettled /\ exit_code = None THEN 13 ELSE exit_code
  /\ UNCHANGED <<stack, listeners, micro, macro, unhandled, unsettled, calls, said, listed,
                 origin, exiting, fatal_handler_failed, status, rounds>>

(* emit_exit_event, after the loop and after a failure *)
EmitExit(after, default) ==
  /\ exiting' = TRUE
  /\ \/ /\ exiting \/ ~Listened("exit")
        /\ Leave(default) /\ UNCHANGED listeners
     \/ /\ ~exiting /\ Listened("exit")
        /\ Call("exit", stack) /\ at' = after /\ UNCHANGED status

Finish ==
  /\ Idle /\ at = "exiting"
  /\ UNCHANGED exit_code /\ EmitExit("exited", 0)
  /\ UNCHANGED <<micro, macro, unhandled, unsettled, calls, said, listed, origin,
                 fatal_handler_failed, rounds>>

\* exit_code_after_failure
Fail ==
  /\ Idle /\ at = "failing"
  /\ \/ /\ fatal_handler_failed
        /\ at' = "left" /\ stack' = <<>> /\ status' = 7
        /\ UNCHANGED <<listeners, exit_code, exiting, said>>
     \/ /\ ~fatal_handler_failed
        /\ exit_code' = 1 /\ said' = None
        /\ EmitExit("failed", 1)
  /\ UNCHANGED <<micro, macro, unhandled, unsettled, calls, listed, origin,
                 fatal_handler_failed, rounds>>

----------------------------------------------------------------------------
Runtime == Recover \/ Deliver \/ Handlers \/ Drain \/ Check \/ Turn \/ Closing \/ More \/ Settle
           \/ Finish \/ Fail

Next ==
  \/ \E e \in Events, k \in {"on", "once"} : On(e, k) \/ Off(e, k)
  \/ QueueMicrotask \/ SetTimeout \/ Reject \/ SettleEntry
  \/ \E c \in Codes \cup {None} : set_exit_code(c)
  \/ \E c \in Codes \cup {None} : Exit(c)
  \/ Return \/ Throw \/ Runtime

Spec == Init /\ [][Next]_vars

(* Every callback ends, by returning or throwing, and the runtime goes on. *)
FairSpec == Spec /\ WF_vars(Return \/ Throw \/ Runtime)

----------------------------------------------------------------------------
TypeOK ==
  /\ at \in Places /\ stack \in Seq(Frame)
  /\ listeners \in [ProcessEvents -> [on : Nat, once : Nat]]
  /\ micro \in Nat /\ macro \in Nat
  /\ rejections \in Nat /\ rejected \in BOOLEAN /\ listed \in Nat
  /\ origin \in {"uncaughtException", "unhandledRejection"}
  /\ exit_code \in Int /\ exiting \in BOOLEAN /\ fatal_handler_failed \in BOOLEAN
  /\ unsettled \in BOOLEAN /\ rounds \in 0 .. MaxRounds /\ status \in Int
  /\ calls \in 0 .. MaxCalls /\ said \in Int

\* "process.exit() inside an exit handler must not re-enter it": wherever exit is
\* called from, its listeners are on the stack at most once, and innermost.
OneExitEvent ==
  \A i \in DOMAIN stack : stack[i].event = "exit" => i = Len(stack)

\* "work scheduled from a handler is honoured": the exit event of a program that
\* ends on its own finds nothing to run, unless beforeExit went on for every round.
\* A listener told of an unhandled rejection is the exception: what it queues is
\* not drained before the loop looks whether it is alive.
NoWorkLeftBehind ==
  at \in {"settle", "exiting"} /\ ~rejected => ~Alive \/ rounds = MaxRounds

\* The last code the program chose, by process.exitCode or process.exit, before
\* or during the exit event, is the one the process leaves with.
LastCodeWins ==
  at = "left" /\ said # None => status = said \/ fatal_handler_failed

\* However its callbacks throw, exit and listen, the process leaves.
ProcessLeaves == <>(at = "left")
=============================================================================
