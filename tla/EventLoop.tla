----------------------------- MODULE EventLoop -----------------------------
(***************************************************************************)
(* The event loop of src/src/host.rs: the nextTick, microtask and          *)
(* I/O-completion queues, the timer table with its virtual and its real    *)
(* clock, the channel on which background threads post IoTasks, and        *)
(* drive_event_loop, which serves them.  JavaScript is whatever the        *)
(* program wants: while an activation is on the stack, it may perform any  *)
(* sequence of the calls below, then return or throw.                      *)
(*                                                                         *)
(* Times are kept relative: deadline is the field's distance from          *)
(* Instant::now() and vdeadline its distance from virtual_now, so a clock  *)
(* that advances is a subtraction.  A timer's seq is its position: every   *)
(* entry is pushed at the end with a larger seq than any before it.        *)
(***************************************************************************)
EXTENDS Integers, Sequences, FiniteSets

CONSTANTS
  Callback,       \* the program's functions; each waits in one place at a time
  Main, Handler,  \* the program's top level; its process.on listeners
  Nobody,         \* no activation on the stack
  Watcher,        \* a watched file, and the empty IoTask unwatchFile posts
  Delay,          \* the durations the program gives setTimeout, setInterval
  MaxLate,        \* bound: no pending timer gets later than this
  Uses,           \* Uses[c]: the ways the program schedules c
  Reuse,          \* bound, when FALSE: each callback is scheduled once
  Watches,        \* whether the program watches a file
  MaxRejections,  \* bound: unhandled rejections waiting at once
  CatchUncaught,  \* whether process.on('uncaughtException') is registered
  CatchRejections \* whether process.on('unhandledRejection') is registered

Way == {"nextTick", "queueMicrotask", "completion", "operation",
        "setTimeout", "setInterval", "setImmediate"}

ASSUME CallbackAssumption ==
  /\ Nobody \notin Callback /\ Main \notin Callback /\ Handler \notin Callback
  /\ Watcher \notin Callback /\ Nobody # Main /\ Nobody # Handler
ASSUME DelayAssumption == Delay \subseteq Nat \ {0} /\ MaxLate \in Nat
ASSUME UsesAssumption == Uses \in [Callback -> SUBSET Way]
ASSUME FlagAssumption ==
  /\ MaxRejections \in Nat
  /\ Reuse \in BOOLEAN /\ Watches \in BOOLEAN
  /\ CatchUncaught \in BOOLEAN /\ CatchRejections \in BOOLEAN

VARIABLES
  phase,          \* where drive_event_loop is
  running,        \* the activation on the stack
  nextticks, microtasks, draining_micro,
  io_completions,
  rejections,     \* promises rejected with no handler since the last checkpoint
  reporting,      \* of those, the ones the checkpoint has taken to report
  macrotasks,     \* the timer table, a Vec: sequence of timers
  threads,        \* operations a background thread is still working on
  io_rx,          \* IoTasks posted and not yet received
  watching,       \* the file is watched, and holds a handle
  open_handles,
  submitted       \* callbacks scheduled so far, when Reuse is FALSE

rejected == <<rejections, reporting>>
queues == <<nextticks, microtasks, draining_micro, io_completions, rejected>>
io == <<threads, io_rx, watching, open_handles>>
vars == <<phase, running, queues, macrotasks, io, submitted>>

Activation == Callback \cup {Main, Handler}
Timer == [id : Callback, delay : Delay \cup {-1}, interval : BOOLEAN,
          cancelled : BOOLEAN, refed : BOOLEAN, deadline : Int, vdeadline : Int]

Members(s) == {s[i] : i \in DOMAIN s}
Remove(s, i) == [j \in 1 .. Len(s) - 1 |-> IF j < i THEN s[j] ELSE s[j + 1]]

----------------------------------------------------------------------------
(* The timer table. *)

Live(t) == ~t.cancelled
LiveAt == {i \in DOMAIN macrotasks : Live(macrotasks[i])}
TimerIds == {macrotasks[i].id : i \in DOMAIN macrotasks}
LiveIds == {macrotasks[i].id : i \in LiveAt}
HeldIds == {macrotasks[i].id : i \in {j \in LiveAt : macrotasks[j].refed}}

has_refed_macrotasks == \E i \in LiveAt : macrotasks[i].refed
has_pending_interval == \E i \in LiveAt : macrotasks[i].interval

\* pop_next_timer and pop_due_timer: the least deadline, ties by seq.
IsNextTimer(i) ==
  /\ i \in LiveAt
  /\ \A j \in LiveAt : \/ macrotasks[i].vdeadline < macrotasks[j].vdeadline
                       \/ macrotasks[i].vdeadline = macrotasks[j].vdeadline /\ i <= j
Due(i) == i \in LiveAt /\ macrotasks[i].deadline <= 0

\* Mutant of IsDueTimer: of two timers due together, the later pushed.
IsDueTimerTiesReversed(i) ==
  /\ Due(i)
  /\ \A j \in LiveAt : Due(j) => \/ macrotasks[i].deadline < macrotasks[j].deadline
                                 \/ macrotasks[i].deadline = macrotasks[j].deadline /\ i >= j

IsDueTimer(i) ==
  /\ Due(i)
  /\ \A j \in LiveAt : Due(j) => \/ macrotasks[i].deadline < macrotasks[j].deadline
                                 \/ macrotasks[i].deadline = macrotasks[j].deadline /\ i <= j

\* deadline is now + max(delay, 0), and setImmediate's delay is -1.
NewTimer(c, delay, repeats) ==
  [id |-> c, delay |-> delay, interval |-> repeats, cancelled |-> FALSE, refed |-> TRUE,
   deadline |-> IF delay < 0 THEN 0 ELSE delay, vdeadline |-> delay]

restarted(t) == [t EXCEPT !.deadline = IF t.delay < 0 THEN 0 ELSE t.delay,
                          !.vdeadline = t.delay]

\* fire_timer re-arms a repeating timer before its callback runs.
fire_timer(t, rest) == IF t.interval THEN Append(rest, restarted(t)) ELSE rest

\* Mutant of cancel_timer: an interval is left to its next firing.
cancel_timer_not_intervals(id) ==
  [i \in DOMAIN macrotasks |->
    [macrotasks[i] EXCEPT !.cancelled = @ \/ (macrotasks[i].id = id /\ ~macrotasks[i].interval)]]

cancel_timer(id) ==
  [i \in DOMAIN macrotasks |->
    [macrotasks[i] EXCEPT !.cancelled = @ \/ macrotasks[i].id = id]]

set_timer_refed(id, r) ==
  [i \in DOMAIN macrotasks |->
    IF i \in LiveAt /\ macrotasks[i].id = id THEN [macrotasks[i] EXCEPT !.refed = r]
    ELSE macrotasks[i]]

refresh_timer(id) ==
  [i \in DOMAIN macrotasks |->
    IF i \in LiveAt /\ macrotasks[i].id = id THEN restarted(macrotasks[i])
    ELSE macrotasks[i]]

----------------------------------------------------------------------------
Init ==
  /\ phase = "drain" /\ running = Main
  /\ nextticks = <<>> /\ microtasks = <<>> /\ draining_micro = FALSE
  /\ io_completions = <<>> /\ macrotasks = <<>>
  /\ rejections = 0 /\ reporting = 0
  /\ threads = {} /\ io_rx = <<>> /\ watching = FALSE /\ open_handles = 0
  /\ submitted = {}

(* The calls JavaScript makes. *)

InJS == running # Nobody

Waiting == Members(nextticks) \cup Members(microtasks) \cup Members(io_completions)
             \cup TimerIds \cup threads \cup (Members(io_rx) \ {Watcher})

\* Abstraction: a function value is named by where it waits, so it waits in one
\* place at a time, and one whose timer was cleared is not scheduled again.
Schedule(c, way) ==
  /\ InJS /\ way \in Uses[c]
  /\ c \notin Waiting /\ c \notin submitted
  /\ submitted' = IF Reuse THEN submitted ELSE submitted \cup {c}

NextTick(c) ==
  /\ Schedule(c, "nextTick")
  /\ nextticks' = Append(nextticks, c)
  /\ UNCHANGED <<phase, running, microtasks, draining_micro, io_completions, rejected, macrotasks, io>>

QueueMicrotask(c) ==
  /\ Schedule(c, "queueMicrotask")
  /\ microtasks' = Append(microtasks, c)
  /\ UNCHANGED <<phase, running, nextticks, draining_micro, io_completions, rejected, macrotasks, io>>

\* fs, zlib, crypto: the operation is done on the spot, its callback waits.
QueueIoCallback(c) ==
  /\ Schedule(c, "completion")
  /\ io_completions' = Append(io_completions, c)
  /\ UNCHANGED <<phase, running, nextticks, microtasks, draining_micro, rejected, macrotasks, io>>

AddTimer(c, delay, repeats) ==
  /\ macrotasks' = Append(macrotasks, NewTimer(c, delay, repeats))
  /\ UNCHANGED <<phase, running, queues, io>>

SetTimeout(c, d) == Schedule(c, "setTimeout") /\ AddTimer(c, d, FALSE)
SetInterval(c, d) == Schedule(c, "setInterval") /\ AddTimer(c, d, TRUE)
SetImmediate(c) == Schedule(c, "setImmediate") /\ AddTimer(c, -1, FALSE)

\* clearTimeout, clearInterval, clearImmediate and close(), on their own kind.
ClearTimer(c) ==
  /\ InJS /\ c \in LiveIds
  /\ macrotasks' = cancel_timer(c)
  /\ UNCHANGED <<phase, running, queues, io, submitted>>

RefTimer(c, r) ==
  /\ InJS /\ c \in LiveIds /\ (c \in HeldIds) # r
  /\ macrotasks' = set_timer_refed(c, r)
  /\ UNCHANGED <<phase, running, queues, io, submitted>>

\* An Immediate has no refresh method.
RefreshTimer(c) ==
  /\ InJS /\ \E i \in LiveAt : macrotasks[i].id = c /\ macrotasks[i].delay > 0
  /\ macrotasks' = refresh_timer(c)
  /\ macrotasks' # macrotasks
  /\ UNCHANGED <<phase, running, queues, io, submitted>>

\* A one-shot operation on a thread of its own, such as dns.lookupService: the
\* handle is taken at the call and given back by the IoTask that reports.
StartOperation(c) ==
  /\ Schedule(c, "operation")
  /\ open_handles' = open_handles + 1
  /\ threads' = threads \cup {c}
  /\ UNCHANGED <<phase, running, queues, macrotasks, io_rx, watching>>

\* A resource that stays open: fs.watchFile; sockets and servers count the same.
\* Bound: one file, watched again only once its wake-up has been received.
\* Abstraction: the file itself does not change.
WatchFile ==
  /\ InJS /\ Watches /\ ~watching
  /\ Watcher \notin Members(io_rx) /\ Watcher \notin submitted
  /\ watching' = TRUE
  /\ open_handles' = open_handles + 1
  /\ submitted' = IF Reuse THEN submitted ELSE submitted \cup {Watcher}
  /\ UNCHANGED <<phase, running, queues, macrotasks, threads, io_rx>>

\* decr_handle saturates at 0.
\* Mutant of decr_handle: the handle is never given back.
decr_handle_leaking(n) == n
decr_handle(n) == IF n = 0 THEN 0 ELSE n - 1

UnwatchFile ==
  /\ InJS /\ watching
  /\ watching' = FALSE
  /\ open_handles' = decr_handle(open_handles)
  /\ io_rx' = Append(io_rx, Watcher)
  /\ UNCHANGED <<phase, running, queues, macrotasks, threads, submitted>>

Return ==
  /\ InJS
  /\ running' = Nobody
  /\ UNCHANGED <<phase, queues, macrotasks, io, submitted>>

\* run_event_loop returns Err: run_main offers the exception to the listeners
\* and, if one takes it, starts the loop again from its top.  One that throws
\* there is fatal; one called by the checkpoint only leaves it.
Throw ==
  /\ InJS
  /\ IF CatchUncaught /\ (running # Handler \/ phase = "report")
     THEN running' = Handler /\ phase' = "drain"
     ELSE running' = Nobody /\ phase' = "dead"
  /\ reporting' = 0
  /\ UNCHANGED <<nextticks, microtasks, draining_micro, io_completions, rejections,
                 macrotasks, io, submitted>>

\* process.exit().
ProcessExit ==
  /\ InJS
  /\ running' = Nobody /\ phase' = "dead"
  /\ UNCHANGED <<queues, macrotasks, io, submitted>>

\* A promise is rejected that nobody handles, and one gets a handler after all.
Reject ==
  /\ InJS /\ rejections + reporting < MaxRejections
  /\ rejections' = rejections + 1
  /\ UNCHANGED <<phase, running, nextticks, microtasks, draining_micro, io_completions,
                 reporting, macrotasks, io, submitted>>

HandleRejection ==
  /\ InJS
  /\ \/ rejections > 0 /\ rejections' = rejections - 1 /\ UNCHANGED reporting
     \/ reporting > 0 /\ reporting' = reporting - 1 /\ UNCHANGED rejections
  /\ UNCHANGED <<phase, running, nextticks, microtasks, draining_micro, io_completions,
                 macrotasks, io, submitted>>

JS ==
  \/ \E c \in Callback :
       \/ NextTick(c) \/ QueueMicrotask(c) \/ QueueIoCallback(c) \/ SetImmediate(c)
       \/ StartOperation(c) \/ ClearTimer(c) \/ RefreshTimer(c)
       \/ \E d \in Delay : SetTimeout(c, d) \/ SetInterval(c, d)
       \/ \E r \in BOOLEAN : RefTimer(c, r)
  \/ WatchFile \/ UnwatchFile
  \/ Reject \/ HandleRejection
  \/ Return \/ Throw \/ ProcessExit

----------------------------------------------------------------------------
(* drive_event_loop: each callback is followed by step 1, the drain. *)

At(p) == running = Nobody /\ phase = p
Run(c) == running' = c /\ phase' = "drain"

\* next_microtask hands out a tick, a microtask, or nothing.
RunTick ==
  /\ At("drain") /\ nextticks # <<>>
  /\ ~draining_micro \/ microtasks = <<>>
  /\ Run(Head(nextticks))
  /\ nextticks' = Tail(nextticks)
  /\ draining_micro' = FALSE
  /\ UNCHANGED <<microtasks, io_completions, rejected, macrotasks, io, submitted>>

\* Mutant of RunMicrotask: the round ends with the queue's last job, so a tick
\* that job queues overtakes the microtasks it queues.
RunMicrotaskEndingRound ==
  /\ At("drain") /\ microtasks # <<>>
  /\ draining_micro \/ nextticks = <<>>
  /\ Run(Head(microtasks))
  /\ microtasks' = Tail(microtasks)
  /\ draining_micro' = (Tail(microtasks) # <<>>)
  /\ UNCHANGED <<nextticks, io_completions, rejected, macrotasks, io, submitted>>

RunMicrotask ==
  /\ At("drain") /\ microtasks # <<>>
  /\ draining_micro \/ nextticks = <<>>
  /\ Run(Head(microtasks))
  /\ microtasks' = Tail(microtasks)
  /\ draining_micro' = TRUE
  /\ UNCHANGED <<nextticks, io_completions, rejected, macrotasks, io, submitted>>

Drained ==
  /\ At("drain") /\ nextticks = <<>> /\ microtasks = <<>>
  /\ draining_micro' = FALSE
  /\ phase' = "report"
  /\ UNCHANGED <<running, nextticks, microtasks, io_completions, rejected, macrotasks, io, submitted>>

(* check_unhandled_rejections: one listener call for each promise taken, with  *)
(* no drain between them or after them.                                       *)

TakeRejections ==
  /\ At("report") /\ reporting = 0 /\ rejections > 0
  /\ reporting' = rejections /\ rejections' = 0
  /\ UNCHANGED <<phase, running, nextticks, microtasks, draining_micro, io_completions,
                 macrotasks, io, submitted>>

\* With neither listener the rejection is an uncaught exception.
ReportRejection ==
  /\ At("report") /\ reporting > 0
  /\ reporting' = reporting - 1
  /\ IF CatchRejections \/ CatchUncaught
     THEN running' = Handler /\ UNCHANGED phase
     ELSE phase' = "dead" /\ UNCHANGED running
  /\ UNCHANGED <<nextticks, microtasks, draining_micro, io_completions, rejections,
                 macrotasks, io, submitted>>

Reported ==
  /\ At("report") /\ reporting = 0 /\ rejections = 0
  /\ phase' = "turn"
  /\ UNCHANGED <<running, queues, macrotasks, io, submitted>>

\* Mutant of loop_alive: I/O completions are forgotten.
loop_alive_without_completions ==
  nextticks # <<>> \/ microtasks # <<>> \/ open_handles > 0 \/ has_refed_macrotasks

loop_alive ==
  \/ nextticks # <<>> \/ microtasks # <<>> \/ io_completions # <<>>
  \/ open_handles > 0 \/ has_refed_macrotasks

virtual_clock == open_handles = 0 /\ ~has_pending_interval

\* Both ways out: nothing referenced is left, or no timer for the virtual clock.
Exit ==
  /\ At("turn")
  /\ ~loop_alive \/ (io_completions = <<>> /\ virtual_clock /\ LiveAt = {})
  /\ phase' = "exited"
  /\ UNCHANGED <<running, queues, macrotasks, io, submitted>>

RunCompletion ==
  /\ At("turn") /\ io_completions # <<>>
  /\ Run(Head(io_completions))
  /\ io_completions' = Tail(io_completions)
  /\ UNCHANGED <<nextticks, microtasks, draining_micro, rejected, macrotasks, io, submitted>>

ClockTurn == At("turn") /\ loop_alive /\ io_completions = <<>>

\* Mutant of Advance: virtual_now stays where it was.
AdvanceNothing(ts, t) == ts

\* virtual_now becomes the deadline of the timer that fires, if that is later.
Advance(ts, t) ==
  [j \in DOMAIN ts |-> IF Live(ts[j]) /\ t.vdeadline > 0
                       THEN [ts[j] EXCEPT !.vdeadline = @ - t.vdeadline]
                       ELSE ts[j]]

FireVirtual ==
  /\ ClockTurn /\ virtual_clock
  /\ \E i \in LiveAt :
       /\ IsNextTimer(i)
       /\ macrotasks' = fire_timer(macrotasks[i],
                                   Advance(Remove(macrotasks, i), macrotasks[i]))
       /\ Run(macrotasks[i].id)
  /\ UNCHANGED <<queues, io, submitted>>

FireDue ==
  /\ ClockTurn /\ ~virtual_clock
  /\ \E i \in LiveAt :
       /\ IsDueTimer(i)
       /\ macrotasks' = fire_timer(macrotasks[i], Remove(macrotasks, i))
       /\ Run(macrotasks[i].id)
  /\ UNCHANGED <<queues, io, submitted>>

\* Nothing is due: recv, or recv_timeout up to the earliest deadline.
Block ==
  /\ ClockTurn /\ ~virtual_clock /\ \A i \in LiveAt : ~Due(i)
  /\ phase' = "recv"
  /\ UNCHANGED <<running, queues, macrotasks, io, submitted>>

\* Mutant of Receive: an empty wake-up gives a handle back too.
ReceiveReleasing ==
  /\ At("recv") /\ io_rx # <<>>
  /\ io_rx' = Tail(io_rx)
  /\ IF Head(io_rx) = Watcher THEN phase' = "drain" /\ UNCHANGED running ELSE Run(Head(io_rx))
  /\ open_handles' = open_handles - 1
  /\ UNCHANGED <<queues, macrotasks, threads, watching, submitted>>

\* Mutant of Receive: the task is taken off the channel and not run.
ReceiveDropping ==
  /\ At("recv") /\ io_rx # <<>>
  /\ io_rx' = Tail(io_rx)
  /\ phase' = "drain"
  /\ open_handles' = IF Head(io_rx) = Watcher THEN open_handles ELSE decr_handle(open_handles)
  /\ UNCHANGED <<running, queues, macrotasks, threads, watching, submitted>>

Receive ==
  /\ At("recv") /\ io_rx # <<>>
  /\ io_rx' = Tail(io_rx)
  /\ IF Head(io_rx) = Watcher
     THEN phase' = "drain" /\ UNCHANGED <<running, open_handles>>
     ELSE Run(Head(io_rx)) /\ open_handles' = decr_handle(open_handles)
  /\ UNCHANGED <<queues, macrotasks, threads, watching, submitted>>

\* Mutant of ReceiveTimeout: only an interval bounds the wait.
ReceiveTimeoutOfIntervals ==
  /\ At("recv") /\ io_rx = <<>> /\ \E i \in LiveAt : Due(i) /\ macrotasks[i].interval
  /\ phase' = "drain"
  /\ UNCHANGED <<running, queues, macrotasks, io, submitted>>

ReceiveTimeout ==
  /\ At("recv") /\ io_rx = <<>> /\ \E i \in LiveAt : Due(i)
  /\ phase' = "drain"
  /\ UNCHANGED <<running, queues, macrotasks, io, submitted>>

Loop ==
  \/ RunTick \/ RunMicrotask \/ Drained
  \/ TakeRejections \/ ReportRejection \/ Reported
  \/ Exit \/ RunCompletion \/ FireVirtual \/ FireDue \/ Block
  \/ Receive \/ ReceiveTimeout

----------------------------------------------------------------------------
(* The background threads and the wall clock. *)

Over == phase \in {"exited", "dead"}
Ended == IF phase = "exited" THEN "left" ELSE IF phase = "dead" THEN "died" ELSE "no"

Post(c) ==
  /\ ~Over /\ c \in threads
  /\ threads' = threads \ {c}
  /\ io_rx' = Append(io_rx, c)
  /\ UNCHANGED <<phase, running, queues, macrotasks, watching, open_handles, submitted>>

Tick ==
  /\ ~Over /\ LiveAt # {}
  /\ \A i \in LiveAt : macrotasks[i].deadline > -MaxLate
  /\ macrotasks' = [i \in DOMAIN macrotasks |->
                     IF i \in LiveAt THEN [macrotasks[i] EXCEPT !.deadline = @ - 1]
                     ELSE macrotasks[i]]
  /\ UNCHANGED <<phase, running, queues, io, submitted>>

Next == JS \/ Loop \/ (\E c \in Callback : Post(c)) \/ Tick

Spec == Init /\ [][Next]_vars

(* The loop is never paused, callbacks end, operations finish, time passes. *)
Fairness ==
  /\ WF_vars(Loop)
  /\ WF_vars(Return)
  /\ \A c \in Callback : WF_vars(Post(c))
  /\ WF_vars(Tick)

FairSpec == Spec /\ Fairness

----------------------------------------------------------------------------
(* Correctness. *)

\* The programs for which no listener runs between the drain and the turn.
CheckpointSilent == MaxRejections = 0 \/ ~(CatchUncaught \/ CatchRejections)

TypeOK ==
  /\ phase \in {"drain", "report", "turn", "recv", "exited", "dead"}
  /\ running \in Activation \cup {Nobody}
  /\ nextticks \in Seq(Callback) /\ microtasks \in Seq(Callback)
  /\ io_completions \in Seq(Callback)
  /\ draining_micro \in BOOLEAN
  /\ rejections \in Nat /\ reporting \in Nat
  /\ macrotasks \in Seq(Timer)
  /\ threads \subseteq Callback
  /\ io_rx \in Seq(Callback \cup {Watcher})
  /\ watching \in BOOLEAN
  /\ open_handles \in Nat
  /\ submitted \subseteq Callback \cup {Watcher}

\* What holds a handle: an operation, from its call until its IoTask has been
\* received, and a watched file.
Holders == threads \cup (Members(io_rx) \ {Watcher}) \cup (IF watching THEN {Watcher} ELSE {})

\* open_handles is a count kept by hand at every call site; it never leaks a
\* handle (the process would hang) nor gives one back twice (it would leave
\* while an operation is out).
HandlesCounted == open_handles = Cardinality(Holders)

\* "Unreachable while `alive` holds (a ref'd timer must exist)": when the loop
\* takes the virtual clock, there is a timer for it to fire.
VirtualClockHasTimer == ClockTurn /\ virtual_clock => LiveAt # {}

\* The loop never blocks on a channel that nobody will ever write to, with no
\* deadline to end the wait.
BlockedLoopIsWoken ==
  At("recv") => io_rx # <<>> \/ threads # {} \/ watching \/ LiveAt # {}

\* The microtask checkpoint runs between any two macrotasks: a completion, a
\* timer or an IoTask starts only when no tick and no microtask is waiting.  It
\* holds while no listener runs at the checkpoint, after the drain.
CheckpointBetweenMacrotasks ==
  [][ (/\ running = Nobody /\ running' \in Callback
       /\ running' \notin Members(nextticks) \cup Members(microtasks))
      => nextticks = <<>> /\ microtasks = <<>> ]_vars

\* The loop implements the scheduler its programs see.
Pending ==
  Members(nextticks) \cup Members(microtasks) \cup Members(io_completions)
    \cup LiveIds \cup Holders
Holding ==
  Members(nextticks) \cup Members(microtasks) \cup Members(io_completions)
    \cup HeldIds \cup Holders

Sched == INSTANCE Scheduler
  WITH Job <- Callback \cup {Watcher}, Root <- {Main, Handler}, Nobody <- Nobody,
       pending <- Pending, holding <- Holding, running <- running, ended <- Ended

\* One activation at a time; only a pending job starts, and a withdrawn one
\* never does; unless it is cut short, the process leaves only when nothing
\* referenced is pending.  It holds while no listener runs at the checkpoint,
\* where a job it queues may be left behind.
ImplementsScheduler == Sched!SchedulerSpec

\* A listener of the checkpoint that rejects each time keeps the loop there.
FewRejections == <>[][~Reject]_vars

\* A due timer goes before the channel at each turn, so an interval whose callback
\* outlasts its period keeps the loop from the channel, referenced or not.
FewIntervals == <>[](\A i \in LiveAt : ~macrotasks[i].interval)

\* A finished operation is reported, unless the program is cut short, never stops
\* rejecting or leaves an interval running.
OperationsReport ==
  FewRejections /\ FewIntervals =>
    \A c \in Callback : c \in threads ~> (running = c \/ Over)

\* An expired referenced timer fires, intervals beside it or not, unless the program
\* is cut short, clears the timer, refreshes it for ever or never stops rejecting.
HeldTimersFire ==
  FewRejections =>
    \A c \in Callback :
      \/ []<><<RefreshTimer(c)>>_vars
      \/ c \in HeldIds ~> (running = c \/ c \notin HeldIds \/ Over)

\* The process leaves once only finite work is left: no watcher, no interval, no
\* rejection.
QuietProgramsLeave == FewRejections /\ FewIntervals /\ <>[]~watching => <>Over
=============================================================================
