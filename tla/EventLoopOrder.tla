-------------------------- MODULE EventLoopOrder --------------------------
(***************************************************************************)
(* The order in which the event loop runs what the program scheduled,      *)
(* stated with history variables over EventLoop: they record what the      *)
(* program did and saw, and nothing in the loop reads them.                *)
(*                                                                         *)
(* One of them is the virtual clock as the comments of host.rs document    *)
(* it, "the vdeadline of the latest timer fired", beside the one the loop  *)
(* keeps: due is "the host's virtual_now when scheduled plus delay", less  *)
(* that virtual_now.                                                       *)
(***************************************************************************)
EXTENDS EventLoop

VARIABLES
  inRound,    \* the activation belongs to a microtask round
  ahead,      \* ahead[c]: queued jobs that go before the job c
  waits,      \* waits[c]: pending timers that go before c's
  refreshed,  \* timers restarted by refresh() since they were set
  cleared,    \* timers the program has cleared
  due,        \* due[c]: the documented deadline of c's timer
  switched    \* a timer has fired on the real clock

history == <<inRound, ahead, waits, refreshed, cleared, due, switched>>
hvars == <<vars, history>>

Ticks == Members(nextticks)
Micros == Members(microtasks)
Jobs == Ticks \cup Micros
Started == IF running' # running THEN {running'} \cap Callback ELSE {}
DelayOf(c) == macrotasks[CHOOSE i \in LiveAt : macrotasks[i].id = c].delay

\* Node's processTicksAndRejections: outside a microtask round every tick goes
\* before every microtask, inside one every microtask goes before every tick,
\* whatever queues them; each queue is first in, first out.
GoesBefore(new, old) ==
  IF inRound THEN new \in Micros' /\ old \in Ticks
             ELSE new \in Ticks' /\ old \in Micros

NextAhead ==
  LET new == Jobs' \ Jobs
  IN [c \in Callback |->
       IF c \in new THEN {j \in Jobs : ~GoesBefore(c, j)}
       ELSE (ahead[c] \cup {j \in new : c \in Jobs /\ GoesBefore(j, c)}) \ Started]

\* A timer goes behind the pending ones with at most its delay when it is set,
\* when it repeats, and when it is refreshed, "as if the timer had just been
\* scheduled".
Refreshed == {c \in Callback : RefreshTimer(c)}
Armed == (LiveIds' \ LiveIds) \cup (Started \cap LiveIds') \cup Refreshed

NextWaits ==
  [c \in Callback |->
    IF c \in Armed THEN {x \in LiveIds' \ {c} : DelayOf(x)' <= DelayOf(c)'}
    ELSE (waits[c] \cap LiveIds') \ Armed]

Fired == Started \cap LiveIds
Passed == IF \E c \in Fired : due[c] > 0 THEN due[CHOOSE c \in Fired : TRUE] ELSE 0

NextDue ==
  [c \in Callback |->
    IF c \in Armed THEN DelayOf(c)' ELSE IF c \in LiveIds' THEN due[c] - Passed ELSE 0]

HInit ==
  /\ Init
  /\ inRound = FALSE
  /\ ahead = [c \in Callback |-> {}] /\ waits = [c \in Callback |-> {}]
  /\ refreshed = {} /\ cleared = {}
  /\ due = [c \in Callback |-> 0] /\ switched = FALSE

HNext ==
  /\ Next
  /\ inRound' = IF running = Nobody /\ running' # Nobody THEN running' \in Micros ELSE inRound
  /\ ahead' = NextAhead
  /\ waits' = NextWaits
  /\ refreshed' = (refreshed \cup Refreshed) \ Started
  /\ cleared' = cleared \cup {c \in Callback : ClearTimer(c)}
  /\ due' = NextDue
  /\ switched' = (switched \/ (Fired # {} /\ ~virtual_clock))

HSpec == HInit /\ [][HNext]_hvars

----------------------------------------------------------------------------
\* Ticks and microtasks run in node's rounds: a tick queued from inside a
\* microtask waits for that queue to empty, jobs queued on the way included; a
\* tick queued elsewhere goes before every microtask.
RoundOrder == [][\A c \in Started : ahead[c] \cap Jobs = {}]_hvars

\* A timer set later with at least as long a delay never fires first, whichever
\* clock each of the two turns was on.
NoOvertaking ==
  [][\A c \in Started \cap LiveIds : c \notin refreshed => waits[c] \cap LiveIds = {}]_hvars

\* Once clearTimeout, clearInterval, clearImmediate or close() returned, the
\* callback does not run, not even for an interval cleared by its own callback.
ClearedTimersStayClear == [][Started \cap cleared = {}]_hvars

\* "The virtual clock fires timers in this order, so a 5 ms timer scheduled at
\* virtual time 10 runs after a 12 ms one scheduled at 0."  Until a timer fires on
\* the real clock: pop_due_timer does not move virtual_now.
VirtualClockOrder ==
  [][virtual_clock /\ ~switched => \A c \in Fired, x \in LiveIds : due[c] <= due[x]]_hvars
=============================================================================
