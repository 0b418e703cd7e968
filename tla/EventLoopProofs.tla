-------------------------- MODULE EventLoopProofs --------------------------
(***************************************************************************)
(* The event loop implements the scheduler its programs see, and counts    *)
(* its handles, for every value of the constants.  The inductive invariant *)
(* adds to the type invariant that a callback waits in one place, once.    *)
(*                                                                         *)
(* Then the order of EventLoopOrder, whose history variables need facts of *)
(* their own: a timer another one waits for stays ahead of it with both    *)
(* its deadlines no later, the entry of a cleared one stays in the table,  *)
(* and in each queue what goes before a job stands ahead of it.            *)
(***************************************************************************)
EXTENDS EventLoopOrder, TLAPS, FiniteSetTheorems

----------------------------------------------------------------------------
(* Sequences. *)

LEMMA MembersOfAppend ==
  ASSUME NEW S, NEW s \in Seq(S), NEW x \in S
  PROVE  /\ Append(s, x) \in Seq(S)
         /\ Members(Append(s, x)) = Members(s) \cup {x}
<1>1. Append(s, x) \in Seq(S) /\ Len(Append(s, x)) = Len(s) + 1
  OBVIOUS
<1>2. \A i \in 1 .. Len(s) : Append(s, x)[i] = s[i]
  OBVIOUS
<1>3. Append(s, x)[Len(s) + 1] = x
  OBVIOUS
<1>4. DOMAIN Append(s, x) = 1 .. Len(s) + 1 /\ DOMAIN s = 1 .. Len(s) /\ Len(s) \in Nat
  BY <1>1
<1>5. Members(Append(s, x)) \subseteq Members(s) \cup {x}
  BY <1>2, <1>3, <1>4 DEF Members
<1>6. Members(s) \cup {x} \subseteq Members(Append(s, x))
  BY <1>2, <1>3, <1>4 DEF Members
<1> QED BY <1>1, <1>5, <1>6

LEMMA MembersOfTail ==
  ASSUME NEW S, NEW s \in Seq(S), s # <<>>
  PROVE  /\ Head(s) \in S /\ Tail(s) \in Seq(S)
         /\ Head(s) \in Members(s)
         /\ Members(s) = Members(Tail(s)) \cup {Head(s)}
<1>1. Len(s) \in Nat \ {0} /\ DOMAIN s = 1 .. Len(s)
  OBVIOUS
<1>2. Tail(s) \in Seq(S) /\ Len(Tail(s)) = Len(s) - 1
  BY <1>1
<1>3. \A i \in 1 .. Len(s) - 1 : Tail(s)[i] = s[i + 1]
  BY <1>1
<1>4. DOMAIN Tail(s) = 1 .. Len(s) - 1
  BY <1>2
<1>5. Head(s) = s[1] /\ Head(s) \in S
  BY <1>1
<1>6. Members(s) \subseteq Members(Tail(s)) \cup {Head(s)}
  <2> SUFFICES ASSUME NEW i \in 1 .. Len(s), i # 1 PROVE s[i] \in Members(Tail(s))
    BY <1>1, <1>5 DEF Members
  <2>1. i - 1 \in 1 .. Len(s) - 1 /\ s[i] = Tail(s)[i - 1]
    BY <1>1, <1>3
  <2> QED BY <2>1, <1>4 DEF Members
<1>7. Members(Tail(s)) \cup {Head(s)} \subseteq Members(s)
  BY <1>1, <1>3, <1>4, <1>5 DEF Members
<1> QED BY <1>2, <1>5, <1>6, <1>7

LEMMA MembersOfEmpty == Members(<<>>) = {}
  BY DEF Members

LEMMA RemoveType ==
  ASSUME NEW S, NEW s \in Seq(S), NEW i \in DOMAIN s
  PROVE  /\ Remove(s, i) \in Seq(S)
         /\ DOMAIN Remove(s, i) = 1 .. Len(s) - 1
         /\ \A j \in 1 .. Len(s) - 1 : Remove(s, i)[j] = IF j < i THEN s[j] ELSE s[j + 1]
<1>1. Len(s) \in Nat \ {0} /\ DOMAIN s = 1 .. Len(s)
  OBVIOUS
<1>2. \A j \in 1 .. Len(s) - 1 : s[j] \in S /\ s[j + 1] \in S
  BY <1>1
<1>3. Remove(s, i) \in [1 .. Len(s) - 1 -> S]
  BY <1>2 DEF Remove
<1>4. Len(s) - 1 \in Nat
  BY <1>1
<1>5. Remove(s, i) \in Seq(S)
  BY <1>3, <1>4
<1> QED BY <1>3, <1>5 DEF Remove

----------------------------------------------------------------------------
(* Type correctness. *)

LEMMA TimerFields ==
  ASSUME NEW t \in Timer
  PROVE  /\ t.id \in Callback /\ t.deadline \in Int /\ t.vdeadline \in Int /\ t.delay \in Int
         /\ \A r \in BOOLEAN : [t EXCEPT !.cancelled = r] \in Timer
         /\ \A r \in BOOLEAN : [t EXCEPT !.refed = r] \in Timer
         /\ \A n \in Int : [t EXCEPT !.deadline = n] \in Timer
         /\ \A n \in Int : [t EXCEPT !.vdeadline = n] \in Timer
         /\ restarted(t) \in Timer
<1>1. t.id \in Callback /\ t.deadline \in Int /\ t.vdeadline \in Int
  BY DEF Timer
<1>2. t.delay \in Delay \cup {-1}
  BY DEF Timer
<1>3. t.delay \in Int
  <2>1. \A n \in Delay \cup {-1} : n \in Int
    BY DelayAssumption
  <2> QED BY <1>2, <2>1
<1>4. \A r \in BOOLEAN : [t EXCEPT !.cancelled = r] \in Timer /\ [t EXCEPT !.refed = r] \in Timer
  BY DEF Timer
<1>5. \A n \in Int : [t EXCEPT !.deadline = n] \in Timer /\ [t EXCEPT !.vdeadline = n] \in Timer
  BY DEF Timer
<1>6. \A m, n \in Int : [t EXCEPT !.deadline = m, !.vdeadline = n] \in Timer
  BY DEF Timer
<1>7. restarted(t) \in Timer
  <2>1. (IF t.delay < 0 THEN 0 ELSE t.delay) \in Int
    BY <1>3
  <2> QED BY <1>3, <1>6, <2>1 DEF restarted
<1> QED BY <1>1, <1>3, <1>4, <1>5, <1>7

LEMMA MapTimers ==
  ASSUME NEW ts \in Seq(Timer), NEW g \in [DOMAIN ts -> Timer]
  PROVE  g \in Seq(Timer) /\ DOMAIN g = DOMAIN ts
<1>1. Len(ts) \in Nat /\ DOMAIN ts = 1 .. Len(ts)
  OBVIOUS
<1>2. g \in [1 .. Len(ts) -> Timer]
  BY <1>1
<1> QED BY <1>1, <1>2

LEMMA NewTimerType ==
  ASSUME NEW c \in Callback, NEW n \in Delay \cup {-1}, NEW r \in BOOLEAN
  PROVE  NewTimer(c, n, r) \in Timer
<1>1. n \in Int
  BY DelayAssumption
<1> QED BY <1>1 DEF NewTimer, Timer

\* fire_timer removes an entry, and may shift the rest and append a restarted one.
LEMMA FiredTimers ==
  ASSUME macrotasks \in Seq(Timer), NEW i \in DOMAIN macrotasks
  PROVE  /\ Remove(macrotasks, i) \in Seq(Timer)
         /\ Advance(Remove(macrotasks, i), macrotasks[i]) \in Seq(Timer)
         /\ \A rest \in Seq(Timer) : fire_timer(macrotasks[i], rest) \in Seq(Timer)
<1>1. macrotasks[i] \in Timer
  OBVIOUS
<1>2. Remove(macrotasks, i) \in Seq(Timer)
  BY RemoveType
<1> DEFINE rm == Remove(macrotasks, i)
           ad == Advance(rm, macrotasks[i])
<1>3. ASSUME NEW j \in DOMAIN rm PROVE ad[j] \in Timer
  <2>1. rm[j] \in Timer
    BY <1>2
  <2>2. rm[j].vdeadline \in Int /\ macrotasks[i].vdeadline \in Int
    BY <1>1, <2>1, TimerFields
  <2>3. rm[j].vdeadline - macrotasks[i].vdeadline \in Int
    BY <2>2
  <2>4. [rm[j] EXCEPT !.vdeadline = rm[j].vdeadline - macrotasks[i].vdeadline] \in Timer
    BY <2>1, <2>3, TimerFields
  <2> QED BY <2>1, <2>4 DEF Advance
<1>4. ad \in [DOMAIN rm -> Timer]
  BY <1>3 DEF Advance
<1>5. ad \in Seq(Timer)
  BY <1>2, <1>4, MapTimers
<1>6. ASSUME NEW rest \in Seq(Timer) PROVE fire_timer(macrotasks[i], rest) \in Seq(Timer)
  <2>1. restarted(macrotasks[i]) \in Timer
    BY <1>1, TimerFields
  <2> QED BY <2>1 DEF fire_timer
<1> QED BY <1>2, <1>5, <1>6

LEMMA TypeInit == Init => TypeOK
<1> SUFFICES ASSUME Init PROVE TypeOK
  OBVIOUS
<1>1. /\ nextticks \in Seq(Callback) /\ microtasks \in Seq(Callback)
      /\ io_completions \in Seq(Callback) /\ macrotasks \in Seq(Timer)
      /\ io_rx \in Seq(Callback \cup {Watcher})
  BY DEF Init
<1> QED BY <1>1 DEF Init, TypeOK, Activation

LEMMA ScheduleType ==
  ASSUME TypeOK, NEW c \in Callback, NEW w, Schedule(c, w)
  PROVE  submitted' \subseteq Callback \cup {Watcher}
  BY DEF TypeOK, Schedule

LEMMA TypeNext == TypeOK /\ [Next]_vars => TypeOK'
<1> SUFFICES ASSUME TypeOK, [Next]_vars PROVE TypeOK'
  OBVIOUS
<1> USE CallbackAssumption, FlagAssumption
<1>1. ASSUME NEW c \in Callback, NextTick(c) \/ QueueMicrotask(c) \/ QueueIoCallback(c) PROVE TypeOK'
  <2>1. submitted' \subseteq Callback \cup {Watcher}
    BY <1>1, ScheduleType DEF NextTick, QueueMicrotask, QueueIoCallback
  <2>2. CASE NextTick(c)
    BY <2>1, <2>2 DEF TypeOK, NextTick, io, rejected
  <2>3. CASE QueueMicrotask(c)
    BY <2>1, <2>3 DEF TypeOK, QueueMicrotask, io, rejected
  <2>4. CASE QueueIoCallback(c)
    BY <2>1, <2>4 DEF TypeOK, QueueIoCallback, io, rejected
  <2> QED BY <1>1, <2>2, <2>3, <2>4
<1>2. ASSUME NEW c \in Callback, NEW n \in Delay \cup {-1}, NEW r \in BOOLEAN,
             submitted' \subseteq Callback \cup {Watcher}, AddTimer(c, n, r)
      PROVE TypeOK'
  BY <1>2, NewTimerType DEF TypeOK, AddTimer, io, queues, rejected
<1>3. ASSUME NEW c \in Callback, SetImmediate(c) PROVE TypeOK'
  BY <1>2, <1>3 DEF SetImmediate, Schedule, TypeOK
<1>4. ASSUME NEW c \in Callback, NEW n \in Delay, SetTimeout(c, n) \/ SetInterval(c, n) PROVE TypeOK'
  BY <1>2, <1>4 DEF SetTimeout, SetInterval, Schedule, TypeOK
<1>5. ASSUME NEW c \in Callback, StartOperation(c) PROVE TypeOK'
  BY <1>5 DEF TypeOK, StartOperation, Schedule, queues, rejected
<1>6. ASSUME NEW ts \in Seq(Timer), macrotasks' = ts,
             UNCHANGED <<phase, running, queues, io, submitted>>
      PROVE TypeOK'
  BY <1>6 DEF TypeOK, io, queues, rejected
<1>7. ASSUME NEW c \in Callback, ClearTimer(c) PROVE TypeOK'
  <2>1. ASSUME NEW i \in DOMAIN macrotasks PROVE cancel_timer(c)[i] \in Timer
    <3>1. macrotasks[i] \in Timer
      BY DEF TypeOK
    <3>2. (macrotasks[i].cancelled \/ macrotasks[i].id = c) \in BOOLEAN
      OBVIOUS
    <3> QED BY <3>1, <3>2, TimerFields DEF cancel_timer
  <2>2. cancel_timer(c) \in [DOMAIN macrotasks -> Timer]
    BY <2>1 DEF cancel_timer
  <2>3. cancel_timer(c) \in Seq(Timer)
    BY <2>2, MapTimers DEF TypeOK
  <2> QED BY <1>6, <1>7, <2>3 DEF ClearTimer
<1>8. ASSUME NEW c \in Callback, NEW r \in BOOLEAN, RefTimer(c, r) PROVE TypeOK'
  <2>1. ASSUME NEW i \in DOMAIN macrotasks PROVE set_timer_refed(c, r)[i] \in Timer
    <3>1. macrotasks[i] \in Timer
      BY DEF TypeOK
    <3> QED BY <3>1, TimerFields DEF set_timer_refed
  <2>2. set_timer_refed(c, r) \in [DOMAIN macrotasks -> Timer]
    BY <2>1 DEF set_timer_refed
  <2>3. set_timer_refed(c, r) \in Seq(Timer)
    BY <2>2, MapTimers DEF TypeOK
  <2> QED BY <1>6, <1>8, <2>3 DEF RefTimer
<1>9. ASSUME NEW c \in Callback, RefreshTimer(c) PROVE TypeOK'
  <2>1. ASSUME NEW i \in DOMAIN macrotasks PROVE refresh_timer(c)[i] \in Timer
    <3>1. macrotasks[i] \in Timer
      BY DEF TypeOK
    <3> QED BY <3>1, TimerFields DEF refresh_timer
  <2>2. refresh_timer(c) \in [DOMAIN macrotasks -> Timer]
    BY <2>1 DEF refresh_timer
  <2>3. refresh_timer(c) \in Seq(Timer)
    BY <2>2, MapTimers DEF TypeOK
  <2> QED BY <1>6, <1>9, <2>3 DEF RefreshTimer
<1>10. CASE WatchFile \/ UnwatchFile
  <2>1. open_handles + 1 \in Nat /\ decr_handle(open_handles) \in Nat
    BY DEF TypeOK, decr_handle
  <2>2. Append(io_rx, Watcher) \in Seq(Callback \cup {Watcher})
    BY DEF TypeOK
  <2>3. CASE WatchFile
    BY <2>1, <2>3 DEF TypeOK, WatchFile, queues, rejected
  <2>4. CASE UnwatchFile
    BY <2>1, <2>2, <2>4 DEF TypeOK, UnwatchFile, queues, rejected
  <2> QED BY <1>10, <2>3, <2>4
<1>11. CASE Return \/ Throw \/ ProcessExit
  BY <1>11 DEF TypeOK, Return, Throw, ProcessExit, Activation, queues, rejected, io
<1>12. CASE RunTick \/ RunMicrotask \/ Drained \/ RunCompletion
  <2>1. ASSUME NEW q \in Seq(Callback), q # <<>>
        PROVE  Head(q) \in Activation \cup {Nobody} /\ Tail(q) \in Seq(Callback)
    BY <2>1, MembersOfTail DEF Activation
  <2>2. CASE RunTick
    BY <2>1, <2>2 DEF TypeOK, RunTick, Run, io, rejected
  <2>3. CASE RunMicrotask
    BY <2>1, <2>3 DEF TypeOK, RunMicrotask, Run, io, rejected
  <2>4. CASE Drained
    BY <2>4 DEF TypeOK, Drained, io, rejected
  <2>5. CASE RunCompletion
    BY <2>1, <2>5 DEF TypeOK, RunCompletion, Run, io, rejected
  <2> QED BY <1>12, <2>2, <2>3, <2>4, <2>5
<1>13. CASE Exit \/ Block \/ ReceiveTimeout
  BY <1>13 DEF TypeOK, Exit, Block, ReceiveTimeout, queues, rejected, io
<1>14. CASE FireVirtual \/ FireDue
  <2>1. PICK i \in LiveAt :
          /\ \/ macrotasks' = fire_timer(macrotasks[i], Advance(Remove(macrotasks, i), macrotasks[i]))
             \/ macrotasks' = fire_timer(macrotasks[i], Remove(macrotasks, i))
          /\ Run(macrotasks[i].id)
    BY <1>14 DEF FireVirtual, FireDue
  <2>2. i \in DOMAIN macrotasks /\ macrotasks[i] \in Timer
    BY <2>1 DEF LiveAt, TypeOK
  <2>3. macrotasks' \in Seq(Timer)
    BY <2>1, <2>2, FiredTimers DEF TypeOK
  <2>4. macrotasks[i].id \in Callback
    BY <2>2, TimerFields
  <2> QED BY <1>14, <2>1, <2>3, <2>4 DEF TypeOK, FireVirtual, FireDue, Run, Activation, queues, rejected, io
<1>15. CASE Receive
  <2>1. Head(io_rx) \in Callback \cup {Watcher} /\ Tail(io_rx) \in Seq(Callback \cup {Watcher})
    BY <1>15, MembersOfTail DEF Receive, TypeOK
  <2> QED BY <1>15, <2>1 DEF TypeOK, Receive, Run, Activation, decr_handle, queues, rejected
<1>16. ASSUME NEW c \in Callback, Post(c) PROVE TypeOK'
  BY <1>16 DEF TypeOK, Post, queues, rejected
<1>17. CASE Tick
  <2>1. ASSUME NEW i \in DOMAIN macrotasks PROVE macrotasks'[i] \in Timer
    <3>1. macrotasks[i] \in Timer
      BY DEF TypeOK
    <3>2. macrotasks[i].deadline \in Int
      BY <3>1, TimerFields
    <3>3. macrotasks[i].deadline - 1 \in Int
      BY <3>2
    <3>4. [macrotasks[i] EXCEPT !.deadline = macrotasks[i].deadline - 1] \in Timer
      BY <3>1, <3>3, TimerFields
    <3> QED BY <1>17, <3>1, <3>4 DEF Tick
  <2>2. macrotasks' \in [DOMAIN macrotasks -> Timer]
    BY <1>17, <2>1 DEF Tick
  <2>3. macrotasks' \in Seq(Timer)
    BY <2>2, MapTimers DEF TypeOK
  <2> QED BY <1>6, <1>17, <2>3 DEF Tick
<1>18. CASE Reject \/ HandleRejection
  BY <1>18 DEF TypeOK, Reject, HandleRejection, io
<1>19. CASE TakeRejections \/ ReportRejection \/ Reported
  BY <1>19 DEF TypeOK, TakeRejections, ReportRejection, Reported, Activation, queues, rejected, io
<1>20. CASE UNCHANGED vars
  BY <1>20 DEF TypeOK, vars, queues, rejected, io
<1> QED
  BY <1>1, <1>3, <1>4, <1>5, <1>7, <1>8, <1>9, <1>10, <1>11, <1>12, <1>13, <1>14,
     <1>15, <1>16, <1>17, <1>18, <1>19, <1>20
     DEF Next, JS, Loop

\* The state stays well formed whatever the program calls and whenever the
\* clock ticks or a thread reports.
THEOREM TypeCorrect == Spec => []TypeOK
  BY TypeInit, TypeNext, PTL DEF Spec

----------------------------------------------------------------------------
(* Where each callback waits. *)

Completions == Members(io_completions)
Posted == Members(io_rx) \ {Watcher}

Distinct(s) == \A i, j \in DOMAIN s : s[i] = s[j] => i = j
DistinctIds == \A i, j \in DOMAIN macrotasks : macrotasks[i].id = macrotasks[j].id => i = j

Disjoint(A, B, C, D, E, F) ==
  /\ A \cap B = {} /\ A \cap C = {} /\ A \cap D = {} /\ A \cap E = {} /\ A \cap F = {}
  /\ B \cap C = {} /\ B \cap D = {} /\ B \cap E = {} /\ B \cap F = {}
  /\ C \cap D = {} /\ C \cap E = {} /\ C \cap F = {}
  /\ D \cap E = {} /\ D \cap F = {} /\ E \cap F = {}

\* Each callback waits in one place, once.
Placed ==
  /\ Distinct(nextticks) /\ Distinct(microtasks) /\ Distinct(io_completions)
  /\ Distinct(io_rx) /\ DistinctIds
  /\ Disjoint(Ticks, Micros, Completions, TimerIds, threads, Posted)
  /\ watching => Watcher \notin Members(io_rx)

\* JavaScript runs at the drain and at the checkpoint after it; while no listener
\* runs there, the loop is past the drain only once both queues are empty.
Quiet ==
  /\ phase \notin {"drain", "report"} => running = Nobody
  /\ MaxRejections = 0 => rejections = 0 /\ reporting = 0
  /\ CheckpointSilent => (phase \in {"report", "turn", "recv"}
                            => running = Nobody /\ nextticks = <<>> /\ microtasks = <<>>)

Counted == IsFiniteSet(Holders) /\ HandlesCounted

IInv == TypeOK /\ Quiet /\ Placed /\ Counted

----------------------------------------------------------------------------
(* Sequences and timer tables without repetition. *)

LEMMA DistinctAppend ==
  ASSUME NEW S, NEW s \in Seq(S), NEW x \in S, Distinct(s), x \notin Members(s)
  PROVE  Distinct(Append(s, x))
<1>1. DOMAIN Append(s, x) = 1 .. Len(s) + 1 /\ DOMAIN s = 1 .. Len(s) /\ Len(s) \in Nat
  OBVIOUS
<1>2. (\A i \in 1 .. Len(s) : Append(s, x)[i] = s[i]) /\ Append(s, x)[Len(s) + 1] = x
  OBVIOUS
<1>3. \A i \in 1 .. Len(s) : s[i] # x
  BY <1>1 DEF Members
<1> QED BY <1>1, <1>2, <1>3 DEF Distinct

LEMMA DistinctTail ==
  ASSUME NEW S, NEW s \in Seq(S), s # <<>>, Distinct(s)
  PROVE  /\ Distinct(Tail(s))
         /\ Head(s) \notin Members(Tail(s))
         /\ Members(Tail(s)) = Members(s) \ {Head(s)}
<1>1. Len(s) \in Nat \ {0} /\ DOMAIN s = 1 .. Len(s) /\ DOMAIN Tail(s) = 1 .. Len(s) - 1
  OBVIOUS
<1>2. (\A i \in 1 .. Len(s) - 1 : Tail(s)[i] = s[i + 1]) /\ Head(s) = s[1]
  BY <1>1
<1>3. Distinct(Tail(s))
  <2> SUFFICES ASSUME NEW i \in 1 .. Len(s) - 1, NEW j \in 1 .. Len(s) - 1, s[i + 1] = s[j + 1]
               PROVE  i = j
    BY <1>1, <1>2 DEF Distinct
  <2>1. i + 1 \in DOMAIN s /\ j + 1 \in DOMAIN s
    BY <1>1
  <2>2. i + 1 = j + 1
    BY <2>1 DEF Distinct
  <2> QED BY <2>2
<1>4. \A i \in 1 .. Len(s) - 1 : s[i + 1] # s[1]
  <2> SUFFICES ASSUME NEW i \in 1 .. Len(s) - 1, s[i + 1] = s[1] PROVE FALSE
    OBVIOUS
  <2>1. i + 1 \in DOMAIN s /\ 1 \in DOMAIN s
    BY <1>1
  <2>2. i + 1 = 1
    BY <2>1 DEF Distinct
  <2> QED BY <2>2
<1>5. Head(s) \notin Members(Tail(s))
  BY <1>1, <1>2, <1>4 DEF Members
<1> QED BY <1>3, <1>5, MembersOfTail

----------------------------------------------------------------------------
(* A callback put where nothing waits, and one taken out, keep the places apart. *)

LEMMA DisjointGrow ==
  ASSUME NEW A, NEW B, NEW C, NEW D, NEW E, NEW F, NEW c,
         Disjoint(A, B, C, D, E, F), c \notin A \cup B \cup C \cup D \cup E \cup F
  PROVE  /\ Disjoint(A \cup {c}, B, C, D, E, F) /\ Disjoint(A, B \cup {c}, C, D, E, F)
         /\ Disjoint(A, B, C \cup {c}, D, E, F) /\ Disjoint(A, B, C, D \cup {c}, E, F)
         /\ Disjoint(A, B, C, D, E \cup {c}, F)
  BY DEF Disjoint

LEMMA DisjointShrink ==
  ASSUME NEW A, NEW B, NEW C, NEW D, NEW E, NEW F,
         Disjoint(A, B, C, D, E, F),
         NEW A1 \in SUBSET A, NEW B1 \in SUBSET B, NEW C1 \in SUBSET C,
         NEW D1 \in SUBSET D, NEW E1 \in SUBSET E, NEW F1 \in SUBSET F
  PROVE  Disjoint(A1, B1, C1, D1, E1, F1)
  BY DEF Disjoint

LEMMA DisjointMove ==
  ASSUME NEW A, NEW B, NEW C, NEW D, NEW E, NEW F, NEW c \in E, Disjoint(A, B, C, D, E, F)
  PROVE  Disjoint(A, B, C, D, E \ {c}, F \cup {c})
  BY DEF Disjoint

----------------------------------------------------------------------------
(* Timer tables. *)

Ids(ts) == {ts[i].id : i \in DOMAIN ts}
Lives(ts) == {ts[i].id : i \in {j \in DOMAIN ts : ~ts[j].cancelled}}
Helds(ts) == {ts[i].id : i \in {j \in DOMAIN ts : ~ts[j].cancelled /\ ts[j].refed}}
Unique(ts) == \A i, j \in DOMAIN ts : ts[i].id = ts[j].id => i = j

LEMMA Entries ==
  ASSUME IInv
  PROVE  /\ \A i \in DOMAIN macrotasks :
              /\ macrotasks[i] \in Timer /\ macrotasks[i].id \in Callback
              /\ macrotasks[i].deadline \in Int /\ macrotasks[i].vdeadline \in Int
         /\ LiveAt \subseteq DOMAIN macrotasks
<1>1. macrotasks \in Seq(Timer)
  BY DEF IInv, TypeOK
<1>2. \A i \in DOMAIN macrotasks : macrotasks[i] \in Timer
  BY <1>1
<1>3. LiveAt \subseteq DOMAIN macrotasks
  BY DEF LiveAt
<1> QED BY <1>2, <1>3, TimerFields

LEMMA TableNames ==
  /\ TimerIds = Ids(macrotasks) /\ LiveIds = Lives(macrotasks)
  /\ HeldIds = Helds(macrotasks) /\ DistinctIds = Unique(macrotasks)
  BY DEF TimerIds, LiveIds, HeldIds, DistinctIds, Ids, Lives, Helds, Unique, LiveAt, Live

LEMMA TableNamesPrime ==
  /\ TimerIds' = Ids(macrotasks') /\ LiveIds' = Lives(macrotasks')
  /\ HeldIds' = Helds(macrotasks') /\ DistinctIds' = Unique(macrotasks')
  BY DEF TimerIds, LiveIds, HeldIds, DistinctIds, Ids, Lives, Helds, Unique, LiveAt, Live

LEMMA HeldsInLives == ASSUME NEW ts PROVE Helds(ts) \subseteq Lives(ts) /\ Lives(ts) \subseteq Ids(ts)
  BY DEF Helds, Lives, Ids

LEMMA TablePush ==
  ASSUME NEW ts \in Seq(Timer), NEW t \in Timer, ~t.cancelled
  PROVE  /\ Ids(Append(ts, t)) = Ids(ts) \cup {t.id}
         /\ Lives(Append(ts, t)) = Lives(ts) \cup {t.id}
         /\ Helds(Append(ts, t)) = IF t.refed THEN Helds(ts) \cup {t.id} ELSE Helds(ts)
         /\ Unique(ts) /\ t.id \notin Ids(ts) => Unique(Append(ts, t))
<1> DEFINE us == Append(ts, t)
<1>1. DOMAIN us = DOMAIN ts \cup {Len(ts) + 1} /\ Len(ts) + 1 \notin DOMAIN ts
  OBVIOUS
<1>2. (\A i \in DOMAIN ts : us[i] = ts[i]) /\ us[Len(ts) + 1] = t
  OBVIOUS
<1> HIDE DEF us
<1>3. Ids(us) = Ids(ts) \cup {t.id}
  BY <1>1, <1>2 DEF Ids
<1>4. Lives(us) = Lives(ts) \cup {t.id}
  BY <1>1, <1>2 DEF Lives
<1>5. Helds(us) = IF t.refed THEN Helds(ts) \cup {t.id} ELSE Helds(ts)
  BY <1>1, <1>2 DEF Helds
<1>6. Unique(ts) /\ t.id \notin Ids(ts) => Unique(us)
  BY <1>1, <1>2 DEF Unique, Ids
<1> QED BY <1>3, <1>4, <1>5, <1>6 DEF us

\* Entries rewritten in place, keeping their id.
LEMMA TableMap ==
  ASSUME NEW ts, NEW us, DOMAIN us = DOMAIN ts, \A i \in DOMAIN ts : us[i].id = ts[i].id
  PROVE  /\ Ids(us) = Ids(ts)
         /\ Unique(ts) => Unique(us)
         /\ (\A i \in DOMAIN ts : us[i].cancelled = ts[i].cancelled /\ us[i].refed = ts[i].refed)
            => Lives(us) = Lives(ts) /\ Helds(us) = Helds(ts)
<1>1. Ids(us) = Ids(ts)
  BY DEF Ids
<1>2. Unique(ts) => Unique(us)
  BY DEF Unique
<1>3. ASSUME \A i \in DOMAIN ts : us[i].cancelled = ts[i].cancelled /\ us[i].refed = ts[i].refed
      PROVE  Lives(us) = Lives(ts) /\ Helds(us) = Helds(ts)
  BY <1>3 DEF Lives, Helds
<1> QED BY <1>1, <1>2, <1>3

LEMMA TableRemove ==
  ASSUME NEW ts \in Seq(Timer), NEW i \in DOMAIN ts, Unique(ts), ~ts[i].cancelled
  PROVE  /\ Ids(Remove(ts, i)) = Ids(ts) \ {ts[i].id}
         /\ Lives(Remove(ts, i)) = Lives(ts) \ {ts[i].id}
         /\ Helds(Remove(ts, i)) = Helds(ts) \ {ts[i].id}
         /\ Unique(Remove(ts, i))
<1> DEFINE us == Remove(ts, i)
           old(j) == IF j < i THEN j ELSE j + 1
<1>1. Len(ts) \in Nat \ {0} /\ DOMAIN ts = 1 .. Len(ts) /\ i \in 1 .. Len(ts)
  OBVIOUS
<1>2. DOMAIN us = 1 .. Len(ts) - 1
  BY RemoveType
<1>3. \A j \in DOMAIN us : us[j] = ts[old(j)]
  BY <1>2, RemoveType
<1>4. \A j \in DOMAIN us : old(j) \in DOMAIN ts \ {i}
  BY <1>1, <1>2
<1>5. \A k \in DOMAIN ts \ {i} : \E j \in DOMAIN us : old(j) = k
  <2> SUFFICES ASSUME NEW k \in DOMAIN ts \ {i} PROVE \E j \in DOMAIN us : old(j) = k
    OBVIOUS
  <2>1. CASE k < i
    <3>1. k \in DOMAIN us /\ old(k) = k
      BY <1>1, <1>2, <2>1
    <3> QED BY <3>1
  <2>2. CASE ~(k < i)
    <3>1. k - 1 \in DOMAIN us /\ old(k - 1) = k
      BY <1>1, <1>2, <2>2
    <3> QED BY <3>1
  <2> QED BY <2>1, <2>2
<1>6. \A j, k \in DOMAIN us : old(j) = old(k) => j = k
  BY <1>1, <1>2
<1>7. \A k \in DOMAIN ts \ {i} : ts[k].id # ts[i].id
  BY DEF Unique
<1> HIDE DEF us, old
<1>8. Ids(us) = Ids(ts) \ {ts[i].id}
  BY <1>3, <1>4, <1>5, <1>7 DEF Ids
<1>9. Lives(us) = Lives(ts) \ {ts[i].id}
  BY <1>3, <1>4, <1>5, <1>7 DEF Lives
<1>10. Helds(us) = Helds(ts) \ {ts[i].id}
  BY <1>3, <1>4, <1>5, <1>7 DEF Helds
<1>11. Unique(us)
  BY <1>3, <1>4, <1>6 DEF Unique
<1> QED BY <1>8, <1>9, <1>10, <1>11 DEF us

----------------------------------------------------------------------------
(* What the calls of a program do to the invariant and to the scheduler. *)

LEMMA Free ==
  ASSUME IInv, NEW c \in Callback, NEW w, Schedule(c, w)
  PROVE  /\ running # Nobody /\ phase \in {"drain", "report"}
         /\ c \notin Ticks /\ c \notin Micros /\ c \notin Completions /\ c \notin TimerIds
         /\ c \notin threads /\ c \notin Members(io_rx) /\ c \notin Posted
         /\ c \notin Holders /\ c \notin Pending /\ c \notin Holding
         /\ c # Watcher /\ c \in Callback \cup {Watcher}
<1>1. c # Watcher
  BY CallbackAssumption
<1>2. running # Nobody /\ phase \in {"drain", "report"}
  BY DEF IInv, Quiet, Schedule, InJS
<1>3. /\ c \notin Ticks /\ c \notin Micros /\ c \notin Completions /\ c \notin TimerIds
      /\ c \notin threads /\ c \notin Members(io_rx)
  BY <1>1 DEF Schedule, Waiting, Ticks, Micros, Completions
<1>4. c \notin Holders /\ c \notin Posted
  BY <1>1, <1>3 DEF Holders, Posted
<1>5. c \notin LiveIds /\ c \notin HeldIds
  BY <1>3, HeldsInLives, TableNames
<1> QED BY <1>1, <1>2, <1>3, <1>4, <1>5 DEF Pending, Holding, Ticks, Micros, Completions

LEMMA SubmitJob ==
  ASSUME IInv, TypeOK', NEW c \in Callback, NextTick(c) \/ QueueMicrotask(c) \/ QueueIoCallback(c)
  PROVE  IInv' /\ Sched!Submit(c)
<1>1. \E w : Schedule(c, w)
  BY DEF NextTick, QueueMicrotask, QueueIoCallback
<1>2. /\ running # Nobody /\ phase \in {"drain", "report"}
      /\ c \notin Ticks /\ c \notin Micros /\ c \notin Completions /\ c \notin TimerIds
      /\ c \notin threads /\ c \notin Posted /\ c \notin Pending /\ c \notin Holding
  BY <1>1, Free
<1>3. /\ phase' = phase /\ running' = running /\ macrotasks' = macrotasks
      /\ io_rx' = io_rx /\ threads' = threads /\ watching' = watching
      /\ open_handles' = open_handles
      /\ rejections' = rejections /\ reporting' = reporting
  BY DEF NextTick, QueueMicrotask, QueueIoCallback, io, rejected
<1>4. /\ TimerIds' = TimerIds /\ LiveIds' = LiveIds /\ HeldIds' = HeldIds
      /\ DistinctIds' = DistinctIds /\ Posted' = Posted /\ Holders' = Holders
  BY <1>3 DEF TimerIds, LiveIds, HeldIds, DistinctIds, LiveAt, Posted, Holders
<1> DEFINE Joined ==
      \/ Ticks' = Ticks \cup {c} /\ Micros' = Micros /\ Completions' = Completions
      \/ Ticks' = Ticks /\ Micros' = Micros \cup {c} /\ Completions' = Completions
      \/ Ticks' = Ticks /\ Micros' = Micros /\ Completions' = Completions \cup {c}
<1> DEFINE Apart == Disjoint(Ticks', Micros', Completions', TimerIds', threads', Posted')
<1>5. Joined /\ Apart
  <2>1. Disjoint(Ticks, Micros, Completions, TimerIds, threads, Posted)
    BY DEF IInv, Placed
  <2>2. ASSUME NEW q \in Seq(Callback) PROVE Members(Append(q, c)) = Members(q) \cup {c}
    BY MembersOfAppend
  <2>3. CASE NextTick(c)
    <3>1. Ticks' = Ticks \cup {c} /\ Micros' = Micros /\ Completions' = Completions
      BY <2>2, <2>3 DEF IInv, TypeOK, NextTick, Ticks, Micros, Completions
    <3> QED BY <1>2, <1>3, <1>4, <2>1, <3>1, DisjointGrow
  <2>4. CASE QueueMicrotask(c)
    <3>1. Ticks' = Ticks /\ Micros' = Micros \cup {c} /\ Completions' = Completions
      BY <2>2, <2>4 DEF IInv, TypeOK, QueueMicrotask, Ticks, Micros, Completions
    <3> QED BY <1>2, <1>3, <1>4, <2>1, <3>1, DisjointGrow
  <2>5. CASE QueueIoCallback(c)
    <3>1. Ticks' = Ticks /\ Micros' = Micros /\ Completions' = Completions \cup {c}
      BY <2>2, <2>5 DEF IInv, TypeOK, QueueIoCallback, Ticks, Micros, Completions
    <3> QED BY <1>2, <1>3, <1>4, <2>1, <3>1, DisjointGrow
  <2> QED BY <2>3, <2>4, <2>5
<1>7. Distinct(nextticks') /\ Distinct(microtasks') /\ Distinct(io_completions')
  <2>1. /\ nextticks \in Seq(Callback) /\ microtasks \in Seq(Callback)
        /\ io_completions \in Seq(Callback)
        /\ Distinct(nextticks) /\ Distinct(microtasks) /\ Distinct(io_completions)
    BY DEF IInv, TypeOK, Placed
  <2>2. ASSUME NEW q \in Seq(Callback), Distinct(q), c \notin Members(q)
        PROVE  Distinct(Append(q, c))
    BY <2>2, DistinctAppend
  <2>3. CASE NextTick(c)
    BY <1>2, <2>1, <2>2, <2>3 DEF NextTick, Ticks
  <2>4. CASE QueueMicrotask(c)
    BY <1>2, <2>1, <2>2, <2>4 DEF QueueMicrotask, Micros
  <2>5. CASE QueueIoCallback(c)
    BY <1>2, <2>1, <2>2, <2>5 DEF QueueIoCallback, Completions
  <2> QED BY <2>3, <2>4, <2>5
<1>8. Placed'
  BY <1>3, <1>4, <1>5, <1>7 DEF IInv, Placed, Distinct
<1>9. Quiet' /\ Counted'
  BY <1>2, <1>3, <1>4 DEF IInv, Quiet, Counted, HandlesCounted
<1>10. Pending' = Pending \cup {c} /\ Holding' = Holding \cup {c}
  BY <1>4, <1>5 DEF Pending, Holding, Ticks, Micros, Completions
<1>11. Ended' = Ended
  BY <1>3 DEF Ended
<1> QED BY <1>2, <1>3, <1>8, <1>9, <1>10, <1>11 DEF IInv, Sched!Submit

LEMMA SubmitTimer ==
  ASSUME IInv, TypeOK', NEW c \in Callback, NEW n \in Delay \cup {-1}, NEW r \in BOOLEAN,
         NEW w, Schedule(c, w), AddTimer(c, n, r)
  PROVE  IInv' /\ Sched!Submit(c)
<1>1. /\ running # Nobody /\ phase \in {"drain", "report"}
      /\ c \notin Ticks /\ c \notin Micros /\ c \notin Completions /\ c \notin TimerIds
      /\ c \notin threads /\ c \notin Posted /\ c \notin Pending /\ c \notin Holding
  BY Free
<1>2. /\ phase' = phase /\ running' = running /\ nextticks' = nextticks
      /\ microtasks' = microtasks /\ io_completions' = io_completions
      /\ io_rx' = io_rx /\ threads' = threads /\ watching' = watching
      /\ open_handles' = open_handles
      /\ rejections' = rejections /\ reporting' = reporting
  BY DEF AddTimer, queues, io, rejected
<1>3. Ticks' = Ticks /\ Micros' = Micros /\ Completions' = Completions
  BY <1>2 DEF Ticks, Micros, Completions
<1>4. Posted' = Posted /\ Holders' = Holders
  BY <1>2 DEF Posted, Holders
<1>5. LET t == NewTimer(c, n, r) IN t \in Timer /\ t.id = c /\ ~t.cancelled /\ t.refed
  BY NewTimerType DEF NewTimer
<1>6. /\ TimerIds' = TimerIds \cup {c} /\ LiveIds' = LiveIds \cup {c}
      /\ HeldIds' = HeldIds \cup {c} /\ DistinctIds'
  BY <1>1, <1>5, TablePush, TableNames, TableNamesPrime DEF AddTimer, IInv, TypeOK, Placed
<1>7. Disjoint(Ticks', Micros', Completions', TimerIds', threads', Posted')
  BY <1>1, <1>2, <1>3, <1>4, <1>6, DisjointGrow DEF IInv, Placed
<1>8. Placed'
  BY <1>2, <1>6, <1>7 DEF IInv, Placed, Distinct
<1>9. Quiet' /\ Counted'
  BY <1>1, <1>2, <1>4 DEF IInv, Quiet, Counted, HandlesCounted
<1>10. Pending' = Pending \cup {c} /\ Holding' = Holding \cup {c}
  BY <1>3, <1>4, <1>6 DEF Pending, Holding, Ticks, Micros, Completions
<1>11. Ended' = Ended
  BY <1>2 DEF Ended
<1> QED BY <1>1, <1>2, <1>8, <1>9, <1>10, <1>11 DEF IInv, Sched!Submit

LEMMA SubmitOperation ==
  ASSUME IInv, TypeOK', NEW c \in Callback, StartOperation(c)
  PROVE  IInv' /\ Sched!Submit(c)
<1>1. Schedule(c, "operation")
  BY DEF StartOperation
<1>2. /\ running # Nobody /\ phase \in {"drain", "report"}
      /\ c \notin Ticks /\ c \notin Micros /\ c \notin Completions /\ c \notin TimerIds
      /\ c \notin threads /\ c \notin Posted /\ c \notin Holders
      /\ c \notin Pending /\ c \notin Holding
  BY <1>1, Free
<1>3. /\ phase' = phase /\ running' = running /\ nextticks' = nextticks
      /\ microtasks' = microtasks /\ io_completions' = io_completions
      /\ macrotasks' = macrotasks /\ io_rx' = io_rx /\ watching' = watching
      /\ threads' = threads \cup {c} /\ open_handles' = open_handles + 1
      /\ rejections' = rejections /\ reporting' = reporting
  BY DEF StartOperation, queues, rejected
<1>4. /\ Ticks' = Ticks /\ Micros' = Micros /\ Completions' = Completions
      /\ TimerIds' = TimerIds /\ LiveIds' = LiveIds /\ HeldIds' = HeldIds
      /\ DistinctIds' = DistinctIds /\ Posted' = Posted
  BY <1>3 DEF Ticks, Micros, Completions, TimerIds, LiveIds, HeldIds, DistinctIds, LiveAt, Posted
<1>5. Holders' = Holders \cup {c}
  BY <1>3 DEF Holders
<1>6. Disjoint(Ticks', Micros', Completions', TimerIds', threads', Posted')
  BY <1>2, <1>3, <1>4, DisjointGrow DEF IInv, Placed
<1>7. Placed'
  BY <1>3, <1>4, <1>6 DEF IInv, Placed, Distinct
<1>8. Quiet'
  BY <1>2, <1>3 DEF IInv, Quiet
<1>9. Counted'
  BY <1>2, <1>3, <1>5, FS_AddElement DEF IInv, Counted, HandlesCounted
<1>10. Pending' = Pending \cup {c} /\ Holding' = Holding \cup {c}
  BY <1>4, <1>5 DEF Pending, Holding, Ticks, Micros, Completions
<1>11. Ended' = Ended
  BY <1>3 DEF Ended
<1> QED BY <1>2, <1>3, <1>7, <1>8, <1>9, <1>10, <1>11 DEF IInv, Sched!Submit

\* A step that changes nothing but the timer table, and keeps its ids.
LEMMA TableStep ==
  ASSUME IInv, TypeOK', DOMAIN macrotasks' = DOMAIN macrotasks,
         \A i \in DOMAIN macrotasks : macrotasks'[i].id = macrotasks[i].id,
         UNCHANGED <<phase, running, queues, io, submitted>>
  PROVE  /\ IInv' /\ TimerIds' = TimerIds
         /\ Ticks' = Ticks /\ Micros' = Micros /\ Completions' = Completions
         /\ Holders' = Holders /\ Ended' = Ended /\ running' = running
<1>1. /\ phase' = phase /\ running' = running /\ nextticks' = nextticks
      /\ microtasks' = microtasks /\ io_completions' = io_completions
      /\ io_rx' = io_rx /\ threads' = threads /\ watching' = watching
      /\ open_handles' = open_handles
      /\ rejections' = rejections /\ reporting' = reporting
  BY DEF queues, io, rejected
<1>2. TimerIds' = TimerIds /\ DistinctIds'
  BY TableMap, TableNames, TableNamesPrime DEF IInv, Placed
<1>3. Ticks' = Ticks /\ Micros' = Micros /\ Completions' = Completions /\ Posted' = Posted
  BY <1>1 DEF Ticks, Micros, Completions, Posted
<1>4. Holders' = Holders /\ Ended' = Ended
  BY <1>1 DEF Holders, Ended
<1>5. Placed'
  BY <1>1, <1>2, <1>3 DEF IInv, Placed, Distinct
<1>6. Quiet' /\ Counted'
  BY <1>1, <1>4 DEF IInv, Quiet, Counted, HandlesCounted
<1> QED BY <1>1, <1>2, <1>3, <1>4, <1>5, <1>6 DEF IInv

LEMMA TimerElsewhere ==
  ASSUME IInv, NEW c \in TimerIds
  PROVE  c \notin Ticks /\ c \notin Micros /\ c \notin Completions /\ c \notin Holders
<1>1. \A i \in DOMAIN macrotasks : macrotasks[i] \in Timer
  BY DEF IInv, TypeOK
<1>2. c \in Callback
  BY <1>1, TimerFields DEF TimerIds
<1>3. c # Watcher
  BY <1>2, CallbackAssumption
<1>4. /\ c \notin Ticks /\ c \notin Micros /\ c \notin Completions
      /\ c \notin threads /\ c \notin Posted
  BY DEF IInv, Placed, Disjoint
<1> QED BY <1>3, <1>4 DEF Holders, Posted

LEMMA WithdrawTimer ==
  ASSUME IInv, TypeOK', NEW c \in Callback, ClearTimer(c)
  PROVE  IInv' /\ Sched!Withdraw(c)
<1>1. /\ running # Nobody /\ c \in LiveIds /\ macrotasks' = cancel_timer(c)
      /\ UNCHANGED <<phase, running, queues, io, submitted>>
  BY DEF ClearTimer, InJS
<1>2. DOMAIN macrotasks' = DOMAIN macrotasks
  BY <1>1 DEF cancel_timer
<1>3. ASSUME NEW i \in DOMAIN macrotasks
      PROVE  /\ macrotasks'[i].id = macrotasks[i].id
             /\ macrotasks'[i].refed = macrotasks[i].refed
             /\ macrotasks'[i].cancelled <=> (macrotasks[i].cancelled \/ macrotasks[i].id = c)
  <2>1. macrotasks[i] \in Timer
    BY DEF IInv, TypeOK
  <2>2. macrotasks'[i] = [macrotasks[i] EXCEPT !.cancelled = macrotasks[i].cancelled \/ macrotasks[i].id = c]
    BY <1>1 DEF cancel_timer
  <2> QED BY <2>1, <2>2 DEF Timer
<1>4. /\ IInv' /\ TimerIds' = TimerIds
      /\ Ticks' = Ticks /\ Micros' = Micros /\ Completions' = Completions
      /\ Holders' = Holders /\ Ended' = Ended /\ running' = running
  BY <1>1, <1>2, <1>3, TableStep
<1>5. LiveIds' = LiveIds \ {c} /\ HeldIds' = HeldIds \ {c}
  BY <1>2, <1>3 DEF LiveIds, HeldIds, LiveAt, Live
<1>6. c \notin Ticks /\ c \notin Micros /\ c \notin Completions /\ c \notin Holders
  BY <1>1, TimerElsewhere, HeldsInLives, TableNames
<1>7. Pending' = Pending \ {c} /\ Holding' = Holding \ {c} /\ c \in Pending
  BY <1>1, <1>4, <1>5, <1>6 DEF Pending, Holding, Ticks, Micros, Completions
<1> QED BY <1>1, <1>4, <1>7 DEF Sched!Withdraw

LEMMA RefStep ==
  ASSUME IInv, TypeOK', NEW c \in Callback, NEW r \in BOOLEAN, RefTimer(c, r)
  PROVE  IInv' /\ (Sched!Ref(c) \/ Sched!Unref(c))
<1>1. /\ running # Nobody /\ c \in LiveIds /\ macrotasks' = set_timer_refed(c, r)
      /\ UNCHANGED <<phase, running, queues, io, submitted>>
  BY DEF RefTimer, InJS
<1>2. DOMAIN macrotasks' = DOMAIN macrotasks
  BY <1>1 DEF set_timer_refed
<1>3. ASSUME NEW i \in DOMAIN macrotasks
      PROVE  /\ macrotasks'[i].id = macrotasks[i].id
             /\ macrotasks'[i].cancelled = macrotasks[i].cancelled
             /\ macrotasks'[i].refed = IF ~macrotasks[i].cancelled /\ macrotasks[i].id = c
                                       THEN r ELSE macrotasks[i].refed
  <2>1. macrotasks[i] \in Timer
    BY DEF IInv, TypeOK
  <2>2. macrotasks'[i] = IF ~macrotasks[i].cancelled /\ macrotasks[i].id = c
                         THEN [macrotasks[i] EXCEPT !.refed = r] ELSE macrotasks[i]
    BY <1>1 DEF set_timer_refed, LiveAt, Live
  <2> QED BY <2>1, <2>2 DEF Timer
<1>4. /\ IInv' /\ TimerIds' = TimerIds
      /\ Ticks' = Ticks /\ Micros' = Micros /\ Completions' = Completions
      /\ Holders' = Holders /\ Ended' = Ended /\ running' = running
  BY <1>1, <1>2, <1>3, TableStep
<1>5. LiveIds' = LiveIds
  BY <1>2, <1>3 DEF LiveIds, LiveAt, Live
<1>6. HeldIds' = IF r THEN HeldIds \cup {c} ELSE HeldIds \ {c}
  <2>1. CASE r
    <3>1. HeldIds' \subseteq HeldIds \cup {c} /\ HeldIds \subseteq HeldIds'
      BY <1>2, <1>3, <2>1 DEF HeldIds, LiveAt, Live
    <3>2. PICK i \in DOMAIN macrotasks : ~macrotasks[i].cancelled /\ macrotasks[i].id = c
      BY <1>1 DEF LiveIds, LiveAt, Live
    <3>3. macrotasks'[i].id = c /\ ~macrotasks'[i].cancelled /\ macrotasks'[i].refed
      BY <1>3, <2>1, <3>2
    <3>4. c \in HeldIds'
      BY <1>2, <3>2, <3>3 DEF HeldIds, LiveAt, Live
    <3> QED BY <2>1, <3>1, <3>4
  <2>2. CASE ~r
    BY <1>2, <1>3, <2>2 DEF HeldIds, LiveAt, Live
  <2> QED BY <2>1, <2>2
<1>7. c \notin Ticks /\ c \notin Micros /\ c \notin Completions /\ c \notin Holders
  BY <1>1, TimerElsewhere, HeldsInLives, TableNames
<1>8. /\ Pending' = Pending /\ c \in Pending
      /\ Holding' = IF r THEN Holding \cup {c} ELSE Holding \ {c}
  BY <1>1, <1>4, <1>5, <1>6, <1>7 DEF Pending, Holding, Ticks, Micros, Completions
<1> QED BY <1>1, <1>4, <1>8 DEF Sched!Ref, Sched!Unref

\* refresh() and the passing of time are invisible to the scheduler.
LEMMA InvisibleTableStep ==
  ASSUME IInv, TypeOK', (\E c \in Callback : RefreshTimer(c)) \/ Tick
  PROVE  IInv' /\ UNCHANGED Sched!svars
<1>1. UNCHANGED <<phase, running, queues, io, submitted>>
  BY DEF RefreshTimer, Tick
<1>2. DOMAIN macrotasks' = DOMAIN macrotasks
  BY DEF RefreshTimer, Tick, refresh_timer
<1>3. ASSUME NEW i \in DOMAIN macrotasks
      PROVE  /\ macrotasks'[i].id = macrotasks[i].id
             /\ macrotasks'[i].cancelled = macrotasks[i].cancelled
             /\ macrotasks'[i].refed = macrotasks[i].refed
  <2>1. macrotasks[i] \in Timer
    BY DEF IInv, TypeOK
  <2>2. \/ macrotasks'[i] = macrotasks[i]
        \/ macrotasks'[i] = restarted(macrotasks[i])
        \/ macrotasks'[i] = [macrotasks[i] EXCEPT !.deadline = macrotasks[i].deadline - 1]
    BY DEF RefreshTimer, Tick, refresh_timer
  <2> QED BY <2>1, <2>2 DEF Timer, restarted
<1>4. /\ IInv' /\ TimerIds' = TimerIds
      /\ Ticks' = Ticks /\ Micros' = Micros /\ Completions' = Completions
      /\ Holders' = Holders /\ Ended' = Ended /\ running' = running
  BY <1>1, <1>2, <1>3, TableStep
<1>5. LiveIds' = LiveIds /\ HeldIds' = HeldIds
  BY <1>2, <1>3, TableMap, TableNames, TableNamesPrime
<1> QED BY <1>4, <1>5 DEF Sched!svars, Pending, Holding, Ticks, Micros, Completions

\* A watched file holds a handle; unwatchFile posts a wake-up.
LEMMA WatcherStep ==
  ASSUME IInv, TypeOK', WatchFile \/ UnwatchFile
  PROVE  IInv' /\ (Sched!Submit(Watcher) \/ Sched!Withdraw(Watcher))
<1>1. /\ running # Nobody /\ phase \in {"drain", "report"}
  BY DEF WatchFile, UnwatchFile, InJS, IInv, Quiet
<1>2. /\ phase' = phase /\ running' = running /\ nextticks' = nextticks
      /\ microtasks' = microtasks /\ io_completions' = io_completions
      /\ macrotasks' = macrotasks /\ threads' = threads
      /\ rejections' = rejections /\ reporting' = reporting
  BY DEF WatchFile, UnwatchFile, queues, rejected
<1>3. /\ Ticks' = Ticks /\ Micros' = Micros /\ Completions' = Completions
      /\ TimerIds' = TimerIds /\ LiveIds' = LiveIds /\ HeldIds' = HeldIds
      /\ DistinctIds' = DistinctIds /\ Ended' = Ended
  BY <1>2 DEF Ticks, Micros, Completions, TimerIds, LiveIds, HeldIds, DistinctIds, LiveAt, Ended
<1>4. Quiet'
  BY <1>1, <1>2 DEF IInv, Quiet
<1>5. /\ Watcher \notin threads /\ Watcher \notin Ticks /\ Watcher \notin Micros
      /\ Watcher \notin Completions /\ Watcher \notin LiveIds /\ Watcher \notin HeldIds
  <2>1. \A i \in DOMAIN macrotasks : macrotasks[i].id \in Callback
    BY Entries
  <2>2. Watcher \notin LiveIds /\ Watcher \notin HeldIds
    BY <2>1, CallbackAssumption DEF LiveIds, HeldIds, LiveAt
  <2>3. /\ Members(nextticks) \subseteq Callback /\ Members(microtasks) \subseteq Callback
        /\ Members(io_completions) \subseteq Callback /\ threads \subseteq Callback
    BY DEF IInv, TypeOK, Members
  <2> QED BY <2>2, <2>3, CallbackAssumption DEF Ticks, Micros, Completions
<1>6. CASE WatchFile
  <2>1. /\ ~watching /\ watching' /\ open_handles' = open_handles + 1
        /\ io_rx' = io_rx /\ Watcher \notin Members(io_rx)
    BY <1>6 DEF WatchFile
  <2>2. Holders' = Holders \cup {Watcher} /\ Watcher \notin Holders /\ Posted' = Posted
    BY <1>2, <1>5, <2>1 DEF Holders, Posted
  <2>3. Counted'
    BY <2>1, <2>2, FS_AddElement DEF IInv, Counted, HandlesCounted
  <2>4. Placed'
    BY <1>2, <1>3, <2>1, <2>2 DEF IInv, Placed, Distinct
  <2>5. /\ Pending' = Pending \cup {Watcher} /\ Holding' = Holding \cup {Watcher}
        /\ Watcher \notin Pending
    BY <1>3, <1>5, <2>2 DEF Pending, Holding, Ticks, Micros, Completions
  <2> QED BY <1>1, <1>2, <1>3, <1>4, <2>3, <2>4, <2>5 DEF IInv, Sched!Submit
<1>7. CASE UnwatchFile
  <2>1. /\ watching /\ ~watching' /\ open_handles' = decr_handle(open_handles)
        /\ io_rx' = Append(io_rx, Watcher) /\ Watcher \notin Members(io_rx)
    BY <1>7 DEF UnwatchFile, IInv, Placed, TypeOK
  <2>2. io_rx \in Seq(Callback \cup {Watcher}) /\ Watcher \in Callback \cup {Watcher}
    BY DEF IInv, TypeOK
  <2>3. Members(io_rx') = Members(io_rx) \cup {Watcher} /\ Distinct(io_rx')
    BY <2>1, <2>2, MembersOfAppend, DistinctAppend DEF IInv, Placed
  <2>4. Holders' = Holders \ {Watcher} /\ Watcher \in Holders /\ Posted' = Posted
    BY <1>2, <1>5, <2>1, <2>3 DEF Holders, Posted
  <2>5. Counted'
    <3>1. IsFiniteSet(Holders') /\ Cardinality(Holders') = Cardinality(Holders) - 1
      BY <2>4, FS_RemoveElement DEF IInv, Counted
    <3>2. Cardinality(Holders) \in Nat
      BY FS_CardinalityType DEF IInv, Counted
    <3>3. Cardinality(Holders) # 0
      BY <2>4, FS_EmptySet DEF IInv, Counted
    <3> QED BY <2>1, <3>1, <3>2, <3>3 DEF IInv, Counted, HandlesCounted, decr_handle
  <2>6. Placed'
    BY <1>2, <1>3, <2>1, <2>3, <2>4 DEF IInv, Placed, Distinct
  <2>7. /\ Pending' = Pending \ {Watcher} /\ Holding' = Holding \ {Watcher}
        /\ Watcher \in Pending
    BY <1>3, <1>5, <2>4 DEF Pending, Holding, Ticks, Micros, Completions
  <2> QED BY <1>1, <1>2, <1>3, <1>4, <2>5, <2>6, <2>7 DEF IInv, Sched!Withdraw
<1> QED BY <1>6, <1>7

LEMMA LeaveStep ==
  ASSUME IInv, TypeOK', Return \/ Throw \/ ProcessExit
  PROVE  IInv' /\ (Sched!End \/ Sched!Recover \/ Sched!Die)
<1>1. running # Nobody /\ phase \in {"drain", "report"} /\ Ended = "no"
  BY DEF Return, Throw, ProcessExit, InJS, IInv, Quiet, Ended
<1>2. /\ nextticks' = nextticks /\ microtasks' = microtasks /\ io_completions' = io_completions
      /\ macrotasks' = macrotasks /\ threads' = threads /\ io_rx' = io_rx
      /\ watching' = watching /\ open_handles' = open_handles
      /\ rejections' = rejections /\ reporting' \in {reporting, 0}
  BY DEF Return, Throw, ProcessExit, queues, io, rejected
<1>3. \/ running' = Nobody /\ phase' = phase
      \/ running' = Nobody /\ phase' = "dead"
      \/ running' = Handler /\ phase' = "drain"
  BY DEF Return, Throw, ProcessExit
<1>4. /\ Ticks' = Ticks /\ Micros' = Micros /\ Completions' = Completions
      /\ TimerIds' = TimerIds /\ LiveIds' = LiveIds /\ HeldIds' = HeldIds
      /\ DistinctIds' = DistinctIds /\ Posted' = Posted /\ Holders' = Holders
  BY <1>2 DEF Ticks, Micros, Completions, TimerIds, LiveIds, HeldIds, DistinctIds, LiveAt,
              Posted, Holders
<1>5. Placed' /\ Quiet' /\ Counted'
  BY <1>1, <1>2, <1>3, <1>4 DEF IInv, Placed, Distinct, Quiet, Counted, HandlesCounted
<1>6. Pending' = Pending /\ Holding' = Holding
  BY <1>4 DEF Pending, Holding, Ticks, Micros, Completions
<1>7. Ended' = IF phase' = "dead" THEN "died" ELSE "no"
  BY <1>1, <1>3 DEF Ended
<1> QED BY <1>1, <1>3, <1>5, <1>6, <1>7 DEF IInv, Sched!End, Sched!Recover, Sched!Die

\* Promises are rejected and handled out of the scheduler's sight.  The
\* checkpoint calls a listener for each, or ends the process.
LEMMA RejectionStep ==
  ASSUME IInv, TypeOK',
         Reject \/ HandleRejection \/ TakeRejections \/ ReportRejection \/ Reported
  PROVE  IInv' /\ (UNCHANGED Sched!svars \/ Sched!Recover \/ Sched!Die)
<1>1. /\ nextticks' = nextticks /\ microtasks' = microtasks /\ io_completions' = io_completions
      /\ macrotasks' = macrotasks /\ threads' = threads /\ io_rx' = io_rx
      /\ watching' = watching /\ open_handles' = open_handles
  BY DEF Reject, HandleRejection, TakeRejections, ReportRejection, Reported, queues, io, rejected
<1>2. /\ Ticks' = Ticks /\ Micros' = Micros /\ Completions' = Completions
      /\ TimerIds' = TimerIds /\ LiveIds' = LiveIds /\ HeldIds' = HeldIds
      /\ DistinctIds' = DistinctIds /\ Posted' = Posted /\ Holders' = Holders
  BY <1>1 DEF Ticks, Micros, Completions, TimerIds, LiveIds, HeldIds, DistinctIds, LiveAt,
              Posted, Holders
<1>3. Placed' /\ Counted'
  BY <1>1, <1>2 DEF IInv, Placed, Distinct, Counted, HandlesCounted
<1>4. Pending' = Pending /\ Holding' = Holding
  BY <1>2 DEF Pending, Holding, Ticks, Micros, Completions
<1>5. rejections \in Nat /\ reporting \in Nat /\ MaxRejections \in Nat
  BY FlagAssumption DEF IInv, TypeOK
<1>6. CASE Reject \/ HandleRejection
  <2>1. running # Nobody /\ running' = running /\ phase' = phase
    BY <1>6 DEF Reject, HandleRejection, InJS
  <2>2. MaxRejections = 0 => rejections' = 0 /\ reporting' = 0
    BY <1>5, <1>6 DEF Reject, HandleRejection, IInv, Quiet
  <2>3. Quiet'
    BY <1>1, <2>1, <2>2 DEF IInv, Quiet
  <2>4. Ended' = Ended
    BY <2>1 DEF Ended
  <2> QED BY <1>3, <1>4, <2>1, <2>3, <2>4 DEF IInv, Sched!svars
<1>7. CASE TakeRejections \/ Reported
  <2>1. /\ running' = running /\ phase = "report" /\ phase' \in {"report", "turn"}
        /\ running = Nobody
    BY <1>7 DEF TakeRejections, Reported, At
  <2>2. MaxRejections = 0 => rejections' = 0 /\ reporting' = 0
    BY <1>7 DEF TakeRejections, Reported, IInv, Quiet, queues, rejected
  <2>3. Quiet'
    BY <1>1, <2>1, <2>2 DEF IInv, Quiet
  <2>4. Ended' = Ended
    BY <2>1 DEF Ended
  <2> QED BY <1>3, <1>4, <2>1, <2>3, <2>4 DEF IInv, Sched!svars
<1>8. CASE ReportRejection
  <2>1. /\ phase = "report" /\ MaxRejections # 0
        /\ \/ running' = Handler /\ phase' = phase /\ (CatchRejections \/ CatchUncaught)
           \/ running' = Nobody /\ phase' = "dead"
    BY <1>5, <1>8 DEF ReportRejection, At, IInv, Quiet
  <2>2. Quiet'
    BY <1>1, <2>1 DEF Quiet, CheckpointSilent
  <2>3. Ended' = IF phase' = "dead" THEN "died" ELSE "no"
    BY <2>1 DEF Ended
  <2>4. Ended = "no"
    BY <2>1 DEF Ended
  <2> QED BY <1>3, <1>4, <2>1, <2>2, <2>3, <2>4 DEF IInv, Sched!Recover, Sched!Die
<1> QED BY <1>6, <1>7, <1>8

----------------------------------------------------------------------------
(* What the loop's own steps do to them. *)

\* A tick, a microtask or a completion leaves its queue and starts.
LEMMA BeginQueued ==
  ASSUME IInv, TypeOK', RunTick \/ RunMicrotask \/ RunCompletion
  PROVE  IInv' /\ \E c \in Callback : Sched!Begin(c)
<1>1. /\ running = Nobody /\ Ended = "no" /\ phase' = "drain"
      /\ macrotasks' = macrotasks /\ threads' = threads /\ io_rx' = io_rx
      /\ watching' = watching /\ open_handles' = open_handles
      /\ rejections' = rejections /\ reporting' = reporting
  BY DEF RunTick, RunMicrotask, RunCompletion, At, Run, Ended, io, rejected
<1>2. /\ TimerIds' = TimerIds /\ LiveIds' = LiveIds /\ HeldIds' = HeldIds
      /\ DistinctIds' = DistinctIds /\ Posted' = Posted /\ Holders' = Holders
  BY <1>1 DEF TimerIds, LiveIds, HeldIds, DistinctIds, LiveAt, Posted, Holders
<1>3. Quiet' /\ Counted' /\ Ended' = "no"
  BY <1>1, <1>2 DEF Quiet, Counted, IInv, HandlesCounted, Ended
<1>4. Disjoint(Ticks, Micros, Completions, TimerIds, threads, Posted)
  BY DEF IInv, Placed
<1>5. ASSUME NEW q \in Seq(Callback), q # <<>>, Distinct(q)
      PROVE  /\ Head(q) \in Callback /\ Head(q) \in Members(q)
             /\ Distinct(Tail(q)) /\ Members(Tail(q)) = Members(q) \ {Head(q)}
  <2>1. Head(q) \in Callback /\ 1 \in DOMAIN q /\ Head(q) = q[1]
    BY <1>5
  <2> QED BY <1>5, <2>1, DistinctTail DEF Members
<1>6. ASSUME NEW c \in Callback, running' = c,
             c \in Ticks \cup Micros \cup Completions,
             Ticks' = Ticks \ {c}, Micros' = Micros \ {c}, Completions' = Completions \ {c}
      PROVE  Sched!Begin(c)
  <2>1. c \notin TimerIds /\ c \notin threads /\ c \notin Posted /\ c # Watcher
    BY <1>4, <1>6, CallbackAssumption DEF Disjoint
  <2>2. c \notin LiveIds /\ c \notin HeldIds /\ c \notin Holders
    BY <2>1, HeldsInLives, TableNames DEF Holders, Posted
  <2>3. c \in Pending /\ Pending' = Pending \ {c} /\ Holding' = Holding \ {c}
    BY <1>2, <1>6, <2>2 DEF Pending, Holding, Ticks, Micros, Completions
  <2>4. Ended' = Ended
    BY <1>1, <1>3 DEF Ended
  <2> QED BY <1>1, <1>6, <2>3, <2>4 DEF Sched!Begin
<1>7. CASE RunTick
  <2> DEFINE c == Head(nextticks)
  <2>1. /\ nextticks # <<>> /\ running' = c /\ nextticks' = Tail(nextticks)
        /\ microtasks' = microtasks /\ io_completions' = io_completions
    BY <1>7 DEF RunTick, Run
  <2>2. /\ c \in Callback /\ c \in Ticks /\ Distinct(nextticks') /\ Ticks' = Ticks \ {c}
    BY <1>5, <2>1 DEF IInv, TypeOK, Placed, Ticks
  <2>3. Micros' = Micros /\ Completions' = Completions /\ c \notin Micros /\ c \notin Completions
    BY <1>4, <2>1, <2>2 DEF Micros, Completions, Disjoint
  <2>4. Disjoint(Ticks', Micros', Completions', TimerIds', threads', Posted')
    BY <1>1, <1>2, <1>4, <2>2, <2>3, DisjointShrink
  <2>5. Placed'
    BY <1>1, <1>2, <2>1, <2>2, <2>4 DEF IInv, Placed, Distinct
  <2> QED BY <1>3, <1>6, <2>1, <2>2, <2>3, <2>5 DEF IInv
<1>8. CASE RunMicrotask
  <2> DEFINE c == Head(microtasks)
  <2>1. /\ microtasks # <<>> /\ running' = c /\ microtasks' = Tail(microtasks)
        /\ nextticks' = nextticks /\ io_completions' = io_completions
    BY <1>8 DEF RunMicrotask, Run
  <2>2. /\ c \in Callback /\ c \in Micros /\ Distinct(microtasks') /\ Micros' = Micros \ {c}
    BY <1>5, <2>1 DEF IInv, TypeOK, Placed, Micros
  <2>3. Ticks' = Ticks /\ Completions' = Completions /\ c \notin Ticks /\ c \notin Completions
    BY <1>4, <2>1, <2>2 DEF Ticks, Completions, Disjoint
  <2>4. Disjoint(Ticks', Micros', Completions', TimerIds', threads', Posted')
    BY <1>1, <1>2, <1>4, <2>2, <2>3, DisjointShrink
  <2>5. Placed'
    BY <1>1, <1>2, <2>1, <2>2, <2>4 DEF IInv, Placed, Distinct
  <2> QED BY <1>3, <1>6, <2>1, <2>2, <2>3, <2>5 DEF IInv
<1>9. CASE RunCompletion
  <2> DEFINE c == Head(io_completions)
  <2>1. /\ io_completions # <<>> /\ running' = c /\ io_completions' = Tail(io_completions)
        /\ nextticks' = nextticks /\ microtasks' = microtasks
    BY <1>9 DEF RunCompletion, Run
  <2>2. /\ c \in Callback /\ c \in Completions /\ Distinct(io_completions')
        /\ Completions' = Completions \ {c}
    BY <1>5, <2>1 DEF IInv, TypeOK, Placed, Completions
  <2>3. Ticks' = Ticks /\ Micros' = Micros /\ c \notin Ticks /\ c \notin Micros
    BY <1>4, <2>1, <2>2 DEF Ticks, Micros, Disjoint
  <2>4. Disjoint(Ticks', Micros', Completions', TimerIds', threads', Posted')
    BY <1>1, <1>2, <1>4, <2>2, <2>3, DisjointShrink
  <2>5. Placed'
    BY <1>1, <1>2, <2>1, <2>2, <2>4 DEF IInv, Placed, Distinct
  <2> QED BY <1>3, <1>6, <2>1, <2>2, <2>3, <2>5 DEF IInv
<1> QED BY <1>7, <1>8, <1>9

\* Firing removes the entry, and pushes a repeating one again.
LEMMA FiredTable ==
  ASSUME NEW ts \in Seq(Timer), NEW i \in DOMAIN ts, Unique(ts), ~ts[i].cancelled,
         NEW rest \in Seq(Timer), DOMAIN rest = DOMAIN Remove(ts, i),
         \A j \in DOMAIN rest : /\ rest[j].id = Remove(ts, i)[j].id
                                /\ rest[j].cancelled = Remove(ts, i)[j].cancelled
                                /\ rest[j].refed = Remove(ts, i)[j].refed
  PROVE  LET us == fire_timer(ts[i], rest)
             c == ts[i].id
         IN  /\ Unique(us)
             /\ \/ Ids(us) = Ids(ts) \ {c} /\ Lives(us) = Lives(ts) \ {c} /\ Helds(us) = Helds(ts) \ {c}
                \/ Ids(us) = Ids(ts) /\ Lives(us) = Lives(ts) /\ Helds(us) = Helds(ts)
<1> DEFINE c == ts[i].id
<1>1. c \in Ids(ts) /\ c \in Lives(ts) /\ (c \in Helds(ts) <=> ts[i].refed)
  BY DEF Ids, Lives, Helds, Unique
<1>2. /\ Ids(rest) = Ids(ts) \ {c} /\ Lives(rest) = Lives(ts) \ {c}
      /\ Helds(rest) = Helds(ts) \ {c} /\ Unique(rest)
  BY TableRemove, TableMap
<1>3. CASE ~ts[i].interval
  BY <1>2, <1>3 DEF fire_timer
<1>4. CASE ts[i].interval
  <2> DEFINE t == restarted(ts[i])
  <2>1. ts[i] \in Timer
    OBVIOUS
  <2>2. t \in Timer /\ t.id = c /\ ~t.cancelled /\ t.refed = ts[i].refed
    <3>1. /\ t.id = c /\ t.cancelled = ts[i].cancelled /\ t.refed = ts[i].refed
      BY <2>1 DEF restarted, Timer
    <3>2. t \in Timer
      BY <2>1, TimerFields DEF restarted
    <3> QED BY <3>1, <3>2
  <2> HIDE DEF t
  <2> DEFINE us == Append(rest, t)
  <2>3. c \notin Ids(rest)
    BY <1>2
  <2>4. /\ Ids(us) = Ids(rest) \cup {c} /\ Lives(us) = Lives(rest) \cup {c}
        /\ Helds(us) = (IF ts[i].refed THEN Helds(rest) \cup {c} ELSE Helds(rest))
        /\ Unique(us)
    BY <1>2, <2>2, <2>3, TablePush
  <2>5. fire_timer(ts[i], rest) = us
    BY <1>4 DEF fire_timer, t
  <2> HIDE DEF us
  <2>6. Ids(us) = Ids(ts) /\ Lives(us) = Lives(ts)
    BY <1>1, <1>2, <2>4
  <2>7. Helds(us) = Helds(ts)
    BY <1>1, <1>2, <2>4
  <2> QED BY <2>4, <2>5, <2>6, <2>7
<1> QED BY <1>3, <1>4

\* What the ids of the timers are when one fires.
LEMMA FiredIds ==
  ASSUME IInv, FireVirtual \/ FireDue
  PROVE  /\ DistinctIds' /\ running' \in Callback /\ running' \in LiveIds
         /\ \/ /\ TimerIds' = TimerIds \ {running'} /\ LiveIds' = LiveIds \ {running'}
               /\ HeldIds' = HeldIds \ {running'}
            \/ TimerIds' = TimerIds /\ LiveIds' = LiveIds /\ HeldIds' = HeldIds
<1>1. PICK i \in LiveAt :
        /\ running' = macrotasks[i].id
        /\ \/ macrotasks' = fire_timer(macrotasks[i], Advance(Remove(macrotasks, i), macrotasks[i]))
           \/ macrotasks' = fire_timer(macrotasks[i], Remove(macrotasks, i))
  BY DEF FireVirtual, FireDue, Run
<1> DEFINE c == macrotasks[i].id
           rm == Remove(macrotasks, i)
           ad == Advance(rm, macrotasks[i])
<1>2. /\ macrotasks \in Seq(Timer) /\ i \in DOMAIN macrotasks /\ ~macrotasks[i].cancelled
      /\ Unique(macrotasks) /\ macrotasks[i] \in Timer
  BY TableNames DEF IInv, TypeOK, Placed, LiveAt, Live
<1>3. c \in Callback /\ c \in TimerIds /\ c \in LiveIds
  BY <1>1, <1>2, TimerFields DEF TimerIds, LiveIds
<1>4. rm \in Seq(Timer) /\ ad \in Seq(Timer)
  BY <1>2, FiredTimers
<1>5. DOMAIN ad = DOMAIN rm
  BY DEF Advance
<1>6. ASSUME NEW j \in DOMAIN rm
      PROVE  /\ ad[j].id = rm[j].id /\ ad[j].cancelled = rm[j].cancelled
             /\ ad[j].refed = rm[j].refed
  <2>1. rm[j] \in Timer
    BY <1>4
  <2>2. \/ ad[j] = rm[j]
        \/ ad[j] = [rm[j] EXCEPT !.vdeadline = rm[j].vdeadline - macrotasks[i].vdeadline]
    BY DEF Advance
  <2> QED BY <2>1, <2>2 DEF Timer
<1>7. \E rest \in {rm, ad} : macrotasks' = fire_timer(macrotasks[i], rest)
  BY <1>1
<1>8. /\ Unique(macrotasks')
       /\ \/ /\ Ids(macrotasks') = Ids(macrotasks) \ {c}
             /\ Lives(macrotasks') = Lives(macrotasks) \ {c}
             /\ Helds(macrotasks') = Helds(macrotasks) \ {c}
          \/ /\ Ids(macrotasks') = Ids(macrotasks)
             /\ Lives(macrotasks') = Lives(macrotasks)
             /\ Helds(macrotasks') = Helds(macrotasks)
  <2>1. CASE macrotasks' = fire_timer(macrotasks[i], rm)
    BY <1>2, <1>4, <2>1, FiredTable
  <2>2. CASE macrotasks' = fire_timer(macrotasks[i], ad)
    <3>1. /\ ad \in Seq(Timer) /\ DOMAIN ad = DOMAIN Remove(macrotasks, i)
          /\ \A j \in DOMAIN ad : /\ ad[j].id = Remove(macrotasks, i)[j].id
                                  /\ ad[j].cancelled = Remove(macrotasks, i)[j].cancelled
                                  /\ ad[j].refed = Remove(macrotasks, i)[j].refed
      BY <1>4, <1>5, <1>6
    <3> HIDE DEF ad
    <3> QED BY <1>2, <2>2, <3>1, FiredTable
  <2> QED BY <1>7, <2>1, <2>2
<1> HIDE DEF c, rm, ad
<1>9. /\ DistinctIds'
       /\ \/ TimerIds' = TimerIds \ {c} /\ LiveIds' = LiveIds \ {c} /\ HeldIds' = HeldIds \ {c}
          \/ TimerIds' = TimerIds /\ LiveIds' = LiveIds /\ HeldIds' = HeldIds
  BY <1>8, TableNames, TableNamesPrime
<1> QED BY <1>1, <1>3, <1>9 DEF c

\* A timer fires: on the virtual clock the others move closer.
LEMMA BeginTimer ==
  ASSUME IInv, TypeOK', FireVirtual \/ FireDue
  PROVE  IInv' /\ \E c \in Callback : Sched!Begin(c)
<1>1. /\ running = Nobody /\ phase = "turn" /\ phase' = "drain"
      /\ UNCHANGED <<queues, io, submitted>>
  BY DEF FireVirtual, FireDue, ClockTurn, At, Run
<1>2. /\ nextticks' = nextticks /\ microtasks' = microtasks /\ io_completions' = io_completions
      /\ threads' = threads /\ io_rx' = io_rx /\ watching' = watching
      /\ open_handles' = open_handles
      /\ rejections' = rejections /\ reporting' = reporting
  BY <1>1 DEF queues, io, rejected
<1>3. PICK c \in Callback : c = running'
  BY FiredIds
<1>4. c \in LiveIds /\ c \in TimerIds
  BY <1>3, FiredIds, TableNames, HeldsInLives
<1>5. /\ DistinctIds'
       /\ \/ TimerIds' = TimerIds \ {c} /\ LiveIds' = LiveIds \ {c} /\ HeldIds' = HeldIds \ {c}
          \/ TimerIds' = TimerIds /\ LiveIds' = LiveIds /\ HeldIds' = HeldIds
  BY <1>3, FiredIds
<1>6. Ticks' = Ticks /\ Micros' = Micros /\ Completions' = Completions /\ Posted' = Posted
  BY <1>2 DEF Ticks, Micros, Completions, Posted
<1>7. Holders' = Holders
  BY <1>2 DEF Holders
<1>8. Disjoint(Ticks', Micros', Completions', TimerIds', threads', Posted')
  <2>1. TimerIds' \subseteq TimerIds
    BY <1>5
  <2> QED BY <1>2, <1>6, <2>1, DisjointShrink DEF IInv, Placed
<1>9. Placed'
  BY <1>2, <1>5, <1>8 DEF IInv, Placed, Distinct
<1>10. Quiet' /\ Counted'
  BY <1>1, <1>2, <1>7 DEF IInv, Quiet, Counted, HandlesCounted
<1>11. c \notin Ticks /\ c \notin Micros /\ c \notin Completions /\ c \notin Holders
  BY <1>4, TimerElsewhere
<1>12. /\ c \in Pending
       /\ \/ Pending' = Pending \ {c} /\ Holding' = Holding \ {c}
          \/ Pending' = Pending /\ Holding' = Holding
  BY <1>4, <1>5, <1>6, <1>7, <1>11 DEF Pending, Holding, Ticks, Micros, Completions
<1>13. Ended = "no" /\ Ended' = Ended
  BY <1>1 DEF Ended
<1>14. running' = c
  BY <1>3
<1>15. Sched!Begin(c)
  BY <1>1, <1>12, <1>13, <1>14 DEF Sched!Begin
<1> QED BY <1>4, <1>9, <1>10, <1>15 DEF IInv

\* The loop receives an IoTask: an empty wake-up, or an operation that reports.
LEMMA ReceiveStep ==
  ASSUME IInv, TypeOK', Receive
  PROVE  IInv' /\ (UNCHANGED Sched!svars \/ \E c \in Callback : Sched!Begin(c))
<1> DEFINE c == Head(io_rx)
<1>1. /\ running = Nobody /\ phase = "recv" /\ phase' = "drain" /\ io_rx # <<>>
      /\ io_rx' = Tail(io_rx) /\ macrotasks' = macrotasks /\ threads' = threads
      /\ watching' = watching /\ UNCHANGED queues
  BY DEF Receive, At, Run
<1>2. /\ nextticks' = nextticks /\ microtasks' = microtasks /\ io_completions' = io_completions
      /\ rejections' = rejections /\ reporting' = reporting
  BY <1>1 DEF queues, rejected
<1>3. /\ io_rx \in Seq(Callback \cup {Watcher}) /\ Distinct(io_rx)
      /\ Disjoint(Ticks, Micros, Completions, TimerIds, threads, Posted)
      /\ (watching => Watcher \notin Members(io_rx))
  BY DEF IInv, TypeOK, Placed
<1>4. c \in Callback \cup {Watcher} /\ 1 \in DOMAIN io_rx /\ c = io_rx[1]
  BY <1>1, <1>3
<1>5. c \in Members(io_rx)
  BY <1>4 DEF Members
<1>6. Distinct(io_rx') /\ Members(io_rx') = Members(io_rx) \ {c}
  BY <1>1, <1>3, DistinctTail
<1> HIDE DEF c
<1>7. /\ Ticks' = Ticks /\ Micros' = Micros /\ Completions' = Completions
      /\ TimerIds' = TimerIds /\ LiveIds' = LiveIds /\ HeldIds' = HeldIds
      /\ DistinctIds' = DistinctIds
  BY <1>1, <1>2 DEF Ticks, Micros, Completions, TimerIds, LiveIds, HeldIds, DistinctIds, LiveAt
<1>8. Posted' = Posted \ {c}
  BY <1>6 DEF Posted
<1>9. Disjoint(Ticks', Micros', Completions', TimerIds', threads', Posted')
  BY <1>1, <1>3, <1>7, <1>8, DisjointShrink
<1>10. Placed'
  BY <1>1, <1>2, <1>3, <1>6, <1>7, <1>9 DEF IInv, Placed, Distinct
<1>11. Quiet'
  BY <1>1, <1>2 DEF IInv, Quiet
<1>12. Ended = "no" /\ Ended' = "no"
  BY <1>1 DEF Ended
<1>13. CASE c = Watcher
  <2>1. running' = running /\ open_handles' = open_handles
    BY <1>1, <1>13 DEF Receive, c
  <2>2. Holders' = Holders
    BY <1>1, <1>6, <1>13 DEF Holders
  <2>3. Counted'
    BY <2>1, <2>2 DEF IInv, Counted, HandlesCounted
  <2>4. Pending' = Pending /\ Holding' = Holding
    BY <1>7, <2>2 DEF Pending, Holding, Ticks, Micros, Completions
  <2>5. Ended' = Ended
    BY <1>12 DEF Ended
  <2> QED BY <1>10, <1>11, <2>1, <2>3, <2>4, <2>5 DEF IInv, Sched!svars
<1>14. CASE c # Watcher
  <2>1. running' = c /\ open_handles' = decr_handle(open_handles)
    BY <1>1, <1>14 DEF Receive, Run, c
  <2>2. c \in Callback /\ c \in Posted
    BY <1>4, <1>5, <1>14 DEF Posted
  <2>3. /\ c \notin Ticks /\ c \notin Micros /\ c \notin Completions
        /\ c \notin TimerIds /\ c \notin threads
    BY <1>3, <2>2 DEF Disjoint
  <2>4. c \notin LiveIds /\ c \notin HeldIds
    BY <2>3, HeldsInLives, TableNames
  <2>5. Holders' = Holders \ {c} /\ c \in Holders
    BY <1>1, <1>6, <1>14, <2>2, <2>3 DEF Holders, Posted
  <2>6. Counted'
    <3>1. IsFiniteSet(Holders') /\ Cardinality(Holders') = Cardinality(Holders) - 1
      BY <2>5, FS_RemoveElement DEF IInv, Counted
    <3>2. Cardinality(Holders) \in Nat
      BY FS_CardinalityType DEF IInv, Counted
    <3>3. Cardinality(Holders) # 0
      BY <2>5, FS_EmptySet DEF IInv, Counted
    <3> QED BY <2>1, <3>1, <3>2, <3>3 DEF IInv, Counted, HandlesCounted, decr_handle
  <2>7. c \in Pending /\ Pending' = Pending \ {c} /\ Holding' = Holding \ {c}
    BY <1>7, <2>3, <2>4, <2>5 DEF Pending, Holding, Ticks, Micros, Completions
  <2>8. Ended' = Ended
    BY <1>12 DEF Ended
  <2>9. Sched!Begin(c)
    BY <1>1, <1>12, <2>1, <2>7, <2>8 DEF Sched!Begin
  <2> QED BY <1>10, <1>11, <2>2, <2>6, <2>9 DEF IInv
<1> QED BY <1>13, <1>14

\* A background thread posts its IoTask, which keeps the operation's handle.
LEMMA PostStep ==
  ASSUME IInv, TypeOK', NEW c \in Callback, Post(c)
  PROVE  IInv' /\ UNCHANGED Sched!svars
<1>1. /\ c \in threads /\ threads' = threads \ {c} /\ io_rx' = Append(io_rx, c)
      /\ phase' = phase /\ running' = running /\ macrotasks' = macrotasks
      /\ watching' = watching /\ open_handles' = open_handles
      /\ nextticks' = nextticks /\ microtasks' = microtasks /\ io_completions' = io_completions
      /\ rejections' = rejections /\ reporting' = reporting
  BY DEF Post, queues, rejected
<1>2. io_rx \in Seq(Callback \cup {Watcher}) /\ c \in Callback \cup {Watcher} /\ c # Watcher
  BY CallbackAssumption DEF IInv, TypeOK
<1>3. c \notin Members(io_rx)
  BY <1>1, <1>2 DEF IInv, Placed, Disjoint, Posted
<1>4. Members(io_rx') = Members(io_rx) \cup {c} /\ Distinct(io_rx')
  BY <1>1, <1>2, <1>3, MembersOfAppend, DistinctAppend DEF IInv, Placed
<1>5. /\ Ticks' = Ticks /\ Micros' = Micros /\ Completions' = Completions
      /\ TimerIds' = TimerIds /\ LiveIds' = LiveIds /\ HeldIds' = HeldIds
      /\ DistinctIds' = DistinctIds /\ Ended' = Ended
  BY <1>1 DEF Ticks, Micros, Completions, TimerIds, LiveIds, HeldIds, DistinctIds, LiveAt, Ended
<1>6. Posted' = Posted \cup {c} /\ Holders' = Holders
  BY <1>1, <1>2, <1>4 DEF Posted, Holders
<1>7. Disjoint(Ticks', Micros', Completions', TimerIds', threads', Posted')
  BY <1>1, <1>5, <1>6, DisjointMove DEF IInv, Placed
<1>8. Placed'
  BY <1>1, <1>2, <1>4, <1>5, <1>7 DEF IInv, Placed, Distinct
<1>9. Quiet' /\ Counted'
  BY <1>1, <1>6 DEF IInv, Quiet, Counted, HandlesCounted
<1> QED BY <1>1, <1>5, <1>6, <1>8, <1>9
        DEF IInv, Sched!svars, Pending, Holding, Ticks, Micros, Completions

\* The steps that only move the loop along.
LEMMA MoveStep ==
  ASSUME IInv, TypeOK', Drained \/ Block \/ ReceiveTimeout \/ Exit \/ UNCHANGED vars
  PROVE  IInv' /\ (CheckpointSilent => UNCHANGED Sched!svars \/ Sched!Exit)
<1>1. /\ nextticks' = nextticks /\ microtasks' = microtasks /\ io_completions' = io_completions
      /\ macrotasks' = macrotasks /\ threads' = threads /\ io_rx' = io_rx
      /\ watching' = watching /\ open_handles' = open_handles /\ running' = running
      /\ rejections' = rejections /\ reporting' = reporting
  BY DEF Drained, Block, ReceiveTimeout, Exit, vars, queues, io, rejected
<1>2. /\ Ticks' = Ticks /\ Micros' = Micros /\ Completions' = Completions
      /\ TimerIds' = TimerIds /\ LiveIds' = LiveIds /\ HeldIds' = HeldIds
      /\ DistinctIds' = DistinctIds /\ Posted' = Posted /\ Holders' = Holders
  BY <1>1 DEF Ticks, Micros, Completions, TimerIds, LiveIds, HeldIds, DistinctIds, LiveAt,
              Posted, Holders
<1>3. Placed' /\ Counted'
  BY <1>1, <1>2 DEF IInv, Placed, Distinct, Counted, HandlesCounted
<1>4. Quiet'
  BY <1>1 DEF IInv, Quiet, Drained, Block, ReceiveTimeout, Exit, ClockTurn, At, vars
<1>5. Pending' = Pending /\ Holding' = Holding
  BY <1>2 DEF Pending, Holding, Ticks, Micros, Completions
<1>6. CASE ~Exit
  <2>1. Ended' = Ended
    BY <1>6 DEF Drained, Block, ReceiveTimeout, ClockTurn, At, Ended, vars
  <2> QED BY <1>1, <1>3, <1>4, <1>5, <2>1 DEF IInv, Sched!svars
<1>7. ASSUME CheckpointSilent, Exit PROVE Sched!Exit
  <2>1. /\ running = Nobody /\ nextticks = <<>> /\ microtasks = <<>> /\ Ended' = "left"
        /\ \/ ~loop_alive
           \/ io_completions = <<>> /\ virtual_clock /\ LiveAt = {}
    BY <1>7 DEF Exit, At, Ended, IInv, Quiet
  <2>2. io_completions = <<>> /\ open_handles = 0 /\ HeldIds = {}
    <3>1. open_handles \in Nat
      BY DEF IInv, TypeOK
    <3>2. CASE ~loop_alive
      <4>1. io_completions = <<>> /\ ~(open_handles > 0) /\ ~has_refed_macrotasks
        BY <3>2 DEF loop_alive
      <4>2. HeldIds = {}
        BY <4>1 DEF has_refed_macrotasks, HeldIds
      <4> QED BY <3>1, <4>1, <4>2
    <3>3. CASE io_completions = <<>> /\ virtual_clock /\ LiveAt = {}
      BY <3>3 DEF virtual_clock, HeldIds
    <3> QED BY <2>1, <3>2, <3>3
  <2>3. Holders = {}
    BY <2>2, FS_EmptySet DEF IInv, Counted, HandlesCounted
  <2>4. Ticks = {} /\ Micros = {} /\ Completions = {}
    BY <2>1, <2>2, MembersOfEmpty DEF Ticks, Micros, Completions
  <2>5. Holding = {}
    BY <2>2, <2>3, <2>4 DEF Holding, Ticks, Micros, Completions
  <2> QED BY <1>1, <1>5, <2>1, <2>5 DEF Sched!Exit
<1> QED BY <1>3, <1>4, <1>6, <1>7 DEF IInv

----------------------------------------------------------------------------
(* The theorems. *)

LEMMA InitInv == Init => IInv /\ Sched!SchedulerInit
<1> SUFFICES ASSUME Init PROVE IInv /\ Sched!SchedulerInit
  OBVIOUS
<1>1. TypeOK
  BY TypeInit
<1>2. /\ Ticks = {} /\ Micros = {} /\ Completions = {} /\ Members(io_rx) = {} /\ threads = {}
  BY MembersOfEmpty DEF Init, Ticks, Micros, Completions
<1>3. TimerIds = {} /\ LiveIds = {} /\ HeldIds = {} /\ DistinctIds
  BY DEF Init, TimerIds, LiveIds, HeldIds, LiveAt, DistinctIds
<1>4. Posted = {} /\ Holders = {}
  BY <1>2 DEF Posted, Holders, Init
<1>5. Quiet
  BY DEF Init, Quiet
<1>6. Placed
  BY <1>2, <1>3, <1>4 DEF Init, Placed, Distinct, Disjoint
<1>7. Counted
  BY <1>4, FS_EmptySet DEF Init, Counted, HandlesCounted
<1>8. Pending = {} /\ Holding = {}
  BY <1>2, <1>3, <1>4 DEF Pending, Holding, Ticks, Micros, Completions
<1>9. running \in {Main, Handler} /\ Ended = "no"
  BY DEF Init, Ended
<1> QED BY <1>1, <1>5, <1>6, <1>7, <1>8, <1>9 DEF IInv, Sched!SchedulerInit

LEMMA StepInv ==
  ASSUME IInv, [Next]_vars
  PROVE  IInv' /\ (CheckpointSilent => [Sched!SchedulerNext]_(Sched!svars))
<1>1. TypeOK'
  BY TypeNext DEF IInv
<1> DEFINE Job == Callback \cup {Watcher}
<1>2. Callback \subseteq Job /\ Watcher \in Job
  OBVIOUS
<1> HIDE DEF Job
<1>3. ASSUME NEW j \in Job,
             \/ Sched!Submit(j) \/ Sched!Withdraw(j) \/ Sched!Ref(j) \/ Sched!Unref(j)
             \/ Sched!Begin(j)
      PROVE  Sched!SchedulerNext
  BY <1>3 DEF Sched!SchedulerNext, Job
<1>4. ASSUME Sched!End \/ Sched!Recover \/ Sched!Die \/ Sched!Exit
      PROVE  Sched!SchedulerNext
  BY <1>4 DEF Sched!SchedulerNext
<1>5. ASSUME NEW c \in Callback, NextTick(c) \/ QueueMicrotask(c) \/ QueueIoCallback(c)
      PROVE  IInv' /\ Sched!SchedulerNext
  <2>1. IInv' /\ Sched!Submit(c)
    BY <1>1, <1>5, SubmitJob
  <2> QED BY <1>2, <1>3, <2>1
<1>6. ASSUME NEW c \in Callback,
             SetImmediate(c) \/ \E d \in Delay : SetTimeout(c, d) \/ SetInterval(c, d)
      PROVE  IInv' /\ Sched!SchedulerNext
  <2>1. ASSUME NEW w, NEW n \in Delay \cup {-1}, NEW r \in BOOLEAN, Schedule(c, w), AddTimer(c, n, r)
        PROVE  IInv' /\ Sched!Submit(c)
    BY <1>1, <2>1, SubmitTimer
  <2>2. ASSUME SetImmediate(c) PROVE IInv' /\ Sched!Submit(c)
    BY <2>1, <2>2 DEF SetImmediate
  <2>3. ASSUME NEW d \in Delay, SetTimeout(c, d) \/ SetInterval(c, d)
        PROVE  IInv' /\ Sched!Submit(c)
    BY <2>1, <2>3 DEF SetTimeout, SetInterval
  <2>4. IInv' /\ Sched!Submit(c)
    BY <1>6, <2>2, <2>3
  <2> QED BY <1>2, <1>3, <2>4
<1>7. ASSUME NEW c \in Callback, StartOperation(c) PROVE IInv' /\ Sched!SchedulerNext
  <2>1. IInv' /\ Sched!Submit(c)
    BY <1>1, <1>7, SubmitOperation
  <2> QED BY <1>2, <1>3, <2>1
<1>8. ASSUME NEW c \in Callback, ClearTimer(c) PROVE IInv' /\ Sched!SchedulerNext
  <2>1. IInv' /\ Sched!Withdraw(c)
    BY <1>1, <1>8, WithdrawTimer
  <2> QED BY <1>2, <1>3, <2>1
<1>9. ASSUME NEW c \in Callback, NEW r \in BOOLEAN, RefTimer(c, r)
      PROVE  IInv' /\ Sched!SchedulerNext
  <2>1. IInv' /\ (Sched!Ref(c) \/ Sched!Unref(c))
    BY <1>1, <1>9, RefStep
  <2> QED BY <1>2, <1>3, <2>1
<1>10. CASE (\E c \in Callback : RefreshTimer(c)) \/ Tick
  BY <1>1, <1>10, InvisibleTableStep
<1>11. CASE WatchFile \/ UnwatchFile
  <2>1. IInv' /\ (Sched!Submit(Watcher) \/ Sched!Withdraw(Watcher))
    BY <1>1, <1>11, WatcherStep
  <2> QED BY <1>2, <1>3, <2>1
<1>12. CASE Return \/ Throw \/ ProcessExit
  <2>1. IInv' /\ (Sched!End \/ Sched!Recover \/ Sched!Die)
    BY <1>1, <1>12, LeaveStep
  <2> QED BY <1>4, <2>1
<1>13. CASE RunTick \/ RunMicrotask \/ RunCompletion
  <2>1. IInv' /\ \E c \in Callback : Sched!Begin(c)
    BY <1>1, <1>13, BeginQueued
  <2> QED BY <1>2, <1>3, <2>1
<1>14. CASE FireVirtual \/ FireDue
  <2>1. IInv' /\ \E c \in Callback : Sched!Begin(c)
    BY <1>1, <1>14, BeginTimer
  <2> QED BY <1>2, <1>3, <2>1
<1>15. CASE Receive
  <2>1. IInv' /\ (UNCHANGED Sched!svars \/ \E c \in Callback : Sched!Begin(c))
    BY <1>1, <1>15, ReceiveStep
  <2> QED BY <1>2, <1>3, <2>1
<1>16. ASSUME NEW c \in Callback, Post(c) PROVE IInv' /\ UNCHANGED Sched!svars
  BY <1>1, <1>16, PostStep
<1>17. CASE Drained \/ Block \/ ReceiveTimeout \/ Exit \/ UNCHANGED vars
  <2>1. IInv' /\ (CheckpointSilent => UNCHANGED Sched!svars \/ Sched!Exit)
    BY <1>1, <1>17, MoveStep
  <2> QED BY <1>4, <2>1
<1>18. CASE Reject \/ HandleRejection \/ TakeRejections \/ ReportRejection \/ Reported
  <2>1. IInv' /\ (UNCHANGED Sched!svars \/ Sched!Recover \/ Sched!Die)
    BY <1>1, <1>18, RejectionStep
  <2> QED BY <1>4, <2>1
<1> QED
  BY <1>5, <1>6, <1>7, <1>8, <1>9, <1>10, <1>11, <1>12, <1>13, <1>14, <1>15, <1>16, <1>17, <1>18
     DEF Next, JS, Loop

\* No call site leaks a handle or gives one back twice: open_handles is the
\* number of operations that are out plus the watched file, in any run.
THEOREM HandlesCountedCorrect == Spec => []HandlesCounted
<1>1. Init => IInv
  BY InitInv
<1>2. IInv /\ [Next]_vars => IInv'
  BY StepInv
<1>3. IInv => HandlesCounted
  BY DEF IInv, Counted
<1> QED BY <1>1, <1>2, <1>3, PTL DEF Spec

\* When no listener runs at the checkpoint, drive_event_loop takes the virtual
\* clock only with a timer to fire: the `None` arm after pop_next_timer is then
\* unreachable, as its comment says.
THEOREM VirtualClockCorrect == CheckpointSilent => (Spec => []VirtualClockHasTimer)
<1> SUFFICES ASSUME CheckpointSilent PROVE Spec => []VirtualClockHasTimer
  OBVIOUS
<1>1. Init => IInv
  BY InitInv
<1>2. IInv /\ [Next]_vars => IInv'
  BY StepInv
<1>3. IInv => VirtualClockHasTimer
  <2> SUFFICES ASSUME IInv, ClockTurn, virtual_clock PROVE LiveAt # {}
    BY DEF VirtualClockHasTimer
  <2>1. nextticks = <<>> /\ microtasks = <<>> /\ io_completions = <<>> /\ open_handles = 0
    BY DEF IInv, Quiet, ClockTurn, At, virtual_clock
  <2>2. has_refed_macrotasks
    BY <2>1 DEF ClockTurn, loop_alive
  <2> QED BY <2>2 DEF has_refed_macrotasks
<1> QED BY <1>1, <1>2, <1>3, PTL DEF Spec

\* The loop blocks only while it is held, and nothing lets go of it meanwhile.
Held == phase = "recv" => open_handles > 0 \/ LiveAt # {}

LEMMA HeldNext == IInv /\ Held /\ [Next]_vars => Held'
<1> SUFFICES ASSUME IInv, Held, [Next]_vars, phase' = "recv" PROVE (open_handles > 0 \/ LiveAt # {})'
  BY DEF Held
<1>1. phase = "recv" => running = Nobody
  BY DEF IInv, Quiet
<1>2. CASE Block
  <2>1. open_handles \in Nat /\ ~virtual_clock
    BY <1>2 DEF Block, IInv, TypeOK
  <2>2. open_handles > 0 \/ LiveAt # {}
    BY <2>1 DEF virtual_clock, has_pending_interval
  <2>3. open_handles' = open_handles /\ LiveAt' = LiveAt
    BY <1>2 DEF Block, io, LiveAt
  <2> QED BY <2>2, <2>3
<1>3. CASE Tick
  <2>1. phase = "recv" /\ open_handles' = open_handles
    BY <1>3 DEF Tick, io
  <2>2. DOMAIN macrotasks' = DOMAIN macrotasks
    BY <1>3 DEF Tick
  <2>3. ASSUME NEW i \in DOMAIN macrotasks
        PROVE  macrotasks'[i].cancelled = macrotasks[i].cancelled
    <3>1. macrotasks[i] \in Timer
      BY DEF IInv, TypeOK
    <3>2. \/ macrotasks'[i] = macrotasks[i]
          \/ macrotasks'[i] = [macrotasks[i] EXCEPT !.deadline = macrotasks[i].deadline - 1]
      BY <1>3 DEF Tick
    <3> QED BY <3>1, <3>2 DEF Timer
  <2>4. LiveAt' = LiveAt
    BY <2>2, <2>3 DEF LiveAt, Live
  <2> QED BY <2>1, <2>4 DEF Held
<1>4. CASE (\E c \in Callback : Post(c)) \/ UNCHANGED vars
  <2>1. phase = "recv" /\ open_handles' = open_handles /\ LiveAt' = LiveAt
    BY <1>4 DEF Post, vars, io, LiveAt
  <2> QED BY <2>1 DEF Held
<1>5. CASE Loop /\ ~Block
  BY <1>5 DEF Loop, RunTick, RunMicrotask, Drained, TakeRejections, ReportRejection, Reported,
              Exit, RunCompletion, FireVirtual, FireDue, Receive, ReceiveTimeout, Run, At
<1>6. CASE JS
  <2>1. phase' = "recv" => phase = "recv"
    BY <1>6 DEF JS, NextTick, QueueMicrotask, QueueIoCallback, SetImmediate, SetTimeout,
               SetInterval, AddTimer, StartOperation, ClearTimer, RefTimer, RefreshTimer,
               WatchFile, UnwatchFile, Return, Throw, ProcessExit, Reject, HandleRejection
  <2>2. running # Nobody
    BY <1>6 DEF JS, NextTick, QueueMicrotask, QueueIoCallback, SetImmediate, SetTimeout,
               SetInterval, Schedule, InJS, StartOperation, ClearTimer, RefTimer, RefreshTimer,
               WatchFile, UnwatchFile, Return, Throw, ProcessExit, Reject, HandleRejection
  <2> QED BY <1>1, <2>1, <2>2
<1> QED BY <1>2, <1>3, <1>4, <1>5, <1>6 DEF Next

\* The blocking recv in drive_event_loop is always ended: by a task already
\* posted, a thread at work, a watched file, or the deadline of a timer.
THEOREM BlockedLoopCorrect == Spec => []BlockedLoopIsWoken
<1>1. Init => IInv /\ Held
  BY InitInv DEF Init, Held
<1>2. IInv /\ Held /\ [Next]_vars => IInv' /\ Held'
  BY StepInv, HeldNext
<1>3. IInv /\ Held => BlockedLoopIsWoken
  <2> SUFFICES ASSUME IInv, phase = "recv", open_handles > 0
               PROVE  io_rx # <<>> \/ threads # {} \/ watching
    BY DEF Held, BlockedLoopIsWoken, At
  <2>1. Holders # {}
    BY FS_EmptySet DEF IInv, Counted, HandlesCounted
  <2> QED BY <2>1, MembersOfEmpty DEF Holders
<1> QED BY <1>1, <1>2, <1>3, PTL DEF Spec

\* When no listener runs at the checkpoint, a completion, a timer or an IoTask
\* starts only where both queues are empty: the microtask checkpoint runs between
\* any two macrotasks.
THEOREM CheckpointCorrect == CheckpointSilent => (Spec => CheckpointBetweenMacrotasks)
<1> SUFFICES ASSUME CheckpointSilent PROVE Spec => CheckpointBetweenMacrotasks
  OBVIOUS
<1> DEFINE Between == (/\ running = Nobody /\ running' \in Callback
                       /\ running' \notin Members(nextticks) \cup Members(microtasks))
                      => nextticks = <<>> /\ microtasks = <<>>
<1>1. Init => IInv
  BY InitInv
<1>2. IInv /\ [Next]_vars => IInv'
  BY StepInv
<1>3. IInv /\ [Next]_vars => [Between]_vars
  <2> SUFFICES ASSUME IInv, Next, running = Nobody, running' \in Callback,
                      running' \notin Members(nextticks) \cup Members(microtasks)
               PROVE  nextticks = <<>> /\ microtasks = <<>>
    OBVIOUS
  <2>1. running' # Nobody
    BY CallbackAssumption
  <2>2. phase \notin {"turn", "recv"} => RunTick \/ RunMicrotask
    <3>1. ~JS
      BY DEF JS, NextTick, QueueMicrotask, QueueIoCallback, SetImmediate, SetTimeout,
             SetInterval, Schedule, InJS, StartOperation, ClearTimer, RefTimer, RefreshTimer,
             WatchFile, UnwatchFile, Return, Throw, ProcessExit, Reject, HandleRejection
    <3>2. ~Tick /\ ~\E c \in Callback : Post(c)
      BY <2>1 DEF Tick, Post
    <3>3. ~Drained /\ ~Exit /\ ~Block /\ ~ReceiveTimeout /\ ~TakeRejections /\ ~Reported
      BY <2>1 DEF Drained, Exit, Block, ReceiveTimeout, TakeRejections, Reported
    <3>4. ~ReportRejection
      BY <2>1, CallbackAssumption DEF ReportRejection
    <3>5. RunCompletion \/ FireVirtual \/ FireDue \/ Receive => phase \in {"turn", "recv"}
      BY DEF RunCompletion, FireVirtual, FireDue, Receive, ClockTurn, At
    <3> QED BY <3>1, <3>2, <3>3, <3>4, <3>5 DEF Next, Loop
  <2>3. ~RunTick
    <3> SUFFICES ASSUME RunTick PROVE FALSE
      OBVIOUS
    <3>1. nextticks \in Seq(Callback) /\ nextticks # <<>> /\ running' = Head(nextticks)
      BY DEF RunTick, Run, IInv, TypeOK
    <3>2. 1 \in DOMAIN nextticks /\ Head(nextticks) = nextticks[1]
      BY <3>1
    <3> QED BY <3>1, <3>2 DEF Members
  <2>4. ~RunMicrotask
    <3> SUFFICES ASSUME RunMicrotask PROVE FALSE
      OBVIOUS
    <3>1. microtasks \in Seq(Callback) /\ microtasks # <<>> /\ running' = Head(microtasks)
      BY DEF RunMicrotask, Run, IInv, TypeOK
    <3>2. 1 \in DOMAIN microtasks /\ Head(microtasks) = microtasks[1]
      BY <3>1
    <3> QED BY <3>1, <3>2 DEF Members
  <2> QED BY <2>2, <2>3, <2>4 DEF IInv, Quiet
<1>4. QED BY <1>1, <1>2, <1>3, PTL DEF Spec, CheckpointBetweenMacrotasks

\* When no listener runs at the checkpoint, the queues, the timer table, the two
\* clocks, the channel and the handle count together behave as the scheduler:
\* only what was submitted and not withdrawn starts, one at a time, and the loop
\* leaves only when nothing holds it.
THEOREM RefinementCorrect == CheckpointSilent => (Spec => ImplementsScheduler)
<1> SUFFICES ASSUME CheckpointSilent PROVE Spec => ImplementsScheduler
  OBVIOUS
<1>1. Init => IInv /\ Sched!SchedulerInit
  BY InitInv
<1>2. IInv /\ [Next]_vars => IInv' /\ [Sched!SchedulerNext]_(Sched!svars)
  BY StepInv
<1> QED BY <1>1, <1>2, PTL DEF Spec, ImplementsScheduler, Sched!SchedulerSpec

----------------------------------------------------------------------------
(* The order of EventLoopOrder.  One step turns the timer table. *)

LEMMA Starting ==
  ASSUME IInv, Next
  PROVE  \/ Started = {}
         \/ \E c \in Callback :
              /\ Started = {c} /\ running = Nobody /\ running' = c
              /\ \/ RunTick /\ nextticks # <<>> /\ c = Head(nextticks)
                 \/ RunMicrotask /\ microtasks # <<>> /\ c = Head(microtasks)
                 \/ RunCompletion /\ c \in Completions
                 \/ (FireVirtual \/ FireDue) /\ c \in LiveIds
                 \/ Receive /\ c \in Posted
<1>1. Nobody \notin Callback /\ Handler \notin Callback
  BY CallbackAssumption
<1>2. ASSUME running' \in {running, Nobody, Handler} PROVE Started = {}
  BY <1>1, <1>2 DEF Started
<1>3. ASSUME NEW c \in Callback, running = Nobody, running' = c
      PROVE  Started = {c}
  BY <1>1, <1>3 DEF Started
<1>4. ASSUME NEW q \in Seq(Callback), q # <<>> PROVE Head(q) \in Callback /\ Head(q) \in Members(q)
  BY <1>4, MembersOfTail
<1>5. CASE JS
  <2>1. running' \in {running, Nobody, Handler}
    BY <1>5 DEF JS, NextTick, QueueMicrotask, QueueIoCallback, SetImmediate, SetTimeout,
      SetInterval, AddTimer, StartOperation, ClearTimer, RefTimer, RefreshTimer,
      WatchFile, UnwatchFile, Return, Throw, ProcessExit, Reject, HandleRejection
  <2> QED BY <1>2, <2>1
<1>6. CASE Tick \/ \E c \in Callback : Post(c)
  BY <1>2, <1>6 DEF Tick, Post
<1>7. CASE Drained \/ TakeRejections \/ ReportRejection \/ Reported \/ Exit \/ Block \/ ReceiveTimeout
  <2>1. running' \in {running, Nobody, Handler}
    BY <1>7 DEF Drained, TakeRejections, ReportRejection, Reported, Exit, Block, ReceiveTimeout
  <2> QED BY <1>2, <2>1
<1>8. CASE RunTick
  <2>1. nextticks \in Seq(Callback) /\ nextticks # <<>> /\ running = Nobody /\ running' = Head(nextticks)
    BY <1>8 DEF RunTick, At, Run, IInv, TypeOK
  <2> QED BY <1>3, <1>4, <1>8, <2>1
<1>9. CASE RunMicrotask
  <2>1. microtasks \in Seq(Callback) /\ microtasks # <<>> /\ running = Nobody /\ running' = Head(microtasks)
    BY <1>9 DEF RunMicrotask, At, Run, IInv, TypeOK
  <2> QED BY <1>3, <1>4, <1>9, <2>1
<1>10. CASE RunCompletion
  <2>1. /\ io_completions \in Seq(Callback) /\ io_completions # <<>> /\ running = Nobody
        /\ running' = Head(io_completions)
    BY <1>10 DEF RunCompletion, At, Run, IInv, TypeOK
  <2> QED BY <1>3, <1>4, <1>10, <2>1 DEF Completions
<1>11. CASE FireVirtual \/ FireDue
  <2>1. PICK i \in LiveAt : running' = macrotasks[i].id
    BY <1>11 DEF FireVirtual, FireDue, Run
  <2>2. running = Nobody
    BY <1>11 DEF FireVirtual, FireDue, ClockTurn, At
  <2>3. macrotasks[i] \in Timer
    BY Entries
  <2>4. macrotasks[i].id \in Callback /\ macrotasks[i].id \in LiveIds
    BY <2>3, TimerFields DEF LiveIds
  <2> QED BY <1>3, <1>11, <2>1, <2>2, <2>4
<1>12. CASE Receive
  <2>1. /\ io_rx \in Seq(Callback \cup {Watcher}) /\ io_rx # <<>> /\ running = Nobody
        /\ Head(io_rx) = Watcher => running' = running
        /\ Head(io_rx) # Watcher => running' = Head(io_rx)
    BY <1>12 DEF Receive, At, Run, IInv, TypeOK
  <2>2. Head(io_rx) \in Callback \cup {Watcher} /\ Head(io_rx) \in Members(io_rx)
    BY <2>1, MembersOfTail
  <2>3. CASE Head(io_rx) = Watcher
    BY <1>2, <2>1, <2>3
  <2>4. CASE Head(io_rx) # Watcher
    BY <1>3, <1>12, <2>1, <2>2, <2>4 DEF Posted
  <2> QED BY <2>3, <2>4
<1> QED BY <1>5, <1>6, <1>7, <1>8, <1>9, <1>10, <1>11, <1>12 DEF Next, Loop

----------------------------------------------------------------------------
(* How a step turns the timer table ts into us. *)

Alive(ts) == {i \in DOMAIN ts : ~ts[i].cancelled}
Wait(d) == IF d < 0 THEN 0 ELSE d

\* Timer u is timer t, a and b nearer to its two deadlines.
Nearer(t, u, a, b) ==
  /\ u.id = t.id /\ u.delay = t.delay
  /\ u.deadline = t.deadline - a /\ u.vdeadline = t.vdeadline - b

\* The timers outside A come from earlier ones, in their order.
Shifts(ts, us, A, a, b) ==
  \A k, l \in Alive(us) : us[k].id \notin A /\ us[l].id \notin A =>
    \E i, j \in Alive(ts) :
      Nearer(ts[i], us[k], a, b) /\ Nearer(ts[j], us[l], a, b) /\ (i < j => k < l)

\* Those in A start from their delay, and but for the refreshed R go last.
Starts(us, A, R) ==
  \A k \in Alive(us) : us[k].id \in A =>
    /\ us[k].deadline = Wait(us[k].delay) /\ us[k].vdeadline = us[k].delay
    /\ us[k].id \notin R => \A l \in Alive(us) : l <= k

Turns(ts, us, A, R, a, b) == Shifts(ts, us, A, a, b) /\ Starts(us, A, R)

LEMMA LivesAlive ==
  ASSUME NEW ts
  PROVE  Lives(ts) = {ts[i].id : i \in Alive(ts)}
BY DEF Lives, Alive

LEMMA AliveNow == LiveAt = Alive(macrotasks) /\ LiveAt' = Alive(macrotasks')
BY DEF LiveAt, Alive, Live

\* Entries rewritten in place.
LEMMA TurnInPlace ==
  ASSUME NEW ts \in Seq(Timer), NEW us, DOMAIN us = DOMAIN ts, NEW a,
         \A i \in Alive(us) : i \in Alive(ts) /\ Nearer(ts[i], us[i], a, 0)
  PROVE  Shifts(ts, us, {}, a, 0) /\ Lives(us) \subseteq Lives(ts)
<1>1. Shifts(ts, us, {}, a, 0)
  BY DEF Shifts
<1>2. Lives(us) \subseteq Lives(ts)
  BY LivesAlive DEF Nearer
<1> QED BY <1>1, <1>2

LEMMA TurnSame ==
  ASSUME NEW ts \in Seq(Timer), NEW R
  PROVE  Turns(ts, ts, {}, R, 0, 0)
<1>1. \A i \in Alive(ts) : ts[i] \in Timer
  BY DEF Alive
<1>2. \A i \in Alive(ts) : Nearer(ts[i], ts[i], 0, 0)
  <2> TAKE i \in Alive(ts)
  <2>1. ts[i].deadline \in Int /\ ts[i].vdeadline \in Int
    BY <1>1, TimerFields
  <2> QED BY <2>1 DEF Nearer
<1> QED BY <1>2 DEF Turns, Shifts, Starts

\* A timer is pushed.
LEMMA TurnPush ==
  ASSUME NEW ts \in Seq(Timer), NEW t \in Timer, NEW R, t.id \notin Ids(ts),
         t.deadline = Wait(t.delay), t.vdeadline = t.delay
  PROVE  Turns(ts, Append(ts, t), {t.id}, R, 0, 0)
<1> DEFINE us == Append(ts, t)
<1>1. DOMAIN us = 1 .. Len(ts) + 1 /\ DOMAIN ts = 1 .. Len(ts) /\ Len(ts) \in Nat
  OBVIOUS
<1>2. (\A i \in DOMAIN ts : us[i] = ts[i]) /\ us[Len(ts) + 1] = t
  OBVIOUS
<1> HIDE DEF us
<1>3. \A i \in DOMAIN ts : ts[i] \in Timer
  OBVIOUS
<1>4. \A k \in Alive(us) : us[k].id # t.id => k \in Alive(ts) /\ us[k] = ts[k]
  BY <1>1, <1>2 DEF Alive
<1>5. \A k \in Alive(us) : us[k].id # t.id => Nearer(ts[k], us[k], 0, 0)
  <2> SUFFICES ASSUME NEW k \in Alive(us), us[k].id # t.id PROVE Nearer(ts[k], us[k], 0, 0)
    OBVIOUS
  <2>1. us[k] = ts[k] /\ ts[k] \in Timer
    BY <1>3, <1>4 DEF Alive
  <2>2. ts[k].deadline \in Int /\ ts[k].vdeadline \in Int
    BY <2>1, TimerFields
  <2> QED BY <2>1, <2>2 DEF Nearer
<1>6. Shifts(ts, us, {t.id}, 0, 0)
  BY <1>4, <1>5 DEF Shifts
<1>7. \A k \in Alive(us) : us[k].id = t.id => k = Len(ts) + 1
  BY <1>1, <1>2 DEF Alive, Ids
<1>8. Starts(us, {t.id}, R)
  BY <1>1, <1>2, <1>7 DEF Starts, Alive
<1> QED BY <1>6, <1>8 DEF Turns, us

\* A timer fires: the rest comes closer by b on the virtual clock.
LEMMA TurnFire ==
  ASSUME NEW ts \in Seq(Timer), NEW i \in Alive(ts), Unique(ts), NEW R, NEW b \in Int,
         NEW rest \in Seq(Timer), DOMAIN rest = DOMAIN Remove(ts, i),
         \A j \in DOMAIN rest : /\ rest[j].id = Remove(ts, i)[j].id
                                /\ rest[j].delay = Remove(ts, i)[j].delay
                                /\ rest[j].cancelled = Remove(ts, i)[j].cancelled
                                /\ rest[j].deadline = Remove(ts, i)[j].deadline
                                /\ ~rest[j].cancelled =>
                                     rest[j].vdeadline = Remove(ts, i)[j].vdeadline - b
  PROVE  LET us == fire_timer(ts[i], rest)
         IN  \/ ts[i].id \notin Lives(us) /\ Turns(ts, us, {}, R, 0, b)
             \/ ts[i].id \in Lives(us) /\ Turns(ts, us, {ts[i].id}, R, 0, b)
<1> DEFINE rm == Remove(ts, i)
           old(j) == IF j < i THEN j ELSE j + 1
           c == ts[i].id
<1>1. Len(ts) \in Nat \ {0} /\ DOMAIN ts = 1 .. Len(ts) /\ i \in 1 .. Len(ts) /\ ~ts[i].cancelled
  BY DEF Alive
<1>2. DOMAIN rm = 1 .. Len(ts) - 1 /\ \A j \in DOMAIN rm : rm[j] = ts[old(j)]
  BY <1>1, RemoveType
<1>3. \A j \in DOMAIN rm : old(j) \in DOMAIN ts /\ old(j) # i
  BY <1>1, <1>2
<1>4. \A j, k \in DOMAIN rm : old(j) < old(k) => j < k
  BY <1>1, <1>2
<1> HIDE DEF old, rm
<1>5. \A j \in Alive(rest) : old(j) \in Alive(ts) /\ Nearer(ts[old(j)], rest[j], 0, b)
  <2> TAKE j \in Alive(rest)
  <2>1. j \in DOMAIN rm /\ rm[j] = ts[old(j)] /\ old(j) \in DOMAIN ts
    BY <1>2, <1>3 DEF Alive, rm
  <2>2. ts[old(j)] \in Timer
    BY <2>1
  <2>3. ts[old(j)].deadline \in Int
    BY <2>2, TimerFields
  <2>4. /\ rest[j].id = rm[j].id /\ rest[j].delay = rm[j].delay
        /\ rest[j].cancelled = rm[j].cancelled /\ rest[j].deadline = rm[j].deadline
        /\ rest[j].vdeadline = rm[j].vdeadline - b /\ ~rest[j].cancelled
    BY DEF Alive, rm
  <2> QED BY <2>1, <2>3, <2>4 DEF Nearer, Alive
<1>6. \A j \in Alive(rest) : j \in DOMAIN rm
  BY DEF Alive, rm
<1>7. Shifts(ts, rest, {}, 0, b)
  BY <1>4, <1>5, <1>6 DEF Shifts
<1>8. \A j \in DOMAIN rest : rest[j].id # c
  <2> TAKE j \in DOMAIN rest
  <2>1. j \in DOMAIN rm
    BY DEF rm
  <2>2. ts[old(j)].id # ts[i].id
    BY <1>1, <1>3, <2>1 DEF Unique
  <2>3. rest[j].id = rm[j].id
    BY DEF rm
  <2> QED BY <1>2, <2>1, <2>2, <2>3
<1>9. CASE ~ts[i].interval
  <2>1. fire_timer(ts[i], rest) = rest
    BY <1>9 DEF fire_timer
  <2>2. c \notin Lives(rest)
    BY <1>8 DEF Lives
  <2>3. Starts(rest, {}, R)
    BY DEF Starts
  <2> QED BY <1>7, <2>1, <2>2, <2>3 DEF Turns
<1>10. CASE ts[i].interval
  <2> DEFINE t == restarted(ts[i])
  <2>1. ts[i] \in Timer
    BY <1>1
  <2>2. t \in Timer
    BY <2>1, TimerFields
  <2>3. t.id = c /\ ~t.cancelled /\ t.delay = ts[i].delay
    BY <1>1, <2>1 DEF restarted, Timer
  <2>4. t.deadline = Wait(t.delay) /\ t.vdeadline = t.delay
    BY <2>1 DEF restarted, Timer, Wait
  <2> HIDE DEF t
  <2> DEFINE us == Append(rest, t)
  <2>5. fire_timer(ts[i], rest) = us
    BY <1>10 DEF fire_timer, t
  <2>6. c \notin Ids(rest)
    BY <1>8 DEF Ids
  <2>7. Starts(us, {c}, R) /\ Shifts(rest, us, {c}, 0, 0)
    <3>1. Turns(rest, us, {c}, R, 0, 0)
      BY <2>2, <2>3, <2>4, <2>6, TurnPush
    <3> QED BY <3>1 DEF Turns
  <2>8. c \in Lives(us)
    BY <2>2, <2>3, TablePush
  <2>9. /\ DOMAIN us = 1 .. Len(rest) + 1 /\ DOMAIN rest = 1 .. Len(rest) /\ Len(rest) \in Nat
        /\ (\A j \in DOMAIN rest : us[j] = rest[j]) /\ us[Len(rest) + 1] = t
    OBVIOUS
  <2> HIDE DEF us
  <2>10. \A k \in Alive(us) : us[k].id # c => k \in Alive(rest) /\ us[k] = rest[k]
    BY <2>3, <2>9 DEF Alive
  <2>11. Shifts(ts, us, {c}, 0, b)
    <3> SUFFICES ASSUME NEW k \in Alive(us), NEW l \in Alive(us), us[k].id # c, us[l].id # c
                 PROVE  \E x, y \in Alive(ts) :
                          /\ Nearer(ts[x], us[k], 0, b) /\ Nearer(ts[y], us[l], 0, b)
                          /\ (x < y => k < l)
      BY DEF Shifts
    <3>1. k \in Alive(rest) /\ l \in Alive(rest) /\ us[k] = rest[k] /\ us[l] = rest[l]
      BY <2>10
    <3> QED BY <1>7, <3>1 DEF Shifts
  <2> QED BY <2>5, <2>7, <2>8, <2>11 DEF Turns
<1> QED BY <1>9, <1>10

LEMMA Tables ==
  ASSUME IInv, IInv'
  PROVE  /\ macrotasks \in Seq(Timer) /\ macrotasks' \in Seq(Timer)
         /\ Unique(macrotasks) /\ Unique(macrotasks')
         /\ LiveIds = Lives(macrotasks) /\ LiveIds' = Lives(macrotasks')
         /\ LiveAt = Alive(macrotasks) /\ LiveAt' = Alive(macrotasks')
BY TableNames, TableNamesPrime, AliveNow DEF IInv, TypeOK, Placed

LEMMA RefreshTurn ==
  ASSUME IInv, IInv', Refreshed # {}, refreshed' = (refreshed \cup Refreshed) \ Started
  PROVE  /\ Turns(macrotasks, macrotasks', Armed, refreshed', 0, 0)
         /\ Started = {} /\ Armed \subseteq LiveIds' /\ Armed = Refreshed /\ LiveIds' = LiveIds
<1>1. PICK c \in Callback : RefreshTimer(c)
  BY DEF Refreshed
<1>2. Started = {}
  BY <1>1 DEF RefreshTimer, Started
<1>3. ASSUME NEW d \in Refreshed
      PROVE  /\ DOMAIN macrotasks' = DOMAIN macrotasks /\ d \in LiveIds
             /\ \A i \in DOMAIN macrotasks :
                  /\ macrotasks'[i].id = macrotasks[i].id
                  /\ macrotasks'[i].cancelled = macrotasks[i].cancelled
                  /\ i \in LiveAt /\ macrotasks[i].id = d =>
                       /\ macrotasks'[i].deadline = Wait(macrotasks'[i].delay)
                       /\ macrotasks'[i].vdeadline = macrotasks'[i].delay
                  /\ ~(i \in LiveAt /\ macrotasks[i].id = d) => macrotasks'[i] = macrotasks[i]
  <2>1. RefreshTimer(d)
    BY DEF Refreshed
  <2>2. d \in LiveIds
    BY <2>1 DEF RefreshTimer, LiveIds
  <2>3. macrotasks' = refresh_timer(d)
    BY <2>1 DEF RefreshTimer
  <2>4. DOMAIN macrotasks' = DOMAIN macrotasks
    BY <2>3 DEF refresh_timer
  <2>5. ASSUME NEW i \in DOMAIN macrotasks
        PROVE  /\ macrotasks'[i].id = macrotasks[i].id
               /\ macrotasks'[i].cancelled = macrotasks[i].cancelled
               /\ i \in LiveAt /\ macrotasks[i].id = d =>
                    /\ macrotasks'[i].deadline = Wait(macrotasks'[i].delay)
                    /\ macrotasks'[i].vdeadline = macrotasks'[i].delay
               /\ ~(i \in LiveAt /\ macrotasks[i].id = d) => macrotasks'[i] = macrotasks[i]
    <3>1. macrotasks'[i] = IF i \in LiveAt /\ macrotasks[i].id = d
                           THEN restarted(macrotasks[i]) ELSE macrotasks[i]
      BY <2>3 DEF refresh_timer
    <3>2. macrotasks[i] \in Timer
      BY DEF IInv, TypeOK
    <3> QED BY <3>1, <3>2 DEF restarted, Timer, Wait
  <2> QED BY <2>2, <2>4, <2>5
<1>4. c \in Refreshed
  BY <1>1 DEF Refreshed
<1>5. LiveAt' = LiveAt /\ LiveIds' = LiveIds
  BY <1>3, <1>4 DEF LiveAt, Live, LiveIds
<1>6. Armed = Refreshed /\ Refreshed \subseteq LiveIds'
  BY <1>2, <1>3, <1>5 DEF Armed
<1>7. Refreshed \subseteq refreshed'
  BY <1>2
<1>8. Shifts(macrotasks, macrotasks', Refreshed, 0, 0)
  <2>1. \A k \in Alive(macrotasks') : k \in Alive(macrotasks) /\ k \in DOMAIN macrotasks
    BY <1>5, AliveNow DEF LiveAt
  <2>2. \A k \in Alive(macrotasks') : macrotasks'[k].id \notin Refreshed =>
           Nearer(macrotasks[k], macrotasks'[k], 0, 0)
    <3> SUFFICES ASSUME NEW k \in Alive(macrotasks'), macrotasks'[k].id \notin Refreshed
                 PROVE  Nearer(macrotasks[k], macrotasks'[k], 0, 0)
      OBVIOUS
    <3>1. macrotasks[k].id # c
      BY <1>3, <1>4, <2>1
    <3>2. macrotasks'[k] = macrotasks[k]
      BY <1>3, <1>4, <2>1, <3>1
    <3>3. macrotasks[k] \in Timer
      BY <2>1 DEF IInv, TypeOK
    <3>4. macrotasks[k].deadline \in Int /\ macrotasks[k].vdeadline \in Int
      BY <3>3, TimerFields
    <3> QED BY <3>2, <3>4 DEF Nearer
  <2> QED BY <2>1, <2>2 DEF Shifts
<1>9. Starts(macrotasks', Refreshed, refreshed')
  <2> SUFFICES ASSUME NEW k \in Alive(macrotasks'), macrotasks'[k].id \in Refreshed
               PROVE  /\ macrotasks'[k].deadline = Wait(macrotasks'[k].delay)
                      /\ macrotasks'[k].vdeadline = macrotasks'[k].delay
    BY <1>7 DEF Starts
  <2> DEFINE d == macrotasks'[k].id
  <2>1. k \in LiveAt /\ k \in DOMAIN macrotasks
    BY <1>5, AliveNow DEF LiveAt
  <2>2. macrotasks[k].id = d
    BY <1>3, <1>4, <2>1
  <2> QED BY <1>3, <2>1, <2>2
<1> QED BY <1>2, <1>5, <1>6, <1>8, <1>9 DEF Turns

\* No timer fires, and none is pushed or refreshed.
LEMMA InPlaceTurn ==
  ASSUME IInv, IInv', Refreshed = {}, Started \cap LiveIds' = {},
         DOMAIN macrotasks' = DOMAIN macrotasks, NEW a,
         \A i \in LiveAt' : i \in LiveAt /\ Nearer(macrotasks[i], macrotasks'[i], a, 0)
  PROVE  Armed = {} /\ Turns(macrotasks, macrotasks', Armed, refreshed', a, 0)
<1>1. Shifts(macrotasks, macrotasks', {}, a, 0) /\ LiveIds' \subseteq LiveIds
  BY Tables, TurnInPlace
<1>2. Armed = {}
  BY <1>1 DEF Armed
<1> QED BY <1>1, <1>2 DEF Turns, Starts

LEMMA SameTurn ==
  ASSUME IInv, IInv', Refreshed = {}, Started \cap LiveIds = {}, macrotasks' = macrotasks
  PROVE  Armed = {} /\ Turns(macrotasks, macrotasks', Armed, refreshed', 0, 0)
<1>1. LiveIds' = LiveIds
  BY DEF LiveIds, LiveAt
<1>2. Armed = {}
  BY <1>1 DEF Armed
<1>3. Turns(macrotasks, macrotasks, {}, refreshed', 0, 0)
  BY Tables, TurnSame
<1> QED BY <1>2, <1>3

LEMMA PushTurn ==
  ASSUME IInv, IInv', Refreshed = {}, Started = {}, NEW c \in Callback, NEW n \in Delay \cup {-1},
         NEW r \in BOOLEAN, NEW w, Schedule(c, w), AddTimer(c, n, r)
  PROVE  Armed \subseteq LiveIds' /\ Turns(macrotasks, macrotasks', Armed, refreshed', 0, 0)
<1> DEFINE t == NewTimer(c, n, r)
<1>1. t \in Timer /\ t.id = c /\ ~t.cancelled /\ t.deadline = Wait(t.delay) /\ t.vdeadline = t.delay
  BY NewTimerType DEF NewTimer, Wait
<1>2. c \notin Ids(macrotasks) /\ c \notin LiveIds
  BY Free, TableNames, HeldsInLives
<1>3. macrotasks' = Append(macrotasks, t)
  BY DEF AddTimer
<1> HIDE DEF t
<1>4. LiveIds' = LiveIds \cup {c}
  BY <1>1, <1>3, TablePush, Tables
<1>5. Armed = {c}
  BY <1>2, <1>4 DEF Armed
<1>6. Turns(macrotasks, macrotasks', {c}, refreshed', 0, 0)
  BY <1>1, <1>2, <1>3, Tables, TurnPush
<1> QED BY <1>4, <1>5, <1>6

\* How far a firing timer moves the virtual clock.
Moved(t) == IF t.vdeadline > 0 THEN t.vdeadline ELSE 0

LEMMA FireTurn ==
  ASSUME IInv, IInv', Refreshed = {}, FireVirtual \/ FireDue
  PROVE  \E i \in LiveAt :
           /\ Started = {macrotasks[i].id} /\ Armed \subseteq LiveIds'
           /\ \/ /\ virtual_clock /\ IsNextTimer(i)
                 /\ Turns(macrotasks, macrotasks', Armed, refreshed', 0, Moved(macrotasks[i]))
              \/ /\ ~virtual_clock /\ IsDueTimer(i)
                 /\ Turns(macrotasks, macrotasks', Armed, refreshed', 0, 0)
<1>1. PICK i \in LiveAt :
        /\ Run(macrotasks[i].id) /\ running = Nobody
        /\ \/ /\ virtual_clock /\ IsNextTimer(i)
              /\ macrotasks' = fire_timer(macrotasks[i], Advance(Remove(macrotasks, i), macrotasks[i]))
           \/ /\ ~virtual_clock /\ IsDueTimer(i)
              /\ macrotasks' = fire_timer(macrotasks[i], Remove(macrotasks, i))
  BY DEF FireVirtual, FireDue, ClockTurn, At
<1> DEFINE c == macrotasks[i].id
           rm == Remove(macrotasks, i)
           ad == Advance(rm, macrotasks[i])
           b == Moved(macrotasks[i])
<1>2. i \in Alive(macrotasks) /\ i \in DOMAIN macrotasks /\ macrotasks[i] \in Timer
  BY Tables DEF LiveAt
<1>3. c \in Callback /\ macrotasks[i].vdeadline \in Int /\ c \in LiveIds
  BY <1>2, TimerFields DEF LiveIds
<1>4. Started = {c}
  BY <1>1, <1>3, CallbackAssumption DEF Run, Started
<1>5. rm \in Seq(Timer) /\ ad \in Seq(Timer) /\ DOMAIN ad = DOMAIN rm
  BY <1>2, Tables, FiredTimers DEF Advance
<1>6. b \in Int
  BY <1>3 DEF Moved
<1>7. ASSUME NEW n, \/ c \notin LiveIds' /\ Turns(macrotasks, macrotasks', {}, refreshed', 0, n)
                    \/ c \in LiveIds' /\ Turns(macrotasks, macrotasks', {c}, refreshed', 0, n)
      PROVE  Armed \subseteq LiveIds' /\ Turns(macrotasks, macrotasks', Armed, refreshed', 0, n)
  <2>1. LiveIds' \subseteq LiveIds
    <3>1. ASSUME NEW k \in Alive(macrotasks') PROVE macrotasks'[k].id \in LiveIds
      <4>1. CASE macrotasks'[k].id = c
        BY <1>3, <4>1
      <4>2. CASE macrotasks'[k].id # c
        <5>1. \E j \in Alive(macrotasks) : macrotasks'[k].id = macrotasks[j].id
          BY <1>7, <4>2 DEF Turns, Shifts, Nearer
        <5> QED BY <5>1, Tables, LivesAlive
      <4> QED BY <4>1, <4>2
    <3> QED BY <3>1, Tables, LivesAlive
  <2>2. Armed = {c} \cap LiveIds'
    BY <1>4, <2>1 DEF Armed
  <2>3. CASE c \in LiveIds'
    <3>1. Armed = {c}
      BY <2>2, <2>3
    <3> QED BY <1>7, <2>3, <3>1
  <2>4. CASE c \notin LiveIds'
    <3>1. Armed = {}
      BY <2>2, <2>4
    <3> QED BY <1>7, <2>4, <3>1
  <2> QED BY <2>3, <2>4
<1>8. ASSUME NEW n \in Int, NEW rest \in Seq(Timer), DOMAIN rest = DOMAIN rm,
             macrotasks' = fire_timer(macrotasks[i], rest),
             \A j \in DOMAIN rest : /\ rest[j].id = rm[j].id
                                    /\ rest[j].delay = rm[j].delay
                                    /\ rest[j].cancelled = rm[j].cancelled
                                    /\ rest[j].deadline = rm[j].deadline
                                    /\ ~rest[j].cancelled => rest[j].vdeadline = rm[j].vdeadline - n
      PROVE  Armed \subseteq LiveIds' /\ Turns(macrotasks, macrotasks', Armed, refreshed', 0, n)
  <2>1. \/ c \notin Lives(macrotasks') /\ Turns(macrotasks, macrotasks', {}, refreshed', 0, n)
        \/ c \in Lives(macrotasks') /\ Turns(macrotasks, macrotasks', {c}, refreshed', 0, n)
    BY <1>2, <1>8, Tables, TurnFire
  <2> HIDE DEF c
  <2> QED BY <1>7, <2>1, Tables
<1> HIDE DEF rm, ad, b
<1>9. \A j \in DOMAIN rm : rm[j] \in Timer
  BY <1>5
<1>10. ASSUME NEW j \in DOMAIN rm
       PROVE  /\ ad[j].id = rm[j].id /\ ad[j].delay = rm[j].delay
              /\ ad[j].cancelled = rm[j].cancelled /\ ad[j].deadline = rm[j].deadline
              /\ ~ad[j].cancelled => ad[j].vdeadline = rm[j].vdeadline - b
  <2>1. rm[j] \in Timer
    BY <1>9
  <2>2. rm[j].vdeadline \in Int
    BY <2>1, TimerFields
  <2>3. ad[j] = IF ~rm[j].cancelled /\ macrotasks[i].vdeadline > 0
                THEN [rm[j] EXCEPT !.vdeadline = rm[j].vdeadline - macrotasks[i].vdeadline] ELSE rm[j]
    BY DEF ad, Advance, Live
  <2>4. CASE ~rm[j].cancelled /\ macrotasks[i].vdeadline > 0
    BY <2>1, <2>3, <2>4 DEF Timer, b, Moved
  <2>5. CASE ~(~rm[j].cancelled /\ macrotasks[i].vdeadline > 0)
    BY <2>2, <2>3, <2>5 DEF b, Moved
  <2> QED BY <2>4, <2>5
<1>11. ASSUME NEW j \in DOMAIN rm PROVE rm[j].vdeadline = rm[j].vdeadline - 0
  <2>1. rm[j].vdeadline \in Int
    BY <1>9, TimerFields
  <2> QED BY <2>1
<1>12. CASE /\ virtual_clock /\ IsNextTimer(i)
            /\ macrotasks' = fire_timer(macrotasks[i], ad)
  <2>1. Armed \subseteq LiveIds' /\ Turns(macrotasks, macrotasks', Armed, refreshed', 0, b)
    BY <1>5, <1>6, <1>8, <1>10, <1>12
  <2> QED BY <1>4, <1>12, <2>1 DEF b
<1>13. CASE /\ ~virtual_clock /\ IsDueTimer(i)
            /\ macrotasks' = fire_timer(macrotasks[i], rm)
  <2>1. Armed \subseteq LiveIds' /\ Turns(macrotasks, macrotasks', Armed, refreshed', 0, 0)
    BY <1>5, <1>8, <1>11, <1>13
  <2> QED BY <1>4, <1>13, <2>1
<1> QED BY <1>1, <1>12, <1>13 DEF ad, rm

\* What starts elsewhere is no timer.
LEMMA StartedElsewhere ==
  ASSUME IInv, Next, ~FireVirtual, ~FireDue
  PROVE  Started \cap TimerIds = {}
<1>1. Disjoint(Ticks, Micros, Completions, TimerIds, threads, Posted)
  BY DEF IInv, Placed
<1>2. /\ nextticks # <<>> => Head(nextticks) \in Ticks
      /\ microtasks # <<>> => Head(microtasks) \in Micros
  BY MembersOfTail DEF IInv, TypeOK, Ticks, Micros
<1> QED BY <1>1, <1>2, Starting DEF Disjoint

\* The steps that touch the timer table.
LEMMA TableActions ==
  ASSUME Next
  PROVE  \/ macrotasks' = macrotasks
         \/ \E c \in Callback :
              \/ RefreshTimer(c) \/ ClearTimer(c) \/ \E r \in BOOLEAN : RefTimer(c, r)
              \/ \E n \in Delay \cup {-1}, r \in BOOLEAN, w \in Way : Schedule(c, w) /\ AddTimer(c, n, r)
         \/ Tick \/ FireVirtual \/ FireDue
<1>1. CASE \E c \in Callback :
             \/ SetImmediate(c) \/ \E d \in Delay : SetTimeout(c, d) \/ SetInterval(c, d)
  <2>1. PICK c \in Callback :
          SetImmediate(c) \/ \E d \in Delay : SetTimeout(c, d) \/ SetInterval(c, d)
    BY <1>1
  <2>2. \E n \in Delay \cup {-1}, r \in BOOLEAN, w \in Way : Schedule(c, w) /\ AddTimer(c, n, r)
    <3>1. CASE SetImmediate(c)
      BY <3>1 DEF SetImmediate, Way
    <3>2. ASSUME NEW d \in Delay, SetTimeout(c, d) \/ SetInterval(c, d)
          PROVE  \E n \in Delay \cup {-1}, r \in BOOLEAN, w \in Way : Schedule(c, w) /\ AddTimer(c, n, r)
      BY <3>2 DEF SetTimeout, SetInterval, Way
    <3> QED BY <2>1, <3>1, <3>2
  <2> QED BY <2>2
<1>2. ASSUME NEW c \in Callback,
             NextTick(c) \/ QueueMicrotask(c) \/ QueueIoCallback(c) \/ StartOperation(c) \/ Post(c)
      PROVE  macrotasks' = macrotasks
  BY <1>2 DEF NextTick, QueueMicrotask, QueueIoCallback, StartOperation, Post
<1>3. CASE WatchFile \/ UnwatchFile \/ Reject \/ HandleRejection \/ Return \/ Throw \/ ProcessExit
  BY <1>3 DEF WatchFile, UnwatchFile, Reject, HandleRejection, Return, Throw, ProcessExit
<1>4. CASE Loop /\ ~FireVirtual /\ ~FireDue
  BY <1>4 DEF Loop, RunTick, RunMicrotask, Drained, TakeRejections, ReportRejection, Reported,
              Exit, RunCompletion, Block, Receive, ReceiveTimeout
<1> QED BY <1>1, <1>2, <1>3, <1>4 DEF Next, JS

\* Where a step leads: the timers come nearer by a and b.
Leads(a, b) ==
  /\ Armed \subseteq LiveIds' /\ Turns(macrotasks, macrotasks', Armed, refreshed', a, b)
  /\ \/ Started \cap TimerIds = {} /\ b = 0
     \/ \E i \in LiveAt :
          /\ Started = {macrotasks[i].id}
          /\ \/ virtual_clock /\ IsNextTimer(i) /\ b = Moved(macrotasks[i])
             \/ ~virtual_clock /\ IsDueTimer(i) /\ b = 0

LEMMA TurnLeads ==
  ASSUME IInv, IInv', Next, refreshed' = (refreshed \cup Refreshed) \ Started
  PROVE  \E a, b \in Nat : Leads(a, b)
<1>1. CASE Refreshed # {}
  <2>1. Leads(0, 0)
    BY <1>1, RefreshTurn DEF Leads
  <2> QED BY <2>1
<1>2. CASE Refreshed = {} /\ (FireVirtual \/ FireDue)
  <2>1. PICK i \in LiveAt :
          /\ Started = {macrotasks[i].id} /\ Armed \subseteq LiveIds'
          /\ \/ /\ virtual_clock /\ IsNextTimer(i)
                /\ Turns(macrotasks, macrotasks', Armed, refreshed', 0, Moved(macrotasks[i]))
             \/ /\ ~virtual_clock /\ IsDueTimer(i)
                /\ Turns(macrotasks, macrotasks', Armed, refreshed', 0, 0)
    BY <1>2, FireTurn
  <2>2. macrotasks[i] \in Timer
    BY Entries
  <2>3. macrotasks[i].vdeadline \in Int
    BY <2>2, TimerFields
  <2>4. Moved(macrotasks[i]) \in Nat
    BY <2>3 DEF Moved
  <2>5. Leads(0, Moved(macrotasks[i])) \/ Leads(0, 0)
    BY <2>1 DEF Leads
  <2> QED BY <2>4, <2>5
<1> DEFINE Rest == Refreshed = {} /\ ~FireVirtual /\ ~FireDue
<1>3. ASSUME Rest PROVE Started \cap TimerIds = {} /\ Started \cap LiveIds = {}
  <2>1. LiveIds \subseteq TimerIds
    BY TableNames, HeldsInLives
  <2> QED BY <1>3, <2>1, StartedElsewhere
<1>4. ASSUME Rest, macrotasks' = macrotasks PROVE Leads(0, 0)
  BY <1>3, <1>4, SameTurn DEF Leads
<1>5. ASSUME Rest, running' = running, DOMAIN macrotasks' = DOMAIN macrotasks, NEW a,
             \A i \in LiveAt' : i \in LiveAt /\ Nearer(macrotasks[i], macrotasks'[i], a, 0)
      PROVE  Leads(a, 0)
  <2>1. Started = {}
    BY <1>5 DEF Started
  <2>2. Armed = {} /\ Turns(macrotasks, macrotasks', Armed, refreshed', a, 0)
    BY <1>5, <2>1, InPlaceTurn
  <2> QED BY <2>1, <2>2 DEF Leads
<1>6. ASSUME Rest, NEW c \in Callback, NEW n \in Delay \cup {-1}, NEW r \in BOOLEAN, NEW w \in Way,
             Schedule(c, w), AddTimer(c, n, r)
      PROVE  Leads(0, 0)
  <2>1. Started = {}
    BY <1>6 DEF Started, AddTimer
  <2> QED BY <1>6, <2>1, PushTurn DEF Leads
<1>7. \A i \in DOMAIN macrotasks :
        /\ macrotasks[i] \in Timer /\ macrotasks[i].deadline \in Int /\ macrotasks[i].vdeadline \in Int
  BY Entries
<1>8. ASSUME Rest, NEW c \in Callback, ClearTimer(c) PROVE Leads(0, 0)
  <2>1. macrotasks' = cancel_timer(c) /\ running' = running
    BY <1>8 DEF ClearTimer
  <2>2. DOMAIN macrotasks' = DOMAIN macrotasks
    BY <2>1 DEF cancel_timer
  <2>3. ASSUME NEW i \in LiveAt'
        PROVE  i \in LiveAt /\ Nearer(macrotasks[i], macrotasks'[i], 0, 0)
    <3>1. i \in DOMAIN macrotasks /\ ~macrotasks'[i].cancelled
      BY <2>2 DEF LiveAt, Live
    <3>2. macrotasks'[i] = [macrotasks[i] EXCEPT !.cancelled = macrotasks[i].cancelled \/ macrotasks[i].id = c]
      BY <2>1, <3>1 DEF cancel_timer
    <3> QED BY <1>7, <3>1, <3>2 DEF Timer, LiveAt, Live, Nearer
  <2> QED BY <1>5, <1>8, <2>1, <2>2, <2>3
<1>9. ASSUME Rest, NEW c \in Callback, NEW r \in BOOLEAN, RefTimer(c, r) PROVE Leads(0, 0)
  <2>1. macrotasks' = set_timer_refed(c, r) /\ running' = running
    BY <1>9 DEF RefTimer
  <2>2. DOMAIN macrotasks' = DOMAIN macrotasks
    BY <2>1 DEF set_timer_refed
  <2>3. ASSUME NEW i \in LiveAt'
        PROVE  i \in LiveAt /\ Nearer(macrotasks[i], macrotasks'[i], 0, 0)
    <3>1. i \in DOMAIN macrotasks /\ ~macrotasks'[i].cancelled
      BY <2>2 DEF LiveAt, Live
    <3>2. macrotasks'[i] = IF i \in LiveAt /\ macrotasks[i].id = c
                           THEN [macrotasks[i] EXCEPT !.refed = r] ELSE macrotasks[i]
      BY <2>1, <3>1 DEF set_timer_refed
    <3> QED BY <1>7, <3>1, <3>2 DEF Timer, LiveAt, Live, Nearer
  <2> QED BY <1>5, <1>9, <2>1, <2>2, <2>3
<1>10. ASSUME Rest, Tick PROVE Leads(1, 0)
  <2>1. DOMAIN macrotasks' = DOMAIN macrotasks /\ running' = running
    BY <1>10 DEF Tick
  <2>2. ASSUME NEW i \in LiveAt'
        PROVE  i \in LiveAt /\ Nearer(macrotasks[i], macrotasks'[i], 1, 0)
    <3>1. i \in DOMAIN macrotasks /\ ~macrotasks'[i].cancelled
      BY <2>1 DEF LiveAt, Live
    <3>2. macrotasks'[i] = IF i \in LiveAt
                           THEN [macrotasks[i] EXCEPT !.deadline = macrotasks[i].deadline - 1]
                           ELSE macrotasks[i]
      BY <1>10, <3>1 DEF Tick
    <3> QED BY <1>7, <3>1, <3>2 DEF Timer, LiveAt, Live, Nearer
  <2> QED BY <1>5, <1>10, <2>1, <2>2
<1>11. \A c \in Callback : Rest => ~RefreshTimer(c)
  BY DEF Refreshed
<1>12. CASE Rest
  BY <1>4, <1>6, <1>8, <1>9, <1>10, <1>11, <1>12, TableActions
<1> QED BY <1>1, <1>2, <1>12

----------------------------------------------------------------------------
(* What the history says of the timers. *)

HistoryType ==
  /\ ahead \in [Callback -> SUBSET Callback] /\ waits \in [Callback -> SUBSET Callback]
  /\ due \in [Callback -> Int]
  /\ refreshed \subseteq Callback /\ cleared \subseteq Callback

\* A pending timer is at most its delay away from its deadlines.
Recent ==
  \A i \in LiveAt : /\ macrotasks[i].deadline <= Wait(macrotasks[i].delay)
                    /\ macrotasks[i].vdeadline <= macrotasks[i].delay

Sooner(ts, i, j) == i < j /\ ts[i].deadline <= ts[j].deadline /\ ts[i].vdeadline <= ts[j].vdeadline

\* A timer that another one waits for is ahead of it on both clocks.
Behind ==
  \A i, j \in LiveAt :
    macrotasks[j].id \notin refreshed /\ macrotasks[i].id \in waits[macrotasks[j].id]
      => Sooner(macrotasks, i, j)

\* The entry of a cleared timer stays in the table.
Gone == cleared \subseteq TimerIds \ LiveIds

\* The documented deadline is the one the loop keeps.
DueKept == ~switched => \A i \in LiveAt : due[macrotasks[i].id] = macrotasks[i].vdeadline

TimersInv == HistoryType /\ Recent /\ Behind /\ Gone /\ DueKept

DelayIn(ts, c) == ts[CHOOSE i \in Alive(ts) : ts[i].id = c].delay

LEMMA Delays ==
  ASSUME NEW ts, Unique(ts), NEW i \in Alive(ts)
  PROVE  DelayIn(ts, ts[i].id) = ts[i].delay
<1>1. \A j \in Alive(ts) : ts[j].id = ts[i].id => j = i
  BY DEF Alive, Unique
<1>2. (CHOOSE j \in Alive(ts) : ts[j].id = ts[i].id) = i
  BY <1>1
<1> QED BY <1>2 DEF DelayIn

LEMMA DelaysNow ==
  ASSUME NEW c
  PROVE  DelayOf(c) = DelayIn(macrotasks, c) /\ DelayOf(c)' = DelayIn(macrotasks', c)
BY DEF DelayOf, DelayIn, LiveAt, Alive, Live

LEMMA WaitGrows ==
  ASSUME NEW m \in Int, NEW n \in Int, m <= n
  PROVE  Wait(m) <= Wait(n) /\ Wait(m) \in Int
BY DEF Wait

\* Every live timer after a step has started anew or is one from before it.
LEMMA Origin ==
  ASSUME IInv, IInv', NEW a \in Nat, NEW b \in Nat, Leads(a, b), NEW k \in LiveAt'
  PROVE  LET u == macrotasks'[k]
         IN  /\ u \in Timer /\ u.id \in LiveIds' /\ u.id \in Callback
             /\ u.id \in Armed => u.deadline = Wait(u.delay) /\ u.vdeadline = u.delay
             /\ u.id \notin Armed =>
                  /\ u.id \notin Started
                  /\ \E i \in LiveAt : Nearer(macrotasks[i], u, a, b)
<1> DEFINE u == macrotasks'[k]
<1>1. k \in Alive(macrotasks') /\ u \in Timer /\ u.id \in LiveIds'
  <2>1. k \in Alive(macrotasks') /\ macrotasks' \in Seq(Timer)
    BY Tables
  <2>2. LiveIds' = Lives(macrotasks')
    BY Tables
  <2> QED BY <2>1, <2>2, LivesAlive DEF Alive
<1>2. u.id \in Callback
  BY <1>1, TimerFields
<1>3. u.id \in Armed => u.deadline = Wait(u.delay) /\ u.vdeadline = u.delay
  BY <1>1 DEF Leads, Turns, Starts
<1>4. u.id \notin Armed => \E i \in LiveAt : Nearer(macrotasks[i], u, a, b)
  BY <1>1, Tables DEF Leads, Turns, Shifts
<1>5. u.id \notin Armed => u.id \notin Started
  <2> SUFFICES ASSUME u.id \notin Armed, u.id \in Started PROVE FALSE
    OBVIOUS
  <2>1. u.id \in LiveIds
    BY <1>4 DEF Nearer, LiveIds
  <2> QED BY <1>1, <2>1 DEF Armed
<1> QED BY <1>1, <1>2, <1>3, <1>4, <1>5

LEMMA RecentKept ==
  ASSUME IInv, IInv', Recent, NEW a \in Nat, NEW b \in Nat, Leads(a, b)
  PROVE  Recent'
<1> SUFFICES ASSUME NEW k \in LiveAt'
             PROVE  /\ macrotasks'[k].deadline <= Wait(macrotasks'[k].delay)
                    /\ macrotasks'[k].vdeadline <= macrotasks'[k].delay
  BY DEF Recent
<1> DEFINE u == macrotasks'[k]
<1>1. /\ u \in Timer
      /\ u.id \in Armed => u.deadline = Wait(u.delay) /\ u.vdeadline = u.delay
      /\ u.id \notin Armed => \E i \in LiveAt : Nearer(macrotasks[i], u, a, b)
  BY Origin
<1>2. u.delay \in Int
  BY <1>1, TimerFields
<1>3. Wait(u.delay) \in Int
  BY <1>2, WaitGrows
<1> HIDE DEF u
<1>4. CASE u.id \in Armed
  BY <1>1, <1>2, <1>3, <1>4 DEF u
<1>5. CASE u.id \notin Armed
  <2>1. PICK i \in LiveAt : Nearer(macrotasks[i], u, a, b)
    BY <1>1, <1>5
  <2>2. macrotasks[i] \in Timer
    BY Entries
  <2>3. macrotasks[i].deadline \in Int /\ macrotasks[i].vdeadline \in Int
    BY <2>2, TimerFields
  <2>4. macrotasks[i].deadline <= Wait(u.delay) /\ macrotasks[i].vdeadline <= u.delay
    BY <2>1 DEF Recent, Nearer
  <2>5. u.deadline = macrotasks[i].deadline - a /\ u.vdeadline = macrotasks[i].vdeadline - b
    BY <2>1 DEF Nearer
  <2> QED BY <1>2, <1>3, <2>3, <2>4, <2>5 DEF u
<1> QED BY <1>4, <1>5

LEMMA BehindKept ==
  ASSUME IInv, IInv', HistoryType, Recent', Behind, NEW a \in Nat, NEW b \in Nat, Leads(a, b),
         waits' = NextWaits, refreshed' = (refreshed \cup Refreshed) \ Started
  PROVE  Behind'
<1> SUFFICES ASSUME NEW k \in LiveAt', NEW l \in LiveAt', macrotasks'[l].id \notin refreshed',
                    macrotasks'[k].id \in waits'[macrotasks'[l].id]
             PROVE  Sooner(macrotasks', k, l)
  BY DEF Behind
<1> DEFINE x == macrotasks'[k]
           c == macrotasks'[l]
<1>1. /\ c \in Timer /\ c.id \in LiveIds' /\ c.id \in Callback
      /\ c.id \in Armed => c.deadline = Wait(c.delay) /\ c.vdeadline = c.delay
      /\ c.id \notin Armed => c.id \notin Started
  BY Origin
<1>2. x \in Timer
  BY Origin
<1>3. /\ x.delay \in Int /\ x.deadline \in Int /\ x.vdeadline \in Int
      /\ c.delay \in Int /\ c.deadline \in Int /\ c.vdeadline \in Int
  BY <1>1, <1>2, TimerFields
<1>4. k \in Alive(macrotasks') /\ l \in Alive(macrotasks') /\ Unique(macrotasks')
      /\ k \in Nat /\ l \in Nat
  BY Tables DEF Alive
<1>5. PICK e \in Callback, f \in Callback : e = c.id /\ f = x.id
  BY <1>1, <1>2, TimerFields
<1>8. waits'[e] = IF e \in Armed THEN {y \in LiveIds' \ {e} : DelayOf(y)' <= DelayOf(e)'}
                  ELSE (waits[e] \cap LiveIds') \ Armed
  BY DEF NextWaits
<1>9. f \in waits'[e]
  BY <1>5
<1>6. CASE c.id \in Armed
  <2>1. f # e /\ DelayOf(f)' <= DelayOf(e)'
    BY <1>5, <1>6, <1>8, <1>9
  <2>2. DelayIn(macrotasks', f) <= DelayIn(macrotasks', e)
    BY <2>1, DelaysNow
  <2>3. x.delay <= c.delay
    BY <1>4, <1>5, <2>2, Delays
  <2>4. k <= l
    BY <1>4, <1>6 DEF Leads, Turns, Starts
  <2>5. k < l
    BY <1>4, <1>5, <2>1, <2>4
  <2>6. Wait(x.delay) <= Wait(c.delay) /\ Wait(x.delay) \in Int /\ Wait(c.delay) \in Int
    BY <1>3, <2>3, WaitGrows
  <2>7. x.deadline <= Wait(x.delay) /\ x.vdeadline <= x.delay
    BY DEF Recent
  <2>8. c.deadline = Wait(c.delay) /\ c.vdeadline = c.delay
    BY <1>1, <1>6
  <2> HIDE DEF x, c
  <2>9. x.deadline <= c.deadline /\ x.vdeadline <= c.vdeadline
    BY <1>3, <2>3, <2>6, <2>7, <2>8
  <2> QED BY <2>5, <2>9 DEF Sooner, x, c
<1>7. CASE c.id \notin Armed
  <2>1. x.id \in waits[c.id] /\ x.id \notin Armed
    BY <1>5, <1>7, <1>8, <1>9
  <2>2. PICK i, j \in LiveAt : Nearer(macrotasks[i], x, a, b) /\ Nearer(macrotasks[j], c, a, b)
                               /\ (i < j => k < l)
    BY <1>4, <1>7, <2>1, Tables DEF Leads, Turns, Shifts
  <2>3. c.id \notin refreshed
    BY <1>1, <1>7
  <2>4. Sooner(macrotasks, i, j)
    BY <2>1, <2>2, <2>3 DEF Behind, Nearer
  <2>5. macrotasks[i] \in Timer /\ macrotasks[j] \in Timer
    BY Entries
  <2>6. /\ macrotasks[i].deadline \in Int /\ macrotasks[i].vdeadline \in Int
        /\ macrotasks[j].deadline \in Int /\ macrotasks[j].vdeadline \in Int
    BY <2>5, TimerFields
  <2>7. /\ x.deadline = macrotasks[i].deadline - a /\ x.vdeadline = macrotasks[i].vdeadline - b
        /\ c.deadline = macrotasks[j].deadline - a /\ c.vdeadline = macrotasks[j].vdeadline - b
    BY <2>2 DEF Nearer
  <2> HIDE DEF x, c
  <2>8. x.deadline <= c.deadline /\ x.vdeadline <= c.vdeadline /\ k < l
    BY <2>2, <2>4, <2>6, <2>7 DEF Sooner
  <2> QED BY <2>8 DEF Sooner, x, c
<1> QED BY <1>6, <1>7

\* The deadline of what fires, in the history.
LEMMA PassedDue ==
  ASSUME IInv, HistoryType, DueKept, NEW a, NEW b \in Nat, Leads(a, b),
         ~switched, Fired = {} \/ virtual_clock
  PROVE  Passed = b
<1>1. LiveIds \subseteq TimerIds
  BY TableNames, HeldsInLives
<1>2. CASE Started \cap TimerIds = {} /\ b = 0
  <2>1. Fired = {}
    BY <1>1, <1>2 DEF Fired
  <2> QED BY <1>2, <2>1 DEF Passed
<1>3. CASE ~(Started \cap TimerIds = {} /\ b = 0)
  <2>1. PICK i \in LiveAt :
          /\ Started = {macrotasks[i].id}
          /\ \/ virtual_clock /\ IsNextTimer(i) /\ b = Moved(macrotasks[i])
             \/ ~virtual_clock /\ IsDueTimer(i) /\ b = 0
    BY <1>3 DEF Leads
  <2> DEFINE c == macrotasks[i].id
  <2>2. Fired = {c}
    BY <2>1 DEF Fired, LiveIds
  <2>3. b = Moved(macrotasks[i])
    BY <2>1, <2>2
  <2>4. due[c] = macrotasks[i].vdeadline
    BY DEF DueKept
  <2> HIDE DEF c
  <2>5. (CHOOSE d \in Fired : TRUE) = c
    BY <2>2
  <2>6. (\E d \in Fired : due[d] > 0) <=> due[c] > 0
    BY <2>2
  <2>7. Passed = IF due[c] > 0 THEN due[c] ELSE 0
    BY <2>5, <2>6 DEF Passed
  <2> QED BY <2>3, <2>4, <2>7 DEF Moved
<1> QED BY <1>2, <1>3

LEMMA DueKeptNext ==
  ASSUME IInv, IInv', HistoryType, DueKept, NEW a \in Nat, NEW b \in Nat, Leads(a, b),
         due' = NextDue, switched' = (switched \/ (Fired # {} /\ ~virtual_clock))
  PROVE  DueKept'
<1> SUFFICES ASSUME ~switched', NEW k \in LiveAt'
             PROVE  due'[macrotasks'[k].id] = macrotasks'[k].vdeadline
  BY DEF DueKept
<1> DEFINE u == macrotasks'[k]
<1>1. /\ u.id \in LiveIds' /\ u.id \in Callback
      /\ u.id \in Armed => u.vdeadline = u.delay
      /\ u.id \notin Armed => \E i \in LiveAt : Nearer(macrotasks[i], u, a, b)
  BY Origin
<1>2. Passed = b
  BY PassedDue
<1>3. PICK e \in Callback : e = u.id
  BY <1>1
<1>6. due'[e] = IF e \in Armed THEN DelayOf(e)' ELSE due[e] - b
  BY <1>1, <1>2, <1>3 DEF NextDue
<1>4. CASE u.id \in Armed
  <2>1. DelayOf(e)' = u.delay
    BY <1>3, Tables, Delays, DelaysNow
  <2> QED BY <1>1, <1>3, <1>4, <1>6, <2>1
<1>5. CASE u.id \notin Armed
  <2>1. PICK i \in LiveAt : Nearer(macrotasks[i], u, a, b)
    BY <1>1, <1>5
  <2>2. due[u.id] = macrotasks[i].vdeadline
    BY <2>1 DEF DueKept, Nearer
  <2> QED BY <1>3, <1>5, <1>6, <2>1, <2>2 DEF Nearer
<1> QED BY <1>4, <1>5

LEMMA LivesIn ==
  ASSUME NEW ts \in Seq(Timer)
  PROVE  Lives(ts) \subseteq Callback
<1>1. \A i \in DOMAIN ts : ts[i].id \in Callback
  BY TimerFields
<1> QED BY <1>1 DEF Lives

LEMMA InCallback ==
  ASSUME IInv
  PROVE  /\ LiveIds \subseteq Callback /\ LiveIds \subseteq TimerIds
         /\ Ticks \subseteq Callback /\ Micros \subseteq Callback /\ Jobs \subseteq Callback
<1>2. LiveIds \subseteq Callback
  BY LivesIn, TableNames DEF IInv, TypeOK
<1>3. Ticks \subseteq Callback /\ Micros \subseteq Callback
  BY DEF IInv, TypeOK, Ticks, Micros, Members
<1> QED BY <1>2, <1>3, TableNames, HeldsInLives DEF Jobs

LEMMA HistoryTypeKept ==
  ASSUME IInv, IInv', HistoryType, HNext, Armed \subseteq LiveIds'
  PROVE  HistoryType'
<1>1. LiveIds' \subseteq Callback /\ Jobs \subseteq Callback /\ Jobs' \subseteq Callback
  <2>1. LiveIds' \subseteq Callback
    BY Tables, LivesIn
  <2>2. Jobs' \subseteq Callback
    BY DEF IInv, TypeOK, Jobs, Ticks, Micros, Members
  <2> QED BY <2>1, <2>2, InCallback
<1>2. waits' \in [Callback -> SUBSET Callback]
  <2>1. waits' = NextWaits
    BY DEF HNext
  <2>2. \A c \in Callback : waits[c] \subseteq Callback
    BY DEF HistoryType
  <2> QED BY <1>1, <2>1, <2>2 DEF NextWaits
<1>3. ahead' \in [Callback -> SUBSET Callback]
  <2>1. ahead' = NextAhead
    BY DEF HNext
  <2>2. \A c \in Callback : ahead[c] \subseteq Callback
    BY DEF HistoryType
  <2> QED BY <1>1, <2>1, <2>2 DEF NextAhead
<1>4. due' \in [Callback -> Int]
  <2>1. due' = NextDue
    BY DEF HNext
  <2>2. \A c \in Callback : due[c] \in Int
    BY DEF HistoryType
  <2>3. Passed \in Int
    <3>1. Fired \subseteq Callback
      BY DEF Fired, Started
    <3> QED BY <2>2, <3>1 DEF Passed
  <2>4. ASSUME NEW c \in Armed PROVE DelayOf(c)' \in Int
    <3>1. PICK k \in Alive(macrotasks') : macrotasks'[k].id = c
      BY Tables, LivesAlive
    <3>2. macrotasks'[k] \in Timer
      BY Tables DEF Alive
    <3>3. DelayOf(c)' = macrotasks'[k].delay
      BY <3>1, Tables, Delays, DelaysNow
    <3> QED BY <3>2, <3>3, TimerFields
  <2>5. \A c \in Callback : due[c] - Passed \in Int
    BY <2>2, <2>3
  <2> QED BY <2>1, <2>4, <2>5 DEF NextDue
<1>5. refreshed' \subseteq Callback /\ cleared' \subseteq Callback
  BY DEF HNext, HistoryType, Refreshed
<1> QED BY <1>2, <1>3, <1>4, <1>5 DEF HistoryType

\* A cancelled entry stays, whatever happens to the others.
LEMMA CancelledStay ==
  ASSUME IInv, IInv', Next
  PROVE  TimerIds \ LiveIds \subseteq TimerIds' \ LiveIds'
<1>1. /\ TimerIds = Ids(macrotasks) /\ TimerIds' = Ids(macrotasks')
      /\ LiveIds = Lives(macrotasks) /\ LiveIds' = Lives(macrotasks')
      /\ Unique(macrotasks) /\ Unique(macrotasks')
  BY Tables, TableNames, TableNamesPrime
<1>2. ASSUME DOMAIN macrotasks' = DOMAIN macrotasks,
             \A i \in DOMAIN macrotasks : /\ macrotasks'[i].id = macrotasks[i].id
                                          /\ macrotasks[i].cancelled => macrotasks'[i].cancelled
      PROVE  TimerIds \ LiveIds \subseteq TimerIds' \ LiveIds'
  <2> SUFFICES ASSUME NEW i \in DOMAIN macrotasks, macrotasks[i].id \notin LiveIds
               PROVE  macrotasks[i].id \in TimerIds' \ LiveIds'
    BY <1>1 DEF Ids
  <2>1. macrotasks[i].cancelled
    BY <1>1 DEF Lives
  <2>2. \A j \in DOMAIN macrotasks : macrotasks'[j].id = macrotasks[i].id => j = i
    BY <1>1, <1>2 DEF Unique
  <2>3. macrotasks[i].id \notin Lives(macrotasks')
    BY <1>2, <2>1, <2>2 DEF Lives
  <2> QED BY <1>1, <1>2, <2>3 DEF Ids
<1>3. \A i \in DOMAIN macrotasks : macrotasks[i] \in Timer
  BY DEF IInv, TypeOK
<1>4. ASSUME NEW c \in Callback, RefreshTimer(c)
      PROVE  TimerIds \ LiveIds \subseteq TimerIds' \ LiveIds'
  <2>1. macrotasks' = refresh_timer(c)
    BY <1>4 DEF RefreshTimer
  <2> QED BY <1>2, <1>3, <2>1 DEF refresh_timer, restarted, Timer
<1>5. ASSUME NEW c \in Callback, ClearTimer(c)
      PROVE  TimerIds \ LiveIds \subseteq TimerIds' \ LiveIds'
  <2>1. macrotasks' = cancel_timer(c)
    BY <1>5 DEF ClearTimer
  <2> QED BY <1>2, <1>3, <2>1 DEF cancel_timer, Timer
<1>6. ASSUME NEW c \in Callback, NEW r \in BOOLEAN, RefTimer(c, r)
      PROVE  TimerIds \ LiveIds \subseteq TimerIds' \ LiveIds'
  <2>1. macrotasks' = set_timer_refed(c, r)
    BY <1>6 DEF RefTimer
  <2> QED BY <1>2, <1>3, <2>1 DEF set_timer_refed, Timer
<1>7. CASE Tick
  BY <1>2, <1>3, <1>7 DEF Tick, Timer
<1>8. ASSUME NEW c \in Callback, NEW n \in Delay \cup {-1}, NEW r \in BOOLEAN, NEW w \in Way,
             Schedule(c, w), AddTimer(c, n, r)
      PROVE  TimerIds \ LiveIds \subseteq TimerIds' \ LiveIds'
  <2> DEFINE t == NewTimer(c, n, r)
  <2>1. t \in Timer /\ t.id = c /\ ~t.cancelled
    BY NewTimerType DEF NewTimer
  <2>2. c \notin TimerIds
    BY <1>8, Free
  <2>3. macrotasks' = Append(macrotasks, t)
    BY <1>8 DEF AddTimer
  <2> HIDE DEF t
  <2>4. TimerIds' = TimerIds \cup {c} /\ LiveIds' = LiveIds \cup {c}
    BY <1>1, <2>1, <2>3, Tables, TablePush
  <2> QED BY <2>2, <2>4
<1>9. CASE FireVirtual \/ FireDue
  <2>1. \/ \E c \in LiveIds : TimerIds' = TimerIds \ {c} /\ LiveIds' = LiveIds \ {c}
        \/ TimerIds' = TimerIds /\ LiveIds' = LiveIds
    BY <1>9, FiredIds
  <2> QED BY <2>1
<1>10. CASE macrotasks' = macrotasks
  BY <1>1, <1>10
<1> QED BY <1>4, <1>5, <1>6, <1>7, <1>8, <1>9, <1>10, TableActions

LEMMA GoneKept ==
  ASSUME IInv, IInv', Next, Gone, cleared' = cleared \cup {c \in Callback : ClearTimer(c)}
  PROVE  Gone'
<1>1. cleared \subseteq TimerIds' \ LiveIds'
  BY CancelledStay DEF Gone
<1>2. ASSUME NEW c \in Callback, ClearTimer(c) PROVE c \in TimerIds' \ LiveIds'
  <2>1. c \in LiveIds /\ macrotasks' = cancel_timer(c)
    BY <1>2 DEF ClearTimer
  <2>2. PICK i \in LiveAt : macrotasks[i].id = c
    BY <2>1 DEF LiveIds
  <2>3. /\ DOMAIN macrotasks' = DOMAIN macrotasks
        /\ \A j \in DOMAIN macrotasks : /\ macrotasks'[j].id = macrotasks[j].id
                                        /\ macrotasks[j].id = c => macrotasks'[j].cancelled
    <3>1. \A j \in DOMAIN macrotasks : macrotasks[j] \in Timer
      BY DEF IInv, TypeOK
    <3> QED BY <2>1, <3>1 DEF cancel_timer, Timer
  <2>4. c \in TimerIds'
    BY <2>2, <2>3 DEF TimerIds, LiveAt
  <2>5. c \notin LiveIds'
    BY <2>3 DEF LiveIds, LiveAt, Live
  <2> QED BY <2>4, <2>5
<1> QED BY <1>1, <1>2 DEF Gone

----------------------------------------------------------------------------
(* What the history says of the two queues of jobs. *)

\* What goes before a job of queue s waits further ahead in it.
Ranked(s, before) == \A i, j \in DOMAIN s : s[i] \in before[s[j]] => i < j

\* While draining_micro is set, no tick goes before a microtask; otherwise no microtask
\* goes before a tick.  It is set where JavaScript is in a microtask round.
Rounds ==
  /\ running # Nobody => (inRound <=> draining_micro)
  /\ phase \in {"report", "turn", "recv"} => ~draining_micro
  /\ \A c \in Callback : ahead[c] \subseteq IF c \in Jobs THEN Jobs ELSE {}
  /\ Ranked(nextticks, ahead) /\ Ranked(microtasks, ahead)
  /\ \A t \in Ticks, m \in Micros : IF draining_micro THEN t \notin ahead[m] ELSE m \notin ahead[t]

\* A step that touches neither queue keeps draining_micro, except where both are empty.
Aside ==
  /\ nextticks' = nextticks /\ microtasks' = microtasks
  /\ \/ Drained
     \/ /\ draining_micro' = draining_micro
        /\ phase' \in {"report", "turn", "recv"} => phase \in {"report", "turn", "recv"}
        /\ running = Nobody /\ running' # Nobody => phase \in {"report", "turn", "recv"}

LEMMA QueueActions ==
  ASSUME Next
  PROVE  (\E c \in Callback : NextTick(c) \/ QueueMicrotask(c)) \/ RunTick \/ RunMicrotask \/ Aside
<1>1. ASSUME NEW c \in Callback,
             \/ QueueIoCallback(c) \/ StartOperation(c) \/ RefreshTimer(c)
             \/ ClearTimer(c) \/ \E r \in BOOLEAN : RefTimer(c, r)
             \/ SetImmediate(c) \/ \E d \in Delay : SetTimeout(c, d) \/ SetInterval(c, d)
      PROVE  Aside
  BY <1>1 DEF QueueIoCallback, StartOperation, RefreshTimer, ClearTimer, RefTimer,
              SetImmediate, SetTimeout, SetInterval, AddTimer, queues, Aside
<1>2. CASE WatchFile \/ UnwatchFile \/ Reject \/ HandleRejection
  BY <1>2 DEF WatchFile, UnwatchFile, Reject, HandleRejection, queues, Aside
<1>3. CASE Return \/ Throw \/ ProcessExit
  BY <1>3 DEF Return, Throw, ProcessExit, InJS, queues, Aside
<1>4. CASE Tick \/ \E c \in Callback : Post(c)
  BY <1>4 DEF Tick, Post, queues, Aside
<1>5. CASE Drained \/ TakeRejections \/ ReportRejection \/ Reported \/ Exit \/ Block \/ ReceiveTimeout
  BY <1>5 DEF Drained, TakeRejections, ReportRejection, Reported, Exit, Block, ReceiveTimeout,
              ClockTurn, At, queues, Aside
<1>6. CASE RunCompletion \/ FireVirtual \/ FireDue \/ Receive
  BY <1>6 DEF RunCompletion, FireVirtual, FireDue, Receive, Run, ClockTurn, At, queues, Aside
<1> QED BY <1>1, <1>2, <1>3, <1>4, <1>5, <1>6 DEF Next, JS, Loop

LEMMA QueueFields ==
  ASSUME IInv
  PROVE  /\ nextticks \in Seq(Callback) /\ microtasks \in Seq(Callback)
         /\ Distinct(nextticks) /\ Distinct(microtasks)
         /\ Ticks \cap Micros = {} /\ Ticks \subseteq Callback /\ Micros \subseteq Callback
         /\ Jobs = Ticks \cup Micros /\ draining_micro \in BOOLEAN
BY InCallback DEF IInv, TypeOK, Placed, Disjoint, Jobs

\* A job is queued by JavaScript.
LEMMA RoundsQueued ==
  ASSUME IInv, IInv', HistoryType, Rounds, HNext, NEW c \in Callback, NextTick(c) \/ QueueMicrotask(c)
  PROVE  Rounds'
<1>1. /\ Schedule(c, "nextTick") \/ Schedule(c, "queueMicrotask")
      /\ running' = running /\ phase' = phase /\ draining_micro' = draining_micro
  BY DEF NextTick, QueueMicrotask
<1>2. running # Nobody /\ c \notin Ticks /\ c \notin Micros
  BY <1>1, Free
<1>3. Started = {} /\ inRound' = inRound
  BY <1>1, <1>2 DEF HNext, Started
<1>4. \/ /\ nextticks' = Append(nextticks, c) /\ microtasks' = microtasks
         /\ Ticks' = Ticks \cup {c} /\ Micros' = Micros
      \/ /\ microtasks' = Append(microtasks, c) /\ nextticks' = nextticks
         /\ Micros' = Micros \cup {c} /\ Ticks' = Ticks
  <2>1. ASSUME NEW q \in Seq(Callback) PROVE Members(Append(q, c)) = Members(q) \cup {c}
    BY MembersOfAppend
  <2>2. CASE NextTick(c)
    BY <2>1, <2>2, QueueFields DEF NextTick, Ticks, Micros
  <2>3. CASE QueueMicrotask(c)
    BY <2>1, <2>3, QueueFields DEF QueueMicrotask, Ticks, Micros
  <2> QED BY <2>2, <2>3
<1>5. Jobs' = Jobs \cup {c} /\ Jobs' \ Jobs = {c} /\ c \notin Jobs /\ Jobs \subseteq Callback
  <2>1. Jobs' = Ticks' \cup Micros' /\ Jobs = Ticks \cup Micros
    BY DEF Jobs
  <2> QED BY <1>2, <1>4, <2>1, InCallback
<1>6. \A d \in Callback :
        ahead'[d] = IF d = c THEN {j \in Jobs : ~GoesBefore(c, j)}
                    ELSE ahead[d] \cup {j \in {c} : d \in Jobs /\ GoesBefore(j, d)}
  <2>1. ahead' = NextAhead
    BY DEF HNext
  <2>2. NextAhead = [d \in Callback |->
          IF d \in {c} THEN {j \in Jobs : ~GoesBefore(d, j)}
          ELSE (ahead[d] \cup {j \in {c} : d \in Jobs /\ GoesBefore(j, d)}) \ {}]
    BY <1>3, <1>5 DEF NextAhead
  <2> QED BY <2>1, <2>2
<1>7. \A d \in Jobs : GoesBefore(c, d) <=>
        IF draining_micro THEN c \in Micros' /\ d \in Ticks ELSE c \in Ticks' /\ d \in Micros
  BY <1>2 DEF GoesBefore, Rounds
<1>8. \A d \in Callback :
        /\ d \in Jobs => ahead[d] \subseteq Jobs /\ c \notin ahead[d]
        /\ d \notin Jobs => ahead[d] = {}
  BY <1>5 DEF Rounds
<1>9. \A d \in Callback : ahead'[d] \subseteq IF d \in Jobs' THEN Jobs' ELSE {}
  BY <1>5, <1>6, <1>8
<1>10. ASSUME NEW s \in Seq(Callback), Members(s) \subseteq Jobs, Ranked(s, ahead),
              \A d \in Members(s) : ~GoesBefore(c, d)
       PROVE  Ranked(Append(s, c), ahead')
  <2>1. DOMAIN Append(s, c) = 1 .. Len(s) + 1 /\ DOMAIN s = 1 .. Len(s) /\ Len(s) \in Nat
    OBVIOUS
  <2>2. (\A i \in DOMAIN s : Append(s, c)[i] = s[i]) /\ Append(s, c)[Len(s) + 1] = c
    OBVIOUS
  <2>3. \A i \in DOMAIN s : s[i] \in Jobs /\ s[i] # c
    BY <1>5, <1>10 DEF Members
  <2>4. \A i \in DOMAIN s : ~GoesBefore(c, s[i])
    BY <1>10 DEF Members
  <2>5. ASSUME NEW i \in DOMAIN s PROVE ahead'[s[i]] = ahead[s[i]]
    <3>1. s[i] \in Callback /\ s[i] # c /\ {j \in {c} : s[i] \in Jobs /\ GoesBefore(j, s[i])} = {}
      BY <1>5, <2>3, <2>4
    <3> QED BY <1>6, <3>1
  <2>6. c \notin ahead'[c]
    BY <1>5, <1>6
  <2>7. \A i \in DOMAIN s : c \notin ahead'[s[i]]
    BY <1>8, <2>3, <2>5
  <2> HIDE DEF Members
  <2> SUFFICES ASSUME NEW i \in 1 .. Len(s) + 1, NEW j \in 1 .. Len(s) + 1,
                      Append(s, c)[i] \in ahead'[Append(s, c)[j]]
               PROVE  i < j
    BY <2>1 DEF Ranked
  <2>8. CASE i \in DOMAIN s /\ j \in DOMAIN s
    BY <1>10, <2>2, <2>5, <2>8 DEF Ranked
  <2>9. CASE i \in DOMAIN s /\ j = Len(s) + 1
    BY <2>1, <2>9
  <2>10. CASE i = Len(s) + 1
    BY <2>1, <2>2, <2>6, <2>7, <2>10
  <2> QED BY <2>1, <2>8, <2>9, <2>10
<1>11. ASSUME NEW s \in Seq(Callback), Members(s) \subseteq Jobs, Ranked(s, ahead)
       PROVE  Ranked(s, ahead')
  <2>1. \A i \in DOMAIN s : s[i] \in Jobs /\ s[i] # c
    BY <1>5, <1>11 DEF Members
  <2>2. \A i, j \in DOMAIN s : s[i] \in ahead'[s[j]] => s[i] \in ahead[s[j]]
    BY <1>5, <1>6, <2>1
  <2> QED BY <1>11, <2>2 DEF Ranked
<1>12. Ranked(nextticks', ahead') /\ Ranked(microtasks', ahead')
  <2>1. /\ nextticks \in Seq(Callback) /\ microtasks \in Seq(Callback)
        /\ Members(nextticks) = Ticks /\ Members(microtasks) = Micros
        /\ Ticks \subseteq Jobs /\ Micros \subseteq Jobs
        /\ Ranked(nextticks, ahead) /\ Ranked(microtasks, ahead)
    BY QueueFields DEF Ticks, Micros, Rounds
  <2>2. CASE nextticks' = Append(nextticks, c) /\ microtasks' = microtasks /\ Ticks' = Ticks \cup {c}
    <3>1. c \in Ticks'
      BY <2>2
    <3>2. nextticks \in Seq(Callback) /\ Members(nextticks) \subseteq Jobs /\ Ranked(nextticks, ahead)
      BY <2>1
    <3>3. \A d \in Members(nextticks) : ~GoesBefore(c, d)
      <4>1. c \notin Micros' /\ Ticks \cap Micros = {}
        BY <1>2, <1>4, <3>1, QueueFields
      <4> QED BY <1>7, <2>1, <4>1
    <3>4. Ranked(Append(nextticks, c), ahead')
      BY <1>10, <3>2, <3>3
    <3>5. Ranked(microtasks, ahead')
      BY <1>11, <2>1
    <3> QED BY <2>2, <3>4, <3>5
  <2>3. CASE microtasks' = Append(microtasks, c) /\ nextticks' = nextticks /\ Micros' = Micros \cup {c}
    <3>1. c \in Micros'
      BY <2>3
    <3>2. microtasks \in Seq(Callback) /\ Members(microtasks) \subseteq Jobs /\ Ranked(microtasks, ahead)
      BY <2>1
    <3>3. \A d \in Members(microtasks) : ~GoesBefore(c, d)
      <4>1. c \notin Ticks' /\ Ticks \cap Micros = {}
        BY <1>2, <1>4, <3>1, QueueFields
      <4> QED BY <1>7, <2>1, <4>1
    <3>4. Ranked(Append(microtasks, c), ahead')
      BY <1>10, <3>2, <3>3
    <3>5. Ranked(nextticks, ahead')
      BY <1>11, <2>1
    <3> QED BY <2>3, <3>4, <3>5
  <2> QED BY <1>4, <2>2, <2>3
<1>13. ASSUME NEW t \in Ticks', NEW m \in Micros'
       PROVE  IF draining_micro THEN t \notin ahead'[m] ELSE m \notin ahead'[t]
  <2>1. \A x \in Ticks, y \in Micros : IF draining_micro THEN x \notin ahead[y] ELSE y \notin ahead[x]
    BY DEF Rounds
  <2>2. t \in Callback /\ m \in Callback /\ Ticks \subseteq Jobs /\ Micros \subseteq Jobs
    BY <1>4, QueueFields
  <2>3. CASE t = c
    <3>1. m \in Micros /\ m # c /\ c \in Ticks'
      BY <1>2, <1>4, <2>3
    <3>2. c \notin Micros'
      BY <1>2, <1>4, <2>3, <3>1
    <3>3. ~draining_micro => GoesBefore(c, m)
      BY <1>7, <2>2, <3>1
    <3>4. draining_micro => ~GoesBefore(c, m)
      BY <1>7, <2>2, <3>1, <3>2
    <3> QED BY <1>6, <1>8, <2>2, <2>3, <3>1, <3>3, <3>4
  <2>4. CASE m = c
    <3>1. t \in Ticks /\ t # c /\ c \in Micros'
      BY <1>2, <1>4, <2>4
    <3>2. c \notin Ticks'
      BY <1>2, <1>4, <2>4, <3>1
    <3>3. draining_micro => GoesBefore(c, t)
      BY <1>7, <2>2, <3>1
    <3>4. ~draining_micro => ~GoesBefore(c, t)
      BY <1>7, <2>2, <3>1, <3>2
    <3> QED BY <1>6, <1>8, <2>2, <2>4, <3>1, <3>3, <3>4
  <2>5. CASE t # c /\ m # c
    <3>1. t \in Ticks /\ m \in Micros
      BY <1>4, <2>5
    <3> QED BY <1>6, <2>1, <2>2, <2>5, <3>1
  <2> QED BY <2>3, <2>4, <2>5
<1>14. running' # Nobody => (inRound' <=> draining_micro')
  BY <1>1, <1>3 DEF Rounds
<1>15. phase' \in {"report", "turn", "recv"} => ~draining_micro'
  BY <1>1 DEF Rounds
<1> QED BY <1>1, <1>9, <1>12, <1>13, <1>14, <1>15 DEF Rounds

LEMMA RankedTail ==
  ASSUME NEW s \in Seq(Callback), s # <<>>, NEW before, NEW after, Ranked(s, before),
         \A c \in Members(s) : after[c] \subseteq before[c]
  PROVE  Ranked(Tail(s), after)
<1>1. DOMAIN s = 1 .. Len(s) /\ DOMAIN Tail(s) = 1 .. Len(s) - 1 /\ Len(s) \in Nat \ {0}
  OBVIOUS
<1>2. \A i \in 1 .. Len(s) - 1 : Tail(s)[i] = s[i + 1]
  BY <1>1
<1> SUFFICES ASSUME NEW i \in 1 .. Len(s) - 1, NEW j \in 1 .. Len(s) - 1, s[i + 1] \in after[s[j + 1]]
             PROVE  i < j
  BY <1>1, <1>2 DEF Ranked
<1>3. i + 1 \in DOMAIN s /\ j + 1 \in DOMAIN s
  BY <1>1
<1>4. s[i + 1] \in before[s[j + 1]]
  BY <1>3 DEF Members
<1>5. i + 1 < j + 1
  BY <1>3, <1>4 DEF Ranked
<1> QED BY <1>5

LEMMA RankedLess ==
  ASSUME NEW s, NEW before, NEW after, Ranked(s, before),
         \A c \in Members(s) : after[c] \subseteq before[c]
  PROVE  Ranked(s, after)
BY DEF Ranked, Members

\* Where no job is queued, what started goes before nothing any more.
LEMMA AheadShrinks ==
  ASSUME HistoryType, HNext, Jobs' \subseteq Jobs
  PROVE  \A c \in Callback : ahead'[c] = ahead[c] \ Started
<1>1. ahead' = NextAhead
  BY DEF HNext
<1>2. NextAhead = [c \in Callback |->
        IF c \in {} THEN {j \in Jobs : ~GoesBefore(c, j)}
        ELSE (ahead[c] \cup {j \in {} : c \in Jobs /\ GoesBefore(j, c)}) \ Started]
  <2>1. Jobs' \ Jobs = {}
    OBVIOUS
  <2> QED BY <2>1 DEF NextAhead
<1> QED BY <1>1, <1>2

\* A job leaves its queue and starts.
LEMMA RoundsTaken ==
  ASSUME IInv, IInv', HistoryType, Rounds, HNext, RunTick \/ RunMicrotask
  PROVE  Rounds' /\ \A c \in Started : ahead[c] \cap Jobs = {}
<1>1. /\ \/ /\ RunTick /\ nextticks # <<>> /\ nextticks' = Tail(nextticks) /\ microtasks' = microtasks
            /\ running' = Head(nextticks) /\ (draining_micro => microtasks = <<>>) /\ draining_micro' = FALSE
         \/ /\ RunMicrotask /\ microtasks # <<>> /\ microtasks' = Tail(microtasks) /\ nextticks' = nextticks
            /\ running' = Head(microtasks) /\ (draining_micro \/ nextticks = <<>>) /\ draining_micro' = TRUE
      /\ running = Nobody /\ phase' = "drain"
  BY DEF RunTick, RunMicrotask, Run, At
<1>2. /\ nextticks # <<>> => Head(nextticks) \in Ticks /\ Ticks = Members(Tail(nextticks)) \cup {Head(nextticks)}
                             /\ Head(nextticks) \notin Members(Tail(nextticks))
      /\ microtasks # <<>> => Head(microtasks) \in Micros /\ Micros = Members(Tail(microtasks)) \cup {Head(microtasks)}
                             /\ Head(microtasks) \notin Members(Tail(microtasks))
  <2>1. ASSUME NEW q \in Seq(Callback), q # <<>>, Distinct(q)
        PROVE  /\ Head(q) \in Members(q) /\ Members(q) = Members(Tail(q)) \cup {Head(q)}
               /\ Head(q) \notin Members(Tail(q))
    BY <2>1, MembersOfTail, DistinctTail
  <2> QED BY <2>1, QueueFields DEF Ticks, Micros
<1>3. PICK d \in Jobs : d = running'
  BY <1>1, <1>2, QueueFields
<1>4. d \in Callback /\ Started = {d}
  <2>1. d \in Callback
    BY <1>3, InCallback
  <2> QED BY <1>1, <1>3, <2>1, CallbackAssumption DEF Started
<1>5. /\ d \in Ticks => nextticks # <<>> /\ nextticks' = Tail(nextticks) /\ d = Head(nextticks)
                        /\ microtasks' = microtasks /\ (draining_micro => microtasks = <<>>) /\ ~draining_micro'
      /\ d \in Micros => microtasks # <<>> /\ microtasks' = Tail(microtasks) /\ d = Head(microtasks)
                         /\ nextticks' = nextticks /\ (draining_micro \/ nextticks = <<>>) /\ draining_micro'
  BY <1>1, <1>2, <1>3, QueueFields
<1>6. d \in Ticks \/ d \in Micros
  BY <1>3, QueueFields
<1>7. /\ d \in Ticks => Ticks' = Ticks \ {d} /\ Micros' = Micros /\ d \notin Micros
      /\ d \in Micros => Micros' = Micros \ {d} /\ Ticks' = Ticks /\ d \notin Ticks
  BY <1>2, <1>5, QueueFields DEF Ticks, Micros
<1>8. Jobs' = Jobs \ {d}
  <2>1. Jobs' = Ticks' \cup Micros' /\ Jobs = Ticks \cup Micros
    BY DEF Jobs
  <2> QED BY <1>6, <1>7, <2>1
<1>9. \A e \in Callback : ahead'[e] = ahead[e] \ {d}
  BY <1>4, <1>8, AheadShrinks
<1>10. inRound' <=> draining_micro'
  BY <1>1, <1>3, <1>4, <1>5, <1>6, <1>7, CallbackAssumption DEF HNext
<1>11. Ranked(nextticks', ahead') /\ Ranked(microtasks', ahead')
  <2>1. /\ nextticks \in Seq(Callback) /\ microtasks \in Seq(Callback)
        /\ Ranked(nextticks, ahead) /\ Ranked(microtasks, ahead)
    BY QueueFields DEF Rounds
  <2>2. \A e \in Ticks \cup Micros : ahead'[e] \subseteq ahead[e]
    BY <1>9, QueueFields
  <2>3. /\ \A e \in Members(nextticks) : ahead'[e] \subseteq ahead[e]
        /\ \A e \in Members(microtasks) : ahead'[e] \subseteq ahead[e]
    BY <2>2 DEF Ticks, Micros
  <2>4. Ranked(nextticks, ahead') /\ Ranked(microtasks, ahead')
    BY <2>1, <2>3, RankedLess
  <2>5. nextticks # <<>> => Ranked(Tail(nextticks), ahead')
    BY <2>1, <2>3, RankedTail
  <2>6. microtasks # <<>> => Ranked(Tail(microtasks), ahead')
    BY <2>1, <2>3, RankedTail
  <2> QED BY <1>5, <1>6, <2>4, <2>5, <2>6
<1>12. \A t \in Ticks', m \in Micros' : IF draining_micro' THEN t \notin ahead'[m] ELSE m \notin ahead'[t]
  <2>1. \A t \in Ticks, m \in Micros : IF draining_micro THEN t \notin ahead[m] ELSE m \notin ahead[t]
    BY DEF Rounds
  <2>2. \A t \in Ticks, m \in Micros : t \in Callback /\ m \in Callback
    BY QueueFields
  <2>3. microtasks = <<>> => Micros = {}
    BY MembersOfEmpty DEF Micros
  <2>4. nextticks = <<>> => Ticks = {}
    BY MembersOfEmpty DEF Ticks
  <2> QED BY <1>5, <1>6, <1>7, <1>9, <2>1, <2>2, <2>3, <2>4
<1>13. ahead[d] \cap Jobs = {}
  <2>1. ASSUME NEW s \in Seq(Callback), s # <<>>, d = Head(s), Ranked(s, ahead)
        PROVE  ahead[d] \cap Members(s) = {}
    <3>1. 1 \in DOMAIN s /\ s[1] = d /\ DOMAIN s = 1 .. Len(s)
      BY <2>1
    <3>2. \A i \in DOMAIN s : s[i] \notin ahead[d]
      BY <2>1, <3>1 DEF Ranked
    <3> QED BY <3>2 DEF Members
  <2>2. /\ nextticks \in Seq(Callback) /\ microtasks \in Seq(Callback)
        /\ Ranked(nextticks, ahead) /\ Ranked(microtasks, ahead)
        /\ \A t \in Ticks, m \in Micros : IF draining_micro THEN t \notin ahead[m] ELSE m \notin ahead[t]
    BY QueueFields DEF Rounds
  <2>3. CASE d \in Ticks
    <3>1. ahead[d] \cap Ticks = {}
      BY <1>5, <2>1, <2>2, <2>3 DEF Ticks
    <3>2. ahead[d] \cap Micros = {}
      BY <1>5, <2>2, <2>3, MembersOfEmpty DEF Micros
    <3> QED BY <3>1, <3>2 DEF Jobs
  <2>4. CASE d \in Micros
    <3>1. ahead[d] \cap Micros = {}
      BY <1>5, <2>1, <2>2, <2>4 DEF Micros
    <3>2. ahead[d] \cap Ticks = {}
      BY <1>5, <2>2, <2>4, MembersOfEmpty DEF Ticks
    <3> QED BY <3>1, <3>2 DEF Jobs
  <2> QED BY <1>6, <2>3, <2>4
<1>14. \A e \in Callback : ahead'[e] \subseteq IF e \in Jobs' THEN Jobs' ELSE {}
  <2>1. \A e \in Callback : ahead[e] \subseteq IF e \in Jobs THEN Jobs ELSE {}
    BY DEF Rounds
  <2> QED BY <1>8, <1>9, <1>13, <2>1
<1> QED BY <1>1, <1>4, <1>10, <1>11, <1>12, <1>13, <1>14 DEF Rounds

\* Anything else starts from the report, the turn or the channel, where draining_micro
\* is reset, and is no job.
LEMMA RoundsAside ==
  ASSUME IInv, HistoryType, Rounds, HNext, Aside, ~RunTick, ~RunMicrotask
  PROVE  Rounds' /\ \A c \in Started : ahead[c] \cap Jobs = {}
<1>1. nextticks' = nextticks /\ microtasks' = microtasks
  BY DEF Aside
<1>2. Ticks' = Ticks /\ Micros' = Micros /\ Jobs' = Jobs
  BY <1>1 DEF Ticks, Micros, Jobs
<1>3. \A e \in Callback : ahead'[e] \subseteq ahead[e]
  BY <1>2, AheadShrinks
<1>4. \A e \in Callback : ahead'[e] \subseteq IF e \in Jobs' THEN Jobs' ELSE {}
  BY <1>2, <1>3 DEF Rounds
<1>5. Ranked(nextticks', ahead') /\ Ranked(microtasks', ahead')
  <2>1. \A e \in Members(nextticks) \cup Members(microtasks) : ahead'[e] \subseteq ahead[e]
    BY <1>3, QueueFields DEF Ticks, Micros
  <2>2. Ranked(nextticks, ahead) /\ Ranked(microtasks, ahead)
    BY DEF Rounds
  <2>3. Ranked(nextticks, ahead') /\ Ranked(microtasks, ahead')
    BY <2>1, <2>2, RankedLess
  <2> QED BY <1>1, <2>3
<1>6. \A c \in Started : c \notin Jobs
  <2>1. Disjoint(Ticks, Micros, Completions, TimerIds, threads, Posted)
    BY DEF IInv, Placed
  <2>2. \A c \in Started : c \in Completions \cup LiveIds \cup Posted
    BY Starting DEF HNext
  <2> QED BY <2>1, <2>2, InCallback DEF Disjoint, Jobs
<1>7. \A c \in Started : ahead[c] \cap Jobs = {}
  <2>1. Started \subseteq Callback
    BY DEF Started
  <2> QED BY <1>6, <2>1 DEF Rounds
<1>8. CASE Drained
  <2>1. Ticks = {} /\ Micros = {} /\ ~draining_micro' /\ running' = Nobody
    BY <1>8, MembersOfEmpty DEF Drained, At, Ticks, Micros
  <2> QED BY <1>2, <1>4, <1>5, <1>7, <2>1 DEF Rounds
<1>9. CASE ~Drained
  <2>1. /\ draining_micro' = draining_micro
        /\ phase' \in {"report", "turn", "recv"} => phase \in {"report", "turn", "recv"}
        /\ running = Nobody /\ running' # Nobody => phase \in {"report", "turn", "recv"}
    BY <1>9 DEF Aside
  <2>2. phase' \in {"report", "turn", "recv"} => ~draining_micro'
    BY <2>1 DEF Rounds
  <2>3. \A t \in Ticks', m \in Micros' : IF draining_micro' THEN t \notin ahead'[m] ELSE m \notin ahead'[t]
    <3>1. \A t \in Ticks, m \in Micros : IF draining_micro THEN t \notin ahead[m] ELSE m \notin ahead[t]
      BY DEF Rounds
    <3> QED BY <1>2, <1>3, <2>1, <3>1, QueueFields
  <2>4. running' # Nobody => (inRound' <=> draining_micro')
    <3>1. CASE running = Nobody /\ running' # Nobody
      <4>1. inRound' = (running' \in Micros)
        BY <3>1 DEF HNext
      <4>2. running' \notin Micros
        BY <1>6, <3>1, QueueFields DEF Started
      <4> QED BY <2>1, <3>1, <4>1, <4>2 DEF Rounds
    <3>2. CASE running # Nobody /\ running' # Nobody
      BY <2>1, <3>2 DEF HNext, Rounds
    <3> QED BY <3>1, <3>2
  <2> QED BY <1>4, <1>5, <1>7, <2>2, <2>3, <2>4 DEF Rounds
<1> QED BY <1>8, <1>9

----------------------------------------------------------------------------
(* The history over a run. *)

LEMMA HistoryInit == HInit => IInv /\ TimersInv /\ Rounds
<1> SUFFICES ASSUME HInit PROVE IInv /\ TimersInv /\ Rounds
  OBVIOUS
<1>1. IInv
  BY InitInv DEF HInit
<1>2. macrotasks = <<>> /\ nextticks = <<>> /\ microtasks = <<>> /\ ~draining_micro /\ ~inRound
  BY DEF HInit, Init
<1>3. LiveAt = {}
  BY <1>2 DEF LiveAt
<1>4. HistoryType /\ Gone
  BY DEF HInit, HistoryType, Gone
<1>5. Recent /\ Behind /\ DueKept
  BY <1>3 DEF Recent, Behind, DueKept
<1>6. Ticks = {} /\ Micros = {}
  BY <1>2, MembersOfEmpty DEF Ticks, Micros
<1>7. Ranked(nextticks, ahead) /\ Ranked(microtasks, ahead)
  BY <1>2 DEF Ranked
<1>8. Rounds
  BY <1>2, <1>6, <1>7 DEF HInit, Rounds, Jobs
<1> QED BY <1>1, <1>4, <1>5, <1>8 DEF TimersInv

LEMMA HistoryStill ==
  ASSUME UNCHANGED hvars
  PROVE  (TimersInv => TimersInv') /\ (Rounds => Rounds')
<1>1. /\ macrotasks' = macrotasks /\ nextticks' = nextticks /\ microtasks' = microtasks
      /\ draining_micro' = draining_micro /\ running' = running /\ phase' = phase
      /\ inRound' = inRound /\ ahead' = ahead /\ waits' = waits /\ refreshed' = refreshed
      /\ cleared' = cleared /\ due' = due /\ switched' = switched
  BY DEF hvars, history, vars, queues
<1>2. LiveAt' = LiveAt /\ LiveIds' = LiveIds /\ TimerIds' = TimerIds
      /\ Ticks' = Ticks /\ Micros' = Micros /\ Jobs' = Jobs
  BY <1>1 DEF LiveAt, Live, LiveIds, TimerIds, Ticks, Micros, Jobs
<1>3. HistoryType' = HistoryType /\ Recent' = Recent /\ Behind' = Behind /\ Gone' = Gone /\ DueKept' = DueKept
  BY <1>1, <1>2 DEF HistoryType, Recent, Behind, Gone, DueKept
<1>4. Rounds => Rounds'
  BY <1>1, <1>2 DEF Rounds
<1> QED BY <1>3, <1>4 DEF TimersInv

LEMMA HistoryKeeps == IInv /\ TimersInv /\ [HNext]_hvars => IInv' /\ TimersInv'
<1> SUFFICES ASSUME IInv, TimersInv, [HNext]_hvars PROVE IInv' /\ TimersInv'
  OBVIOUS
<1>1. [Next]_vars
  BY DEF HNext, hvars
<1>2. IInv'
  BY <1>1, StepInv
<1>3. CASE HNext
  <2>1. /\ Next /\ waits' = NextWaits /\ refreshed' = (refreshed \cup Refreshed) \ Started
        /\ cleared' = cleared \cup {c \in Callback : ClearTimer(c)}
        /\ due' = NextDue /\ switched' = (switched \/ (Fired # {} /\ ~virtual_clock))
    BY <1>3 DEF HNext
  <2>2. HistoryType /\ Recent /\ Behind /\ Gone /\ DueKept
    BY DEF TimersInv
  <2>3. PICK a \in Nat, b \in Nat : Leads(a, b)
    BY <1>2, <2>1, TurnLeads
  <2>4. HistoryType'
    BY <1>2, <1>3, <2>2, <2>3, HistoryTypeKept DEF Leads
  <2>5. Recent'
    BY <1>2, <2>2, <2>3, RecentKept
  <2>6. Behind'
    BY <1>2, <2>1, <2>2, <2>3, <2>5, BehindKept
  <2>7. Gone'
    BY <1>2, <2>1, <2>2, GoneKept
  <2>8. DueKept'
    BY <1>2, <2>1, <2>2, <2>3, DueKeptNext
  <2> QED BY <1>2, <2>4, <2>5, <2>6, <2>7, <2>8 DEF TimersInv
<1>4. CASE UNCHANGED hvars
  BY <1>2, <1>4, HistoryStill
<1> QED BY <1>3, <1>4

LEMMA RoundsKeep ==
  ASSUME IInv, TimersInv, Rounds, HNext
  PROVE  Rounds' /\ \A c \in Started : ahead[c] \cap Jobs = {}
<1>1. Next /\ HistoryType
  BY DEF HNext, TimersInv
<1>2. IInv'
  BY <1>1, StepInv
<1>3. CASE \E c \in Callback : NextTick(c) \/ QueueMicrotask(c)
  <2>1. PICK c \in Callback : NextTick(c) \/ QueueMicrotask(c)
    BY <1>3
  <2>2. running' = running
    BY <2>1 DEF NextTick, QueueMicrotask
  <2>3. Started = {}
    BY <2>2 DEF Started
  <2> QED BY <1>1, <1>2, <2>1, <2>3, RoundsQueued
<1>4. CASE RunTick \/ RunMicrotask
  BY <1>1, <1>2, <1>4, RoundsTaken
<1>5. CASE Aside /\ ~RunTick /\ ~RunMicrotask
  BY <1>1, <1>5, RoundsAside
<1> QED BY <1>1, <1>3, <1>4, <1>5, QueueActions

\* How a pending timer starts: it is the one its clock turns to.
LEMMA TimerStarts ==
  ASSUME IInv, TimersInv, HNext, NEW c \in Started \cap LiveIds, NEW x \in LiveIds
  PROVE  \E i, k \in LiveAt :
           /\ c = macrotasks[i].id /\ x = macrotasks[k].id
           /\ macrotasks[i].deadline \in Int /\ macrotasks[i].vdeadline \in Int
           /\ macrotasks[k].deadline \in Int /\ macrotasks[k].vdeadline \in Int
           /\ (virtual_clock /\ IsNextTimer(i)) \/ (~virtual_clock /\ IsDueTimer(i))
<1>1. Next /\ refreshed' = (refreshed \cup Refreshed) \ Started
  BY DEF HNext
<1>2. IInv'
  BY <1>1, StepInv
<1>3. PICK a \in Nat, b \in Nat : Leads(a, b)
  BY <1>1, <1>2, TurnLeads
<1>4. c \in TimerIds
  BY InCallback
<1>5. PICK i \in LiveAt :
        /\ Started = {macrotasks[i].id}
        /\ (virtual_clock /\ IsNextTimer(i)) \/ (~virtual_clock /\ IsDueTimer(i))
  BY <1>3, <1>4 DEF Leads
<1>6. PICK k \in LiveAt : x = macrotasks[k].id
  BY DEF LiveIds
<1>7. \A j \in LiveAt : macrotasks[j].deadline \in Int /\ macrotasks[j].vdeadline \in Int
  BY Entries
<1> QED BY <1>5, <1>6, <1>7

----------------------------------------------------------------------------
\* Ticks and microtasks run in node's rounds, whatever else runs between, listeners at
\* the checkpoint included: draining_micro says which queue goes first, and in each queue
\* what goes before a job stands ahead of it.
THEOREM RoundOrderCorrect == HSpec => RoundOrder
<1> DEFINE InTurn == \A c \in Started : ahead[c] \cap Jobs = {}
<1>1. HInit => IInv /\ TimersInv /\ Rounds
  BY HistoryInit
<1>2. IInv /\ TimersInv /\ Rounds /\ [HNext]_hvars => IInv' /\ TimersInv' /\ Rounds' /\ [InTurn]_hvars
  <2> SUFFICES ASSUME IInv, TimersInv, Rounds, [HNext]_hvars
               PROVE  IInv' /\ TimersInv' /\ Rounds' /\ [InTurn]_hvars
    OBVIOUS
  <2>1. IInv' /\ TimersInv'
    BY HistoryKeeps
  <2>2. CASE HNext
    BY <2>1, <2>2, RoundsKeep
  <2>3. CASE UNCHANGED hvars
    BY <2>1, <2>3, HistoryStill
  <2> QED BY <2>2, <2>3
<1> QED BY <1>1, <1>2, PTL DEF HSpec, RoundOrder

\* A timer set later with at least as long a delay never fires first, on either clock,
\* whatever is refreshed, cleared or fired between: a timer another one waits for stays
\* ahead of it in the table, with both its deadlines no later.
THEOREM NoOvertakingCorrect == HSpec => NoOvertaking
<1> DEFINE InOrder == \A c \in Started \cap LiveIds : c \notin refreshed => waits[c] \cap LiveIds = {}
<1>1. HInit => IInv /\ TimersInv
  BY HistoryInit
<1>2. IInv /\ TimersInv /\ [HNext]_hvars => IInv' /\ TimersInv'
  BY HistoryKeeps
<1>3. IInv /\ TimersInv /\ [HNext]_hvars => [InOrder]_hvars
  <2> SUFFICES ASSUME IInv, TimersInv, HNext, NEW c \in Started \cap LiveIds, c \notin refreshed,
                      NEW x \in waits[c] \cap LiveIds
               PROVE  FALSE
    OBVIOUS
  <2>1. PICK i \in LiveAt, k \in LiveAt :
          /\ c = macrotasks[i].id /\ x = macrotasks[k].id
          /\ macrotasks[i].deadline \in Int /\ macrotasks[i].vdeadline \in Int
          /\ macrotasks[k].deadline \in Int /\ macrotasks[k].vdeadline \in Int
          /\ (virtual_clock /\ IsNextTimer(i)) \/ (~virtual_clock /\ IsDueTimer(i))
    BY TimerStarts
  <2>2. Sooner(macrotasks, k, i)
    BY <2>1 DEF TimersInv, Behind
  <2>3. i \in Int /\ k \in Int
    <3>1. macrotasks \in Seq(Timer)
      BY DEF IInv, TypeOK
    <3>2. DOMAIN macrotasks = 1 .. Len(macrotasks) /\ Len(macrotasks) \in Nat
      BY <3>1
    <3>3. LiveAt \subseteq DOMAIN macrotasks
      BY DEF LiveAt
    <3> QED BY <3>2, <3>3
  <2>4. ~IsNextTimer(i)
    BY <2>1, <2>2, <2>3 DEF IsNextTimer, Sooner
  <2>5. ~IsDueTimer(i)
    BY <2>1, <2>2, <2>3 DEF IsDueTimer, Due, Sooner
  <2> QED BY <2>1, <2>4, <2>5
<1> QED BY <1>1, <1>2, <1>3, PTL DEF HSpec, NoOvertaking

\* A cleared callback does not run: what starts is a live timer or none of the table,
\* and the entry of a cleared one stays in the table, cancelled.
THEOREM ClearedTimersCorrect == HSpec => ClearedTimersStayClear
<1> DEFINE Clear == Started \cap cleared = {}
<1>1. HInit => IInv /\ TimersInv
  BY HistoryInit
<1>2. IInv /\ TimersInv /\ [HNext]_hvars => IInv' /\ TimersInv'
  BY HistoryKeeps
<1>3. IInv /\ TimersInv /\ [HNext]_hvars => [Clear]_hvars
  <2> SUFFICES ASSUME IInv, TimersInv, HNext PROVE Clear
    OBVIOUS
  <2>1. Next /\ refreshed' = (refreshed \cup Refreshed) \ Started
    BY DEF HNext
  <2>2. IInv'
    BY <2>1, StepInv
  <2>3. PICK a \in Nat, b \in Nat : Leads(a, b)
    BY <2>1, <2>2, TurnLeads
  <2>4. Started \cap TimerIds = {} \/ Started \subseteq LiveIds
    BY <2>3 DEF Leads, LiveIds
  <2> QED BY <2>4 DEF TimersInv, Gone
<1> QED BY <1>1, <1>2, <1>3, PTL DEF HSpec, ClearedTimersStayClear

\* The virtual clock fires timers by the documented deadline until one has fired on the
\* real clock: until then that deadline is the one the loop keeps.
THEOREM VirtualClockOrderCorrect == HSpec => VirtualClockOrder
<1> DEFINE ByDue == virtual_clock /\ ~switched => \A c \in Fired, x \in LiveIds : due[c] <= due[x]
<1>1. HInit => IInv /\ TimersInv
  BY HistoryInit
<1>2. IInv /\ TimersInv /\ [HNext]_hvars => IInv' /\ TimersInv'
  BY HistoryKeeps
<1>3. IInv /\ TimersInv /\ [HNext]_hvars => [ByDue]_hvars
  <2> SUFFICES ASSUME IInv, TimersInv, HNext, virtual_clock, ~switched,
                      NEW c \in Started \cap LiveIds, NEW x \in LiveIds
               PROVE  due[c] <= due[x]
    BY DEF Fired
  <2>1. PICK i \in LiveAt, k \in LiveAt :
          /\ c = macrotasks[i].id /\ x = macrotasks[k].id
          /\ macrotasks[i].deadline \in Int /\ macrotasks[i].vdeadline \in Int
          /\ macrotasks[k].deadline \in Int /\ macrotasks[k].vdeadline \in Int
          /\ (virtual_clock /\ IsNextTimer(i)) \/ (~virtual_clock /\ IsDueTimer(i))
    BY TimerStarts
  <2>2. due[c] = macrotasks[i].vdeadline /\ due[x] = macrotasks[k].vdeadline
    BY <2>1 DEF TimersInv, DueKept
  <2> QED BY <2>1, <2>2 DEF IsNextTimer
<1> QED BY <1>1, <1>2, <1>3, PTL DEF HSpec, VirtualClockOrder
=============================================================================
