---------------------------- MODULE ProcessProofs ----------------------------
(* Theorems about how a process starts and how it ends, for every value of *)
(* the constants: the bytecode cache that main reads before the program    *)
(* runs and flushes after it, and the life of the process in between.      *)
EXTENDS Lifecycle, BytecodeCache, SequenceTheorems, TLAPS

----------------------------------------------------------------------------
(* Lifecycle. *)

(* The inductive invariant.  An exit listener on the stack is the innermost *)
(* callback and exiting says so; callbacks run only at the places that wait *)
(* for them; and until a promise is rejected no microtask is left when the  *)
(* loop takes its turn, nor anything when it ends.                          *)

Latched == \A i \in 1 .. Len(stack) : stack[i].event = "exit" => i = Len(stack) /\ exiting
Waiting == at \in {"drain", "check", "more", "handlers", "exited", "failed"} \/ Idle
Quiet ==
  ~rejected =>
    /\ rejections = 0 /\ listed = 0 /\ origin = "uncaughtException"
    /\ at = "check" => Idle
    /\ at \in {"check", "turn"} => micro = 0
    /\ at = "closing" => ~Alive
    /\ at \in {"settle", "exiting"} => ~Alive \/ rounds = MaxRounds
Said ==
  /\ said # None => exit_code = said
  /\ at = "left" => status = exit_code \/ exit_code = None \/ fatal_handler_failed

USE DEF unhandled

IInv == TypeOK /\ Latched /\ Waiting /\ Quiet /\ Said

----------------------------------------------------------------------------
LEMMA Appended ==
  ASSUME NEW S, NEW s \in Seq(S), NEW x \in S
  PROVE  /\ Append(s, x) \in Seq(S) /\ Len(Append(s, x)) = Len(s) + 1 /\ Len(s) \in Nat
         /\ \A i \in 1 .. Len(s) : Append(s, x)[i] = s[i]
         /\ Append(s, x)[Len(s) + 1] = x
  OBVIOUS

LEMMA Popped ==
  ASSUME NEW S, NEW s \in Seq(S), s # <<>>
  PROVE  /\ SubSeq(s, 1, Len(s) - 1) \in Seq(S) /\ Len(s) \in Nat \ {0} /\ s[Len(s)] \in S
         /\ Len(SubSeq(s, 1, Len(s) - 1)) = Len(s) - 1
         /\ \A i \in 1 .. Len(s) - 1 : SubSeq(s, 1, Len(s) - 1)[i] = s[i]
<1>1. Len(s) \in Nat \ {0} /\ \A i \in 1 .. Len(s) : s[i] \in S
  OBVIOUS
<1> DEFINE n == Len(s) - 1
<1>2. n \in Nat /\ \A i \in 1 .. n : s[i] \in S
  BY <1>1
<1> HIDE DEF n
<1>3. /\ SubSeq(s, 1, n) \in Seq(S) /\ Len(SubSeq(s, 1, n)) = (IF 1 <= n THEN n - 1 + 1 ELSE 0)
      /\ \A i \in 1 .. n - 1 + 1 : SubSeq(s, 1, n)[i] = s[1 + i - 1]
  BY <1>2, SubSeqProperties
<1>4. Len(SubSeq(s, 1, n)) = n /\ \A i \in 1 .. n : SubSeq(s, 1, n)[i] = s[i]
  BY <1>2, <1>3
<1> QED BY <1>1, <1>3, <1>4 DEF n

(* Calling the listeners of an event pushes one callback. *)
LEMMA CallFields ==
  ASSUME TypeOK, NEW e \in ProcessEvents, NEW s \in Seq(Frame), Listened(e), Call(e, s)
  PROVE  /\ stack' \in Seq(Frame) /\ Len(stack') = Len(s) + 1 /\ Len(s) \in Nat
         /\ stack'[Len(s) + 1].event = e
         /\ \A i \in 1 .. Len(s) : stack'[i] = s[i]
         /\ listeners' \in [ProcessEvents -> [on : Nat, once : Nat]]
<1> DEFINE f == [event |-> e, left |-> Count(e) - 1]
<1>1. Count(e) - 1 \in Nat
  BY DEF TypeOK, Listened, Count
<1>2. f \in Frame /\ f.event = e
  BY <1>1 DEF Frame
<1>3. listeners' \in [ProcessEvents -> [on : Nat, once : Nat]]
  BY DEF Call, TypeOK
<1>4. stack' = Append(s, f)
  BY DEF Call
<1> HIDE DEF f
<1> QED BY <1>2, <1>3, <1>4, Appended

(* A callback of the event on an empty stack. *)
LEMMA CallIdle ==
  ASSUME TypeOK, Idle, NEW e \in ProcessEvents, Listened(e), Call(e, stack)
  PROVE  /\ stack' \in Seq(Frame) /\ Len(stack') = 1 /\ stack'[1].event = e
         /\ listeners' \in [ProcessEvents -> [on : Nat, once : Nat]]
<1>1. stack \in Seq(Frame) /\ Len(stack) = 0
  BY DEF TypeOK, Idle
<1>2. /\ stack' \in Seq(Frame) /\ Len(stack') = Len(stack) + 1
      /\ stack'[Len(stack) + 1].event = e
      /\ listeners' \in [ProcessEvents -> [on : Nat, once : Nat]]
  BY <1>1, CallFields
<1> QED BY <1>1, <1>2

----------------------------------------------------------------------------
(* The actions. *)

LEMMA Initially == Init => IInv
<1> SUFFICES ASSUME Init PROVE IInv
  OBVIOUS
<1>1. stack \in Seq(Frame) /\ Len(stack) = 1 /\ stack[1].event = "script"
  BY DEF Init, Frame
<1>2. TypeOK
  <2>1. listeners \in [ProcessEvents -> [on : Nat, once : Nat]]
    BY DEF Init
  <2>2. rounds \in 0 .. MaxRounds /\ calls \in 0 .. MaxCalls
    BY LifecycleAssumption DEF Init
  <2>3. exit_code \in Int /\ status \in Int /\ said \in Int
    BY DEF Init, None
  <2> QED BY <1>1, <2>1, <2>2, <2>3 DEF Init, TypeOK, Places
<1> QED BY <1>1, <1>2 DEF Init, IInv, Latched, Waiting, Quiet, Said, None, Idle

LEMMA CodesAreIntegers == Codes \cup {None} \subseteq Int
  BY LifecycleAssumption DEF None

(* What a callback does to the process. *)
LEMMA CallbackStep ==
  ASSUME IInv,
         \/ \E e \in Events, k \in {"on", "once"} : On(e, k) \/ Off(e, k)
         \/ QueueMicrotask \/ SetTimeout \/ Reject \/ SettleEntry
         \/ \E c \in Codes \cup {None} : set_exit_code(c)
  PROVE  IInv'
<1>1. ~Idle /\ Elsewhere /\ calls' \in 0 .. MaxCalls
  BY LifecycleAssumption DEF On, Off, QueueMicrotask, SetTimeout, Reject, SettleEntry, set_exit_code,
    InCallback, IInv, TypeOK
<1>2. at \in {"drain", "check", "more", "handlers", "exited", "failed"} /\ UNCHANGED <<at, stack>>
  BY <1>1 DEF IInv, Waiting, Elsewhere
<1>3. TypeOK'
  <2>1. listeners' \in [ProcessEvents -> [on : Nat, once : Nat]]
    <3>1. ASSUME NEW e \in Events, NEW k \in {"on", "once"}, On(e, k)
          PROVE  listeners' \in [ProcessEvents -> [on : Nat, once : Nat]]
      <4>1. [listeners[e] EXCEPT ![k] = @ + 1] \in [on : Nat, once : Nat]
        BY LifecycleAssumption DEF IInv, TypeOK
      <4> QED BY <3>1, <4>1, LifecycleAssumption DEF On, IInv, TypeOK
    <3>2. ASSUME NEW e \in Events, NEW k \in {"on", "once"}, Off(e, k)
          PROVE  listeners' \in [ProcessEvents -> [on : Nat, once : Nat]]
      <4>1. listeners[e][k] > 0 /\ listeners[e] \in [on : Nat, once : Nat]
        BY <3>2, LifecycleAssumption DEF Off, IInv, TypeOK
      <4>2. [listeners[e] EXCEPT ![k] = @ - 1] \in [on : Nat, once : Nat]
        BY <4>1
      <4> QED BY <3>2, <4>2, LifecycleAssumption DEF Off, IInv, TypeOK
    <3> QED BY <3>1, <3>2 DEF QueueMicrotask, SetTimeout, Reject, SettleEntry, set_exit_code, IInv, TypeOK
  <2>2. /\ micro' \in Nat /\ macro' \in Nat
        /\ rejections' \in Nat /\ rejected' \in BOOLEAN /\ unsettled' \in BOOLEAN
    <3>1. CASE \E e \in Events, k \in {"on", "once"} : On(e, k) \/ Off(e, k)
      BY <3>1 DEF On, Off, IInv, TypeOK
    <3>2. CASE QueueMicrotask \/ SetTimeout
      BY <3>2 DEF QueueMicrotask, SetTimeout, IInv, TypeOK
    <3>4. CASE Reject
      BY <3>4 DEF Reject, IInv, TypeOK
    <3>3. CASE SettleEntry \/ \E c \in Codes \cup {None} : set_exit_code(c)
      BY <3>3 DEF SettleEntry, set_exit_code, IInv, TypeOK
    <3> QED BY <1>1, <3>1, <3>2, <3>3, <3>4
  <2>3. exit_code' \in Int /\ said' \in Int
    BY CodesAreIntegers
       DEF On, Off, QueueMicrotask, SetTimeout, Reject, SettleEntry, set_exit_code, IInv, TypeOK
  <2> QED BY <1>1, <2>1, <2>2, <2>3 DEF Elsewhere, IInv, TypeOK
<1>4. Latched'
  BY <1>1, <1>2 DEF IInv, Latched, Elsewhere
<1>5. Waiting'
  BY <1>1, <1>2 DEF Waiting, Elsewhere
<1>6. Quiet'
  <2>1. ~rejected' => ~rejected /\ rejections' = 0 /\ listed' = 0 /\ at # "check"
    BY <1>1, <1>2
       DEF On, Off, QueueMicrotask, SetTimeout, Reject, SettleEntry, set_exit_code, Elsewhere,
           IInv, Quiet, TypeOK
  <2> QED BY <1>1, <1>2, <2>1 DEF Elsewhere, IInv, Quiet, Idle
<1>7. Said'
  BY <1>1, <1>2 DEF On, Off, QueueMicrotask, SetTimeout, Reject, SettleEntry, set_exit_code,
    Elsewhere, IInv, Said
<1> QED BY <1>3, <1>4, <1>5, <1>6, <1>7 DEF IInv

LEMMA ExitStep == ASSUME IInv, NEW c \in Codes \cup {None}, Exit(c) PROVE IInv'
<1>1. /\ exit_code' \in Int /\ said' \in Int
      /\ said' # None => exit_code' = said'
      /\ exiting' = TRUE
      /\ UNCHANGED <<micro, macro, unhandled, listed, origin, fatal_handler_failed, unsettled,
                     rounds, calls>>
  BY CodesAreIntegers DEF Exit, IInv, TypeOK, Said
<1>2. ~Idle /\ stack \in Seq(Frame) /\ Len(stack) \in Nat
  BY DEF Exit, IInv, TypeOK
<1>3. CASE Leave(0) /\ UNCHANGED listeners
  <2>1. /\ at' = "left" /\ stack' = <<>> /\ stack' \in Seq(Frame) /\ Len(stack') = 0
        /\ status' \in Int
        /\ status' = exit_code' \/ exit_code' = None
    BY <1>1, <1>3 DEF Leave
  <2>2. TypeOK'
    BY <1>1, <1>3, <2>1 DEF IInv, TypeOK, Places
  <2> QED BY <1>1, <2>1, <2>2 DEF IInv, Latched, Waiting, Quiet, Said, Idle
<1>4. CASE ~exiting /\ Listened("exit") /\ Call("exit", stack) /\ UNCHANGED <<at, status>>
  <2>1. /\ stack' \in Seq(Frame) /\ Len(stack') = Len(stack) + 1
        /\ stack'[Len(stack) + 1].event = "exit"
        /\ \A i \in 1 .. Len(stack) : stack'[i] = stack[i]
        /\ listeners' \in [ProcessEvents -> [on : Nat, once : Nat]]
    BY <1>2, <1>4, CallFields DEF IInv, ProcessEvents
  <2>2. TypeOK'
    BY <1>1, <1>4, <2>1 DEF IInv, TypeOK
  <2>3. Latched'
    <3>1. Len(stack) \in Nat /\ exiting' /\ \A i \in 1 .. Len(stack) : stack[i].event # "exit"
      BY <1>1, <1>2, <1>4 DEF IInv, Latched
    <3>2. \A i \in 1 .. Len(stack) + 1 : i \in 1 .. Len(stack) \/ i = Len(stack) + 1
      BY <3>1
    <3> QED BY <2>1, <3>1, <3>2 DEF Latched
  <2>4. at \in {"drain", "check", "more", "handlers", "exited", "failed"}
    BY <1>2 DEF IInv, Waiting
  <2> QED BY <1>1, <1>2, <1>4, <2>2, <2>3, <2>4 DEF IInv, Waiting, Quiet, Said
<1> QED BY <1>3, <1>4 DEF Exit

LEMMA ReturnStep == ASSUME IInv, Return PROVE IInv'
<1>1. UNCHANGED <<listeners, micro, macro, unhandled, listed, origin, exiting,
                  fatal_handler_failed, unsettled, rounds, calls, said, exit_code>>
  BY DEF Return
<1>2. /\ stack \in Seq(Frame) /\ stack # <<>> /\ Len(stack) \in Nat \ {0} /\ Top \in Frame
      /\ Below \in Seq(Frame) /\ Len(Below) = Len(stack) - 1
      /\ \A i \in 1 .. Len(stack) - 1 : Below[i] = stack[i]
  BY Popped DEF Return, Idle, Top, Below, IInv, TypeOK
<1>3. at \in {"drain", "check", "more", "handlers", "exited", "failed"}
  BY <1>2 DEF IInv, Waiting, Idle
<1>4. CASE Top.left > 0 /\ stack' = Append(Below, [Top EXCEPT !.left = @ - 1])
           /\ UNCHANGED <<at, status>>
  <2> DEFINE f == [Top EXCEPT !.left = @ - 1]
  <2>1. f \in Frame /\ f.event = Top.event
    <3>1. \A t \in Frame : t.left > 0 =>
            [t EXCEPT !.left = @ - 1] \in Frame /\ [t EXCEPT !.left = @ - 1].event = t.event
      BY DEF Frame
    <3> QED BY <1>2, <1>4, <3>1
  <2>2. stack' = Append(Below, f)
    BY <1>4
  <2> HIDE DEF f
  <2>3. /\ stack' \in Seq(Frame) /\ Len(stack') = Len(stack)
        /\ stack'[Len(stack)].event = Top.event
        /\ \A i \in 1 .. Len(stack) - 1 : stack'[i] = stack[i]
    BY <1>2, <2>1, <2>2, Appended
  <2>4. TypeOK'
    BY <1>1, <1>4, <2>3 DEF IInv, TypeOK
  <2>5. Latched'
    BY <1>1, <1>2, <2>3 DEF IInv, Latched, Top
  <2> QED BY <1>1, <1>2, <1>3, <1>4, <2>4, <2>5 DEF IInv, Waiting, Quiet, Said, Alive, Idle
<1>5. CASE \E d \in {0, 1} : Leave(d)
  <2>1. /\ at' = "left" /\ stack' = <<>> /\ stack' \in Seq(Frame) /\ Len(stack') = 0
        /\ status' \in Int
        /\ status' = exit_code' \/ exit_code' = None
    BY <1>1, <1>5 DEF Leave, IInv, TypeOK
  <2>2. TypeOK'
    BY <1>1, <2>1 DEF IInv, TypeOK, Places
  <2> QED BY <1>1, <2>1, <2>2 DEF IInv, Latched, Waiting, Quiet, Said, Idle
<1>6. CASE stack' = Below /\ UNCHANGED <<at, status>>
  <2>1. TypeOK'
    BY <1>1, <1>2, <1>6 DEF IInv, TypeOK
  <2>2. Latched'
    BY <1>1, <1>2, <1>6 DEF IInv, Latched
  <2> QED BY <1>1, <1>2, <1>3, <1>6, <2>1, <2>2 DEF IInv, Waiting, Quiet, Said, Alive, Idle
<1> QED BY <1>4, <1>5, <1>6 DEF Return

LEMMA ThrowStep == ASSUME IInv, Throw PROVE IInv'
<1>1. UNCHANGED <<listeners, micro, macro, unhandled, origin, exiting, unsettled, rounds,
                  calls, said, exit_code>> /\ fatal_handler_failed' \in BOOLEAN
      /\ (fatal_handler_failed => fatal_handler_failed')
      /\ listed' \in Nat /\ (~rejected => listed' = 0)
  BY DEF Throw, IInv, TypeOK, Quiet
<1>2. /\ stack \in Seq(Frame) /\ stack # <<>> /\ Len(stack) \in Nat \ {0} /\ Top \in Frame
      /\ Below \in Seq(Frame) /\ Len(Below) = Len(stack) - 1
      /\ \A i \in 1 .. Len(stack) - 1 : Below[i] = stack[i]
  BY Popped DEF Throw, Idle, Top, Below, IInv, TypeOK
<1>3. at \in {"drain", "check", "more", "handlers", "exited", "failed"}
  BY <1>2 DEF IInv, Waiting, Idle
<1>4. CASE stack' = Below /\ UNCHANGED <<at, status>> /\ Len(stack) > 1
  <2>1. TypeOK'
    BY <1>1, <1>2, <1>4 DEF IInv, TypeOK
  <2>2. Latched'
    BY <1>1, <1>2, <1>4 DEF IInv, Latched
  <2> QED BY <1>1, <1>2, <1>3, <1>4, <2>1, <2>2 DEF IInv, Waiting, Quiet, Said, Alive, Idle
<1>5. CASE Leave(1)
  <2>1. /\ at' = "left" /\ stack' = <<>> /\ stack' \in Seq(Frame) /\ Len(stack') = 0
        /\ status' \in Int
        /\ status' = exit_code' \/ exit_code' = None
    BY <1>1, <1>5 DEF Leave, IInv, TypeOK
  <2>2. TypeOK'
    BY <1>1, <2>1 DEF IInv, TypeOK, Places
  <2> QED BY <1>1, <2>1, <2>2 DEF IInv, Latched, Waiting, Quiet, Said, Idle
<1>6. CASE stack' = <<>> /\ at' = Uncaught /\ UNCHANGED status
  <2>1. Uncaught \in {"recover", "failing"}
    BY DEF Uncaught, LoopFails
  <2>2. stack' \in Seq(Frame) /\ Len(stack') = 0
    BY <1>6
  <2>3. TypeOK'
    BY <1>1, <1>6, <2>1, <2>2 DEF IInv, TypeOK, Places
  <2> QED BY <1>1, <1>6, <2>1, <2>2, <2>3 DEF IInv, Latched, Waiting, Quiet, Said, Idle
<1> QED BY <1>4, <1>5, <1>6 DEF Throw

(* The runtime's own steps, taken with no callback on the stack. *)

Moves == UNCHANGED <<unsettled, calls, said, exit_code, exiting, fatal_handler_failed, status>>

\* A step that goes somewhere, with at most one callback pushed.
LEMMA IdleStep ==
  ASSUME IInv, Idle, at' \in Places \ {"left"}, Moves,
         \/ stack' = <<>> /\ UNCHANGED listeners
         \/ \E e \in ProcessEvents \ {"exit"} : Listened(e) /\ Call(e, stack)
         \/ stack' = <<[event |-> "task", left |-> 0]>> /\ UNCHANGED listeners,
         micro' \in Nat, macro' \in Nat, listed' \in Nat,
         rejections' \in Nat, rejected' \in BOOLEAN,
         origin' \in {"uncaughtException", "unhandledRejection"}, rounds' \in 0 .. MaxRounds,
         at' \in {"drain", "check", "more", "handlers"} \/ stack' = <<>>,
         Quiet'
  PROVE  IInv'
<1>1. /\ stack' \in Seq(Frame)
      /\ \A i \in 1 .. Len(stack') : stack'[i].event # "exit"
      /\ listeners' \in [ProcessEvents -> [on : Nat, once : Nat]]
  <2>1. CASE stack' = <<>> /\ UNCHANGED listeners
    BY <2>1 DEF IInv, TypeOK
  <2>2. CASE \E e \in ProcessEvents \ {"exit"} : Listened(e) /\ Call(e, stack)
    <3>1. PICK e \in ProcessEvents \ {"exit"} : Listened(e) /\ Call(e, stack)
      BY <2>2
    <3>2. /\ stack' \in Seq(Frame) /\ Len(stack') = 1 /\ stack'[1].event = e
          /\ listeners' \in [ProcessEvents -> [on : Nat, once : Nat]]
      BY <3>1, CallIdle DEF IInv
    <3> QED BY <3>2
  <2>3. CASE stack' = <<[event |-> "task", left |-> 0]>> /\ UNCHANGED listeners
    <3>1. [event |-> "task", left |-> 0] \in Frame
      BY DEF Frame
    <3> QED BY <2>3, <3>1 DEF IInv, TypeOK
  <2> QED BY <2>1, <2>2, <2>3
<1>2. TypeOK'
  BY <1>1 DEF Moves, IInv, TypeOK
<1>3. Latched'
  BY <1>1 DEF Latched
<1>4. Waiting' /\ Said'
  BY DEF Waiting, Idle, Said, Moves, IInv
<1> QED BY <1>2, <1>3, <1>4 DEF IInv

LEMMA DeliveryStep == ASSUME IInv, Recover \/ Deliver \/ Handlers PROVE IInv'
<1>1. CASE Recover
  <2>1. Quiet'
    BY <1>1 DEF Recover, Goto, Others, IInv, Quiet
  <2> QED BY <1>1, <2>1, IdleStep
        DEF Recover, Goto, Others, Moves, IInv, TypeOK, Places, Idle
<1>2. CASE Deliver
  <2>1. Quiet'
    BY <1>2 DEF Deliver, Goto, Others, IInv, Quiet
  <2> QED BY <1>2, <2>1, IdleStep
        DEF Deliver, Goto, Others, Moves, IInv, TypeOK, Places, Idle, ProcessEvents
<1>3. CASE Handlers
  <2>1. Quiet'
    BY <1>3 DEF Handlers, LoopFails, Goto, Others, IInv, Quiet
  <2> QED BY <1>3, <2>1, IdleStep
        DEF Handlers, LoopFails, Goto, Others, Moves, IInv, TypeOK, Places, Idle, ProcessEvents
<1> QED BY <1>1, <1>2, <1>3

LEMMA LoopStep == ASSUME IInv, Drain \/ Check \/ Turn PROVE IInv'
<1>1. CASE Drain
  <2>1. Quiet'
    BY <1>1 DEF Drain, Task, Goto, OfLoop, IInv, TypeOK, Quiet, Idle
  <2> QED BY <1>1, <2>1, IdleStep
        DEF Drain, Task, Goto, OfLoop, Moves, IInv, TypeOK, Places, Idle
<1>2. CASE Check
  <2>1. Quiet'
    BY <1>2 DEF Check, LoopFails, Goto, IInv, TypeOK, Quiet, Idle
  <2>2. /\ Idle /\ Moves
        /\ \/ stack' = <<>> /\ UNCHANGED listeners
           \/ Listened("unhandledRejection") /\ Call("unhandledRejection", stack) /\ at' = "check"
    BY <1>2 DEF Check, Goto, Moves, Idle
  <2>3. /\ at' \in {"turn", "check", "deliver", "recover", "failing"}
        /\ micro' \in Nat /\ macro' \in Nat /\ listed' \in Nat
        /\ rejections' \in Nat /\ rejected' \in BOOLEAN
        /\ origin' \in {"uncaughtException", "unhandledRejection"} /\ rounds' \in 0 .. MaxRounds
    BY <1>2 DEF Check, LoopFails, Goto, IInv, TypeOK
  <2>4. "unhandledRejection" \in ProcessEvents \ {"exit"} /\ at' \in Places \ {"left"}
    BY <2>3 DEF ProcessEvents, Places
  <2> QED BY <2>1, <2>2, <2>3, <2>4, IdleStep
<1>3. CASE Turn
  <2>1. Quiet'
    BY <1>3 DEF Turn, Task, Goto, OfLoop, IInv, TypeOK, Quiet, Idle, Alive
  <2> QED BY <1>3, <2>1, IdleStep
        DEF Turn, Task, Goto, OfLoop, Moves, IInv, TypeOK, Places, Idle
<1> QED BY <1>1, <1>2, <1>3

LEMMA ClosingStep == ASSUME IInv, Closing \/ More PROVE IInv'
<1>1. CASE Closing
  <2>1. Quiet'
    BY <1>1 DEF Closing, Goto, Others, IInv, Quiet, Alive
  <2>2. rounds' \in 0 .. MaxRounds
    BY <1>1, LifecycleAssumption DEF Closing, IInv, TypeOK
  <2> QED BY <1>1, <2>1, <2>2, IdleStep
        DEF Closing, Goto, Others, Moves, IInv, TypeOK, Places, Idle, ProcessEvents
<1>2. CASE More
  <2>1. Quiet'
    BY <1>2 DEF More, Goto, Others, IInv, Quiet, Alive, Idle
  <2> QED BY <1>2, <2>1, IdleStep
        DEF More, Goto, Others, Moves, IInv, TypeOK, Places, Idle
<1> QED BY <1>1, <1>2

LEMMA SettleStep == ASSUME IInv, Settle PROVE IInv'
<1>1. /\ Goto("settle", "exiting") /\ exit_code' \in Int
      /\ said # None => exit_code' = said
      /\ UNCHANGED <<stack, listeners, micro, macro, unhandled, unsettled, calls, said, listed,
                     origin, exiting, fatal_handler_failed, status, rounds>>
  BY DEF Settle, IInv, TypeOK, Said
<1>2. TypeOK'
  BY <1>1 DEF Goto, IInv, TypeOK, Places
<1> QED BY <1>1, <1>2 DEF Goto, IInv, Latched, Waiting, Quiet, Said, Idle, Alive

\* emit_exit_event, called with no callback on the stack.
LEMMA EmitExitStep ==
  ASSUME IInv, Idle, NEW after \in {"exited", "failed"}, NEW default \in {0, 1},
         EmitExit(after, default),
         exit_code' \in Int, said' \in Int, said' # None => exit_code' = said',
         UNCHANGED <<micro, macro, unhandled, unsettled, calls, listed, origin,
                     fatal_handler_failed, rounds>>
  PROVE  IInv'
<1>1. CASE Leave(default) /\ UNCHANGED listeners /\ exiting' = TRUE
  <2>1. /\ at' = "left" /\ stack' = <<>> /\ stack' \in Seq(Frame) /\ Len(stack') = 0
        /\ status' \in Int
        /\ status' = exit_code' \/ exit_code' = None
    BY <1>1 DEF Leave
  <2>2. TypeOK'
    BY <1>1, <2>1 DEF IInv, TypeOK, Places
  <2> QED BY <1>1, <2>1, <2>2 DEF IInv, Latched, Waiting, Quiet, Said, Idle
<1>2. CASE Listened("exit") /\ Call("exit", stack) /\ at' = after /\ UNCHANGED status
           /\ exiting' = TRUE
  <2>1. /\ stack' \in Seq(Frame) /\ Len(stack') = 1
        /\ listeners' \in [ProcessEvents -> [on : Nat, once : Nat]]
    BY <1>2, CallIdle DEF IInv, ProcessEvents
  <2>2. TypeOK'
    BY <1>2, <2>1 DEF IInv, TypeOK, Places
  <2>3. Latched'
    BY <1>2, <2>1 DEF Latched
  <2> QED BY <1>2, <2>2, <2>3 DEF IInv, Waiting, Quiet, Said
<1> QED BY <1>1, <1>2 DEF EmitExit

LEMMA FinishStep == ASSUME IInv, Finish PROVE IInv'
<1>1. exit_code' \in Int /\ said' \in Int
  BY DEF Finish, IInv, TypeOK
<1>2. said' # None => exit_code' = said'
  BY DEF Finish, IInv, Said
<1> QED BY <1>1, <1>2, EmitExitStep DEF Finish

LEMMA FailStep == ASSUME IInv, Fail PROVE IInv'
<1>1. CASE fatal_handler_failed
  <2>1. /\ at' = "left" /\ stack' = <<>> /\ stack' \in Seq(Frame) /\ Len(stack') = 0
        /\ status' = 7
        /\ UNCHANGED <<listeners, exit_code, exiting, said, micro, macro, unhandled, unsettled,
                       calls, listed, origin, fatal_handler_failed, rounds>>
    BY <1>1 DEF Fail
  <2>2. TypeOK'
    BY <2>1 DEF IInv, TypeOK, Places
  <2> QED BY <1>1, <2>1, <2>2 DEF IInv, Latched, Waiting, Quiet, Said, Idle
<1>2. CASE ~fatal_handler_failed
  <2>1. exit_code' \in Int /\ said' \in Int /\ said' = None /\ Idle /\ EmitExit("failed", 1)
    BY <1>2 DEF Fail, None
  <2> QED BY <1>2, <2>1, EmitExitStep DEF Fail
<1> QED BY <1>1, <1>2

----------------------------------------------------------------------------
LEMMA Inductive == IInv /\ [Next]_vars => IInv'
<1> SUFFICES ASSUME IInv, [Next]_vars PROVE IInv'
  OBVIOUS
<1>1. CASE UNCHANGED vars
  BY <1>1 DEF vars, program, IInv, TypeOK, Latched, Waiting, Quiet, Said, Idle, Alive
<1>2. CASE \/ \E e \in Events, k \in {"on", "once"} : On(e, k) \/ Off(e, k)
           \/ QueueMicrotask \/ SetTimeout \/ Reject \/ SettleEntry
           \/ \E c \in Codes \cup {None} : set_exit_code(c)
  BY <1>2, CallbackStep
<1>3. CASE \E c \in Codes \cup {None} : Exit(c)
  BY <1>3, ExitStep
<1>4. CASE Return \/ Throw
  BY <1>4, ReturnStep, ThrowStep
<1>5. CASE Runtime
  BY <1>5, DeliveryStep, LoopStep, ClosingStep, SettleStep, FinishStep, FailStep DEF Runtime
<1> QED BY <1>1, <1>2, <1>3, <1>4, <1>5 DEF Next

LEMMA Invariant == Spec => []IInv
<1> QED BY Initially, Inductive, PTL DEF Spec

(* Every reachable state is type correct. *)
THEOREM TypeCorrect == Spec => []TypeOK
<1>1. IInv => TypeOK
  BY DEF IInv
<1> QED BY <1>1, Invariant, PTL

(* However exit listeners call process.exit, the exit event is never emitted *)
(* from inside itself.                                                       *)
THEOREM OneExitEventCorrect == Spec => []OneExitEvent
<1>1. IInv => OneExitEvent
  BY DEF IInv, TypeOK, Latched, OneExitEvent
<1> QED BY <1>1, Invariant, PTL

(* A program whose promises are watched leaves the loop with nothing to run, *)
(* unless its beforeExit listeners used up the rounds.                        *)
THEOREM NoWorkLeftBehindCorrect == Spec => []NoWorkLeftBehind
<1>1. IInv => NoWorkLeftBehind
  BY DEF IInv, Quiet, NoWorkLeftBehind
<1> QED BY <1>1, Invariant, PTL

(* The last code the program chose is the one the process leaves with. *)
THEOREM LastCodeWinsCorrect == Spec => []LastCodeWins
<1>1. IInv => LastCodeWins
  BY DEF IInv, Said, LastCodeWins
<1> QED BY <1>1, Invariant, PTL

----------------------------------------------------------------------------
(* BytecodeCache. *)

USE DEF files, mem, history

LEMMA ConstantTypes ==
  Binary \subseteq Nat \ {0} /\ Binary \subseteq Id /\ Id \subseteq Nat /\ 1 \in Binary /\ 0 \in Id
  BY BytecodeCacheAssumption, SMT DEF Binary, Id

(* Shadowing loses no key and adds no entry. *)
LEMMA ShadowingKeys ==
  ASSUME NEW A, NEW B
  PROVE  /\ Shadowing(A, B) \subseteq A \cup B
         /\ Keyed(A) \cup Keyed(B) \subseteq Keyed(Shadowing(A, B))
  BY DEF Shadowing, Keyed

LEMMA OwnTypes ==
  ASSUME NEW r \in Run, NEW E
  PROVE  Own(r, E) \subseteq E
  BY DEF Own

(* The entry that a compilation stores. *)
LEMMA StoredEntry ==
  ASSUME CacheTypeOK, NEW r \in Run, NEW s \in Source
  PROVE  [key |-> key_for(r, s), verify |-> verify_for(r, s), build |-> build_id[r],
          blob |-> <<image[r], s>>] \in Entry
  BY BytecodeCacheAssumption DEF CacheTypeOK, Entry, Program, key_for, verify_for

(* Writing an entry keeps everything but its build. *)
LEMMA WrittenEntry ==
  ASSUME NEW e \in Entry, NEW id \in Id
  PROVE  LET f == [e EXCEPT !.build = id]
         IN f \in Entry /\ f.key = e.key /\ f.verify = e.verify /\ f.blob = e.blob
  BY DEF Entry

----------------------------------------------------------------------------
(* Types. *)

LEMMA CacheTypeInit == CacheInit => CacheTypeOK
<1> SUFFICES ASSUME CacheInit PROVE CacheTypeOK
  OBVIOUS
<1>1. NoFile \in File
  BY DEF NoFile, File
<1>2. binary \in Binary /\ shard \in File /\ temp \in [Run -> File] /\ writes \in Nat
  BY <1>1, ConstantTypes DEF CacheInit
<1>3. /\ phase \in [Run -> Known \cup {"off", "started", "gone"}]
      /\ image \in [Run -> Binary] /\ build_id \in [Run -> Id]
  BY ConstantTypes DEF CacheInit
<1>4. /\ stamp \in [Run -> Nat] /\ looked \in [Run -> Nat] /\ compiles \in [Run -> Nat]
      /\ disk \in [Run -> SUBSET Entry] /\ added \in [Run -> SUBSET Entry]
      /\ pending \in [Run -> SUBSET Entry] /\ dirty \in [Run -> BOOLEAN]
      /\ got \in [Run -> {<<>>} \cup (Source \X Program)]
  BY DEF CacheInit
<1> QED BY <1>2, <1>3, <1>4 DEF CacheTypeOK

LEMMA CacheTypeStep == CacheTypeOK /\ [CacheNext]_cache_vars => CacheTypeOK'
<1> SUFFICES ASSUME CacheTypeOK, [CacheNext]_cache_vars PROVE CacheTypeOK'
  OBVIOUS
<1> USE ConstantTypes
<1>1. CASE Rebuild
  <2>1. binary' \in Binary
    BY <1>1, BytecodeCacheAssumption, SMT DEF Rebuild, Binary, CacheTypeOK
  <2> QED BY <1>1, <2>1 DEF Rebuild, CacheTypeOK
<1>2. ASSUME NEW r \in Run, Start(r) PROVE CacheTypeOK'
  BY <1>2 DEF Start, Goes, CacheTypeOK
<1>3. ASSUME NEW r \in Run, ReadId(r) PROVE CacheTypeOK'
  <2>1. 0 \in Id /\ binary \in Id
    BY BytecodeCacheAssumption, SMT DEF Id, CacheTypeOK
  <2>2. PICK id \in Id : build_id' = [build_id EXCEPT ![r] = id]
    BY <1>3, <2>1 DEF ReadId
  <2> QED BY <1>3, <2>2 DEF ReadId, Goes, CacheTypeOK, Known
<1>4. ASSUME NEW r \in Run, Stamp(r) PROVE CacheTypeOK'
  BY <1>4 DEF Stamp, Goes, CacheTypeOK, File, Known
<1>5. ASSUME NEW r \in Run, Read(r) PROVE CacheTypeOK'
  BY <1>5 DEF Read, Goes, CacheTypeOK, Own, Whole, File, Known
<1>6. ASSUME NEW r \in Run, NEW s \in Source, Hit(r, s) PROVE CacheTypeOK'
  <2>1. PICK e \in Live(r) : got' = [got EXCEPT ![r] = <<s, e.blob>>]
    BY <1>6 DEF Hit, Hits
  <2>2. e.blob \in Program
    BY <2>1 DEF Live, Shadowing, CacheTypeOK, Entry
  <2> QED BY <1>6, <2>1, <2>2 DEF Hit, Asks, CacheTypeOK
<1>7. ASSUME NEW r \in Run, NEW s \in Source, store(r, s)
      PROVE  added' \in [Run -> SUBSET Entry] /\ dirty' \in [Run -> BOOLEAN]
  BY <1>7, StoredEntry DEF store, CacheTypeOK, Shadowing
<1>8. ASSUME NEW r \in Run, NEW s \in Source, Compile(r, s) PROVE CacheTypeOK'
  <2>1. <<s, <<image[r], s>>>> \in Source \X Program
    BY DEF CacheTypeOK, Program
  <2> QED BY <1>7, <1>8, <2>1 DEF Compile, Asks, CacheTypeOK
<1>9. ASSUME NEW r \in Run, NEW s \in Source, Build(r, s) PROVE CacheTypeOK'
  BY <1>7, <1>9 DEF Build, Asks, CacheTypeOK
<1>10. ASSUME NEW r \in Run, Flush(r) PROVE CacheTypeOK'
  BY <1>10 DEF Flush, Goes, CacheTypeOK, Live, Shadowing, Known
<1>11. ASSUME NEW r \in Run, Compare(r) PROVE CacheTypeOK'
  BY <1>11 DEF Compare, Goes, CacheTypeOK, File, Known
<1>12. ASSUME NEW r \in Run, Merge(r) PROVE CacheTypeOK'
  BY <1>12 DEF Merge, Goes, CacheTypeOK, Shadowing, Own, Whole, File, Known
<1>13. ASSUME NEW r \in Run, Write(r) PROVE CacheTypeOK'
  BY <1>13 DEF Write, Goes, CacheTypeOK, File, Known
<1>14. ASSUME NEW r \in Run, Written(r) PROVE CacheTypeOK'
  <2>1. {[e EXCEPT !.build = build_id[r]] : e \in pending[r]} \subseteq Entry
    BY WrittenEntry DEF CacheTypeOK
  <2>2. temp' \in [Run -> File] /\ writes' \in Nat
    BY <1>14, <2>1 DEF Written, CacheTypeOK, File
  <2> QED BY <1>14, <2>2 DEF Written, Goes, CacheTypeOK, Known
<1>15. ASSUME NEW r \in Run, Rename(r) PROVE CacheTypeOK'
  BY <1>15 DEF Rename, Goes, CacheTypeOK, File, NoFile
<1>16. ASSUME NEW r \in Run, WriteFails(r) PROVE CacheTypeOK'
  BY <1>16 DEF WriteFails, CacheTypeOK, File, NoFile
<1>17. ASSUME NEW r \in Run, Killed(r) PROVE CacheTypeOK'
  BY <1>17 DEF Killed, CacheTypeOK
<1>18. CASE UNCHANGED cache_vars
  BY <1>18 DEF cache_vars, CacheTypeOK
<1> QED
  BY <1>1, <1>2, <1>3, <1>4, <1>5, <1>6, <1>8, <1>9, <1>10, <1>11, <1>12, <1>13, <1>14, <1>15,
     <1>16, <1>17, <1>18 DEF CacheNext

\* The type invariant of the cache: what the shard, the temporary files and every
\* run's memory may hold, for any number of runs, binaries and sources.
THEOREM CacheTypeCorrect == CacheSpec => []CacheTypeOK
<1> QED BY CacheTypeInit, CacheTypeStep, PTL DEF CacheSpec

----------------------------------------------------------------------------
(* What runs.  A run that knows its identity has the one of its binary, and *)
(* every entry, wherever it is, holds the program that its two hashes name. *)

Named ==
  \A r \in Run : /\ phase[r] = "started" => image[r] = binary
                 /\ phase[r] \in Known => build_id[r] = image[r]

Sound(entries) == \A e \in entries : e.verify = e.blob

AllSound ==
  /\ Sound(shard.entries)
  /\ \A r \in Run : Sound(temp[r].entries) /\ Sound(disk[r]) /\ Sound(added[r]) /\ Sound(pending[r])

Unasked == \A r \in Run : phase[r] \in {"off", "started"} => got[r] = <<>>

Honest == CacheTypeOK /\ Named /\ AllSound /\ Unasked /\ HitsAreOwn

LEMMA NamedStep == RebuildsRace = FALSE /\ CacheTypeOK /\ Named /\ [CacheNext]_cache_vars => Named'
<1> SUFFICES ASSUME RebuildsRace = FALSE, CacheTypeOK, Named, [CacheNext]_cache_vars PROVE Named'
  OBVIOUS
<1>1. CASE Rebuild
  BY <1>1 DEF Rebuild, Named
<1>2. ASSUME NEW r \in Run, Start(r) PROVE Named'
  BY <1>2 DEF Start, Goes, CacheTypeOK, Named, Known
<1>3. ASSUME NEW r \in Run, ReadId(r) PROVE Named'
  BY <1>3 DEF ReadId, Goes, CacheTypeOK, Named, Known
<1>4. ASSUME UNCHANGED <<binary, image, build_id>>,
             \A r \in Run : phase'[r] = phase[r] \/ phase'[r] = "gone"
                         \/ (phase[r] \in Known /\ phase'[r] \in Known)
      PROVE  Named'
  BY <1>4 DEF Named, Known
<1>5. ASSUME NEW r \in Run, NEW s \in Source, Hit(r, s) \/ Compile(r, s) \/ Build(r, s) PROVE Named'
  BY <1>4, <1>5 DEF Hit, Compile, Build
<1>6. ASSUME NEW r \in Run, Stamp(r) \/ Read(r) \/ Merge(r) \/ Write(r) \/ Written(r) PROVE Named'
  BY <1>4, <1>6 DEF Stamp, Read, Merge, Write, Written, Goes, CacheTypeOK, Known
<1>7. ASSUME NEW r \in Run, Flush(r) \/ Compare(r) \/ Rename(r) \/ WriteFails(r) \/ Killed(r) PROVE Named'
  BY <1>4, <1>7 DEF Flush, Compare, Rename, WriteFails, Killed, Goes, CacheTypeOK, Known
<1>8. CASE UNCHANGED cache_vars
  BY <1>4, <1>8 DEF cache_vars
<1> QED BY <1>1, <1>2, <1>3, <1>5, <1>6, <1>7, <1>8 DEF CacheNext

LEMMA StoreSound ==
  ASSUME CacheTypeOK, Named, AllSound, NEW r \in Run, NEW s \in Source, phase[r] = "running", store(r, s)
  PROVE  \A q \in Run : Sound(added'[q])
<1>1. build_id[r] = image[r]
  BY DEF Named, Known
<1> DEFINE e == [key |-> key_for(r, s), verify |-> verify_for(r, s), build |-> build_id[r],
                 blob |-> <<image[r], s>>]
<1>2. e.verify = e.blob
  BY <1>1 DEF verify_for
<1> HIDE DEF e
<1>3. DOMAIN added = Run /\ added' = [added EXCEPT ![r] = Shadowing({e}, added[r])]
  BY DEF store, CacheTypeOK, e
<1>4. Sound(Shadowing({e}, added[r]))
  BY <1>2 DEF AllSound, Sound, Shadowing
<1> QED BY <1>3, <1>4 DEF AllSound

LEMMA SoundStep == CacheTypeOK /\ Named /\ AllSound /\ [CacheNext]_cache_vars => AllSound'
<1> SUFFICES ASSUME CacheTypeOK, Named, AllSound, [CacheNext]_cache_vars PROVE AllSound'
  OBVIOUS
<1>1. CASE Rebuild
  BY <1>1 DEF Rebuild, AllSound
<1>2. ASSUME NEW r \in Run, Start(r) \/ ReadId(r) \/ Stamp(r) \/ Compare(r) \/ Killed(r) PROVE AllSound'
  BY <1>2 DEF Start, ReadId, Stamp, Compare, Killed, AllSound
<1>3. ASSUME NEW r \in Run, Read(r) PROVE AllSound'
  BY <1>3 DEF Read, AllSound, Sound, Own, Whole, CacheTypeOK
<1>4. ASSUME NEW r \in Run, NEW s \in Source, Hit(r, s) PROVE AllSound'
  BY <1>4 DEF Hit, AllSound
<1>5. ASSUME NEW r \in Run, NEW s \in Source, Compile(r, s) \/ Build(r, s) PROVE AllSound'
  <2>1. \A q \in Run : Sound(added'[q])
    BY <1>5, StoreSound DEF Compile, Build, Asks
  <2> QED BY <1>5, <2>1 DEF Compile, Build, AllSound
<1>6. ASSUME NEW r \in Run, Flush(r) PROVE AllSound'
  BY <1>6 DEF Flush, Live, Shadowing, Sound, AllSound, CacheTypeOK
<1>7. ASSUME NEW r \in Run, Merge(r) PROVE AllSound'
  BY <1>7 DEF Merge, Shadowing, Own, Whole, Sound, AllSound, CacheTypeOK
<1>8. ASSUME NEW r \in Run, Write(r) PROVE AllSound'
  BY <1>8 DEF Write, Sound, AllSound, CacheTypeOK
<1>9. ASSUME NEW r \in Run, Written(r) PROVE AllSound'
  <2>1. Sound({[e EXCEPT !.build = build_id[r]] : e \in pending[r]})
    <3> SUFFICES ASSUME NEW e \in pending[r]
                 PROVE  [e EXCEPT !.build = build_id[r]].verify = [e EXCEPT !.build = build_id[r]].blob
      BY DEF Sound
    <3>1. e \in Entry /\ build_id[r] \in Id /\ e.verify = e.blob
      BY DEF AllSound, Sound, CacheTypeOK
    <3> QED BY <3>1, WrittenEntry
  <2> QED BY <1>9, <2>1 DEF Written, AllSound, CacheTypeOK
<1>10. ASSUME NEW r \in Run, Rename(r) \/ WriteFails(r) PROVE AllSound'
  <2>1. Sound(NoFile.entries)
    BY DEF NoFile, Sound
  <2>2. \A q \in Run : temp'[q] = temp[q] \/ temp'[q] = NoFile
    BY <1>10 DEF Rename, WriteFails, CacheTypeOK
  <2>3. shard' = temp[r] \/ shard' = shard
    BY <1>10 DEF Rename, WriteFails
  <2>4. Sound(shard'.entries) /\ \A q \in Run : Sound(temp'[q].entries)
    BY <2>1, <2>2, <2>3 DEF AllSound
  <2> QED BY <1>10, <2>4 DEF Rename, WriteFails, AllSound
<1>11. CASE UNCHANGED cache_vars
  BY <1>11 DEF cache_vars, AllSound
<1> QED BY <1>1, <1>2, <1>3, <1>4, <1>5, <1>6, <1>7, <1>8, <1>9, <1>10, <1>11 DEF CacheNext

LEMMA OwnStep ==
  CacheTypeOK /\ Named /\ AllSound /\ Unasked /\ HitsAreOwn /\ [CacheNext]_cache_vars => Unasked' /\ HitsAreOwn'
<1> SUFFICES ASSUME CacheTypeOK, Named, AllSound, Unasked, HitsAreOwn, [CacheNext]_cache_vars
             PROVE  Unasked' /\ HitsAreOwn'
  OBVIOUS
<1>1. ASSUME NEW r \in Run, Start(r) PROVE Unasked' /\ HitsAreOwn'
  BY <1>1 DEF Start, Goes, Unasked, HitsAreOwn, CacheTypeOK
<1>2. ASSUME UNCHANGED <<image, got>>,
             \A r \in Run : phase'[r] \in {"off", "started"} => phase[r] \in {"off", "started"}
      PROVE  Unasked' /\ HitsAreOwn'
  BY <1>2 DEF Unasked, HitsAreOwn
<1>3. ASSUME NEW r \in Run, NEW s \in Source, Hit(r, s) PROVE Unasked' /\ HitsAreOwn'
  <2>1. PICK e \in Hits(r, s) : got' = [got EXCEPT ![r] = <<s, e.blob>>]
    BY <1>3 DEF Hit
  <2>2. e \in added[r] \cup disk[r] /\ e.verify = <<build_id[r], s>>
    BY <2>1 DEF Hits, Live, Shadowing, verify_for
  <2>3. e.blob = <<image[r], s>>
    BY <1>3, <2>2 DEF Hit, Asks, AllSound, Sound, Named, Known
  <2> QED BY <1>3, <2>1, <2>3 DEF Hit, Asks, HitsAreOwn, Unasked, CacheTypeOK
<1>4. ASSUME NEW r \in Run, NEW s \in Source, Compile(r, s) PROVE Unasked' /\ HitsAreOwn'
  BY <1>4 DEF Compile, Asks, HitsAreOwn, Unasked, CacheTypeOK
<1>5. CASE Rebuild \/ UNCHANGED cache_vars
  BY <1>2, <1>5 DEF Rebuild, cache_vars
<1>6. ASSUME NEW r \in Run, NEW s \in Source, Build(r, s) PROVE Unasked' /\ HitsAreOwn'
  BY <1>2, <1>6 DEF Build
<1>7. ASSUME NEW r \in Run, ReadId(r) \/ Stamp(r) \/ Read(r) \/ Flush(r) \/ Compare(r) \/ Merge(r)
      PROVE  Unasked' /\ HitsAreOwn'
  BY <1>2, <1>7 DEF ReadId, Stamp, Read, Flush, Compare, Merge, Goes, CacheTypeOK
<1>8. ASSUME NEW r \in Run, Write(r) \/ Written(r) \/ Rename(r) \/ WriteFails(r) \/ Killed(r)
      PROVE  Unasked' /\ HitsAreOwn'
  BY <1>2, <1>8 DEF Write, Written, Rename, WriteFails, Killed, Goes, CacheTypeOK
<1> QED BY <1>1, <1>3, <1>4, <1>5, <1>6, <1>7, <1>8 DEF CacheNext

\* What runs is the source that was asked for, compiled by the binary that asks,
\* as long as no binary is replaced between the start of a run and its stat.
THEOREM HitsAreOwnCorrect == RebuildsRace = FALSE => (CacheSpec => []HitsAreOwn)
<1> SUFFICES ASSUME RebuildsRace = FALSE PROVE CacheSpec => []HitsAreOwn
  OBVIOUS
<1>1. CacheInit => Honest
  BY CacheTypeInit DEF CacheInit, Honest, Named, Known, AllSound, Sound, NoFile, Unasked, HitsAreOwn
<1>2. Honest /\ [CacheNext]_cache_vars => Honest'
  BY CacheTypeStep, NamedStep, SoundStep, OwnStep DEF Honest
<1>3. Honest => HitsAreOwn
  BY DEF Honest
<1> QED BY <1>1, <1>2, <1>3, PTL DEF CacheSpec

----------------------------------------------------------------------------
(* What a commit keeps.  A modification time names one write: a file that is *)
(* still to be renamed into place has one that no run has met.  So a run     *)
(* whose stamp is the file's holds the file's entries, though it has not     *)
(* looked at it since.                                                       *)

NotLater ==
  /\ shard.mtime <= writes
  /\ \A r \in Run : temp[r].mtime <= writes /\ stamp[r] <= writes /\ looked[r] <= writes

Unmet ==
  \A q \in Run : phase[q] = "written" =>
    /\ temp[q].mtime # shard.mtime
    /\ \A r \in Run : /\ temp[q].mtime # stamp[r] /\ temp[q].mtime # looked[r]
                      /\ phase[r] = "written" /\ r # q => temp[q].mtime # temp[r].mtime

Complete ==
  /\ shard.whole
  /\ \A q \in Run : phase[q] = "written" =>
       temp[q].whole /\ Keyed(pending[q]) \subseteq Keyed(temp[q].entries)

Fresh ==   \* the stamp
  \A r \in Run : phase[r] \in {"running", "flushing"} /\ stamp[r] = shard.mtime =>
    Own(r, shard.entries) \subseteq disk[r]

Carried ==
  \A r \in Run :
    /\ phase[r] = "flushing" => Keyed(disk[r]) \subseteq Keyed(pending[r])
    /\ phase[r] \in {"writing", "torn", "written"} /\ looked[r] = shard.mtime =>
         Keyed(Own(r, shard.entries)) \subseteq Keyed(pending[r])

Keeping == CacheTypeOK /\ NotLater /\ Unmet /\ Complete /\ Fresh /\ Carried

Kept == NotLater' /\ Unmet' /\ Complete' /\ Fresh' /\ Carried'

(* What a run holds of the file stays so in a step of another run. *)
LEMMA CarriedKept ==
  ASSUME Keeping, NEW r \in Run, shard' = shard,
         \A q \in Run \ {r} :
           /\ phase'[q] = phase[q] /\ looked'[q] = looked[q] /\ disk'[q] = disk[q]
           /\ pending'[q] = pending[q] /\ build_id'[q] = build_id[q],
         phase'[r] = "flushing" => Keyed(disk'[r]) \subseteq Keyed(pending'[r]),
         phase'[r] \in {"writing", "torn", "written"} /\ looked'[r] = shard.mtime =>
           Keyed(Own(r, shard.entries)') \subseteq Keyed(pending'[r])
  PROVE  Carried'
<1>1. ASSUME NEW q \in Run, q # r
      PROVE  /\ phase'[q] = "flushing" => Keyed(disk'[q]) \subseteq Keyed(pending'[q])
             /\ phase'[q] \in {"writing", "torn", "written"} /\ looked'[q] = shard'.mtime =>
                  Keyed(Own(q, shard.entries)') \subseteq Keyed(pending'[q])
  <2>1. Own(q, shard.entries)' = Own(q, shard.entries)
    BY <1>1 DEF Own
  <2> QED BY <1>1, <2>1 DEF Keeping, Carried
<1> QED BY <1>1 DEF Carried

LEMMA FreshKept ==
  ASSUME Keeping, NEW r \in Run, shard' = shard, stamp' = stamp, disk' = disk,
         \A q \in Run \ {r} : phase'[q] = phase[q] /\ build_id'[q] = build_id[q],
         phase'[r] \notin {"running", "flushing"}
  PROVE  Fresh'
<1>1. ASSUME NEW q \in Run, q # r, phase'[q] \in {"running", "flushing"}, stamp'[q] = shard'.mtime
      PROVE  Own(q, shard.entries)' \subseteq disk'[q]
  <2>1. Own(q, shard.entries)' = Own(q, shard.entries)
    BY <1>1 DEF Own
  <2> QED BY <1>1, <2>1 DEF Keeping, Fresh
<1> QED BY <1>1 DEF Fresh

(* A step of one run that leaves the files, the stamps and the memories alone. *)
LEMMA KeepsElsewhere ==
  ASSUME Keeping, UNCHANGED <<shard, temp, writes, stamp, looked, build_id, disk, pending>>,
         \A r \in Run : phase'[r] = phase[r]
                       \/ phase'[r] \in {"off", "started", "identified", "stamped", "gone"}
  PROVE  Kept
<1>1. NotLater' /\ Complete'
  BY DEF Keeping, NotLater, Complete
<1>2. Unmet'
  BY DEF Keeping, Unmet
<1>3. Fresh' /\ Carried'
  BY DEF Keeping, Fresh, Carried, Own
<1> QED BY <1>1, <1>2, <1>3 DEF Kept

LEMMA KeepsStamp ==
  ASSUME Keeping, NEW r \in Run, Stamp(r)
  PROVE  Kept
<1>1. phase' = [phase EXCEPT ![r] = "stamped"] /\ stamp' = [stamp EXCEPT ![r] = shard.mtime]
      /\ UNCHANGED <<shard, temp, writes, looked, build_id, disk, pending>>
  BY DEF Stamp, Goes
<1>2. NotLater' /\ Complete'
  BY <1>1 DEF Keeping, NotLater, Complete, CacheTypeOK
<1>3. Unmet'
  BY <1>1 DEF Keeping, Unmet, CacheTypeOK
<1>4. Fresh' /\ Carried'
  BY <1>1 DEF Keeping, Fresh, Carried, Own, CacheTypeOK
<1> QED BY <1>2, <1>3, <1>4 DEF Kept

LEMMA KeepsRead ==
  ASSUME Keeping, NEW r \in Run, Read(r)
  PROVE  Kept
<1>1. phase' = [phase EXCEPT ![r] = "running"] /\ disk' = [disk EXCEPT ![r] = Own(r, shard.entries)]
      /\ UNCHANGED <<shard, temp, writes, stamp, looked, build_id, pending>>
  BY DEF Read, Goes, Whole, Keeping, Complete
<1>2. NotLater' /\ Complete'
  BY <1>1 DEF Keeping, NotLater, Complete, CacheTypeOK
<1>3. Unmet'
  BY <1>1 DEF Keeping, Unmet, CacheTypeOK
<1>4. Fresh' /\ Carried'
  BY <1>1 DEF Keeping, Fresh, Carried, Own, CacheTypeOK
<1> QED BY <1>2, <1>3, <1>4 DEF Kept

LEMMA KeepsFlush ==
  ASSUME Keeping, NEW r \in Run, Flush(r)
  PROVE  Kept
<1>1. CASE ~dirty[r]
  <2>1. phase' = [phase EXCEPT ![r] = "gone"] /\ pending' = [pending EXCEPT ![r] = {}]
        /\ UNCHANGED <<shard, temp, writes, stamp, looked, build_id, disk>>
    BY <1>1 DEF Flush, Goes
  <2>2. NotLater' /\ Complete' /\ Unmet'
    BY <2>1 DEF Keeping, NotLater, Complete, Unmet, CacheTypeOK
  <2>3. Fresh' /\ Carried'
    BY <2>1 DEF Keeping, Fresh, Carried, Own, CacheTypeOK
  <2> QED BY <2>2, <2>3 DEF Kept
<1>2. CASE dirty[r]
  <2>1. phase[r] = "running" /\ phase' = [phase EXCEPT ![r] = "flushing"]
        /\ pending' = [pending EXCEPT ![r] = Live(r)]
        /\ UNCHANGED <<shard, temp, writes, stamp, looked, build_id, disk>>
    BY <1>2 DEF Flush, Goes
  <2>2. NotLater' /\ Complete' /\ Unmet'
    BY <2>1 DEF Keeping, NotLater, Complete, Unmet, CacheTypeOK
  <2>3. Keyed(disk[r]) \subseteq Keyed(Live(r))
    BY ShadowingKeys DEF Live
  <2>4. Fresh'
    BY <2>1 DEF Keeping, Fresh, Own, CacheTypeOK
  <2>5. Carried'
    BY <2>1, <2>3 DEF Keeping, Carried, Own, CacheTypeOK
  <2> QED BY <2>2, <2>4, <2>5 DEF Kept
<1> QED BY <1>1, <1>2 DEF Keeping, CacheTypeOK

LEMMA KeepsCheck ==
  ASSUME Keeping, NEW r \in Run, Compare(r)
  PROVE  Kept
<1>1. phase[r] = "flushing"
      /\ phase' = [phase EXCEPT ![r] = IF shard.mtime # stamp[r] THEN "merging" ELSE "writing"]
      /\ looked' = [looked EXCEPT ![r] = shard.mtime]
      /\ UNCHANGED <<shard, temp, writes, stamp, build_id, disk, pending>>
  BY DEF Compare, Goes, Changed
<1>2. NotLater' /\ Complete'
  BY <1>1 DEF Keeping, NotLater, Complete, CacheTypeOK
<1>3. Unmet'
  BY <1>1 DEF Keeping, Unmet, CacheTypeOK
<1>4. Fresh'
  BY <1>1 DEF Keeping, Fresh, Own, CacheTypeOK
<1>5. shard.mtime = stamp[r] => Keyed(Own(r, shard.entries)) \subseteq Keyed(pending[r])
  BY <1>1 DEF Keeping, Fresh, Carried, Keyed
<1>6. Carried'
  <2>1. DOMAIN phase = Run /\ DOMAIN looked = Run
    BY DEF Keeping, CacheTypeOK
  <2>2. \A q \in Run \ {r} : phase'[q] = phase[q] /\ looked'[q] = looked[q]
    BY <1>1, <2>1
  <2>3. /\ phase'[r] \in {"merging", "writing"}
        /\ phase'[r] = "writing" => shard.mtime = stamp[r]
    BY <1>1, <2>1
  <2>4. Own(r, shard.entries)' = Own(r, shard.entries)
    BY <1>1 DEF Own
  <2> QED BY <1>1, <1>5, <2>2, <2>3, <2>4, CarriedKept
<1> QED BY <1>2, <1>3, <1>4, <1>6 DEF Kept

LEMMA KeepsMerge ==
  ASSUME Keeping, NEW r \in Run, Merge(r)
  PROVE  Kept
<1>1. /\ phase[r] = "merging" /\ phase' = [phase EXCEPT ![r] = "writing"]
      /\ pending' = [pending EXCEPT ![r] = Shadowing(pending[r], Own(r, shard.entries))]
      /\ looked' = [looked EXCEPT ![r] = shard.mtime]
      /\ UNCHANGED <<shard, temp, writes, stamp, build_id, disk>>
  BY DEF Merge, Goes, Whole, Keeping, Complete, CacheTypeOK
<1>2. NotLater' /\ Complete'
  BY <1>1 DEF Keeping, NotLater, Complete, CacheTypeOK
<1>3. Unmet'
  BY <1>1 DEF Keeping, Unmet, CacheTypeOK
<1>4. Fresh'
  BY <1>1 DEF Keeping, Fresh, Own, CacheTypeOK
<1>5. Keyed(Own(r, shard.entries)) \subseteq Keyed(Shadowing(pending[r], Own(r, shard.entries)))
  BY ShadowingKeys
<1>6. Carried'
  <2>1. DOMAIN phase = Run /\ DOMAIN looked = Run /\ DOMAIN pending = Run
    BY DEF Keeping, CacheTypeOK
  <2>2. \A q \in Run \ {r} : phase'[q] = phase[q] /\ looked'[q] = looked[q] /\ pending'[q] = pending[q]
    BY <1>1, <2>1
  <2>3. phase'[r] = "writing" /\ pending'[r] = Shadowing(pending[r], Own(r, shard.entries))
    BY <1>1, <2>1
  <2>4. Own(r, shard.entries)' = Own(r, shard.entries)
    BY <1>1 DEF Own
  <2> QED BY <1>1, <1>5, <2>2, <2>3, <2>4, CarriedKept
<1> QED BY <1>2, <1>3, <1>4, <1>6 DEF Kept

LEMMA KeepsWrite ==
  ASSUME Keeping, NEW r \in Run, Write(r)
  PROVE  Kept
<1>1. /\ phase[r] = "writing" /\ phase' = [phase EXCEPT ![r] = "torn"] /\ writes' = writes + 1
      /\ temp' = [temp EXCEPT ![r] = [entries |-> {}, mtime |-> writes + 1, whole |-> FALSE]]
      /\ UNCHANGED <<shard, stamp, looked, build_id, disk, pending>>
  BY DEF Write, Goes
<1>2. NotLater'
  BY <1>1 DEF Keeping, NotLater, CacheTypeOK, File
<1>3. Complete'
  BY <1>1 DEF Keeping, Complete, CacheTypeOK
<1>4. Unmet'
  BY <1>1 DEF Keeping, Unmet, CacheTypeOK
<1>5. Fresh' /\ Carried'
  BY <1>1 DEF Keeping, Fresh, Carried, Own, CacheTypeOK
<1> QED BY <1>2, <1>3, <1>4, <1>5 DEF Kept

LEMMA KeepsWritten ==
  ASSUME Keeping, NEW r \in Run, Written(r)
  PROVE  Kept
<1> DEFINE E == {[e EXCEPT !.build = build_id[r]] : e \in pending[r]}
<1>1. /\ phase[r] = "torn" /\ phase' = [phase EXCEPT ![r] = "written"] /\ writes' = writes + 1
      /\ temp' = [temp EXCEPT ![r] = [entries |-> E, mtime |-> writes + 1, whole |-> TRUE]]
      /\ UNCHANGED <<shard, stamp, looked, build_id, disk, pending>>
  BY DEF Written, Goes
<1>2. Keyed(pending[r]) \subseteq Keyed(E)
  <2> SUFFICES ASSUME NEW e \in pending[r] PROVE \E f \in E : f.key = e.key
    BY DEF Keyed
  <2>1. e \in Entry /\ build_id[r] \in Id
    BY DEF Keeping, CacheTypeOK
  <2> QED BY <2>1, WrittenEntry
<1> HIDE DEF E
<1>3. NotLater'
  BY <1>1 DEF Keeping, NotLater, CacheTypeOK, File
<1>4. Complete'
  BY <1>1, <1>2 DEF Keeping, Complete, CacheTypeOK
<1>5. Unmet'
  BY <1>1 DEF Keeping, Unmet, NotLater, CacheTypeOK, File
<1>6. Fresh' /\ Carried'
  BY <1>1 DEF Keeping, Fresh, Carried, Own, CacheTypeOK
<1> QED BY <1>3, <1>4, <1>5, <1>6 DEF Kept

LEMMA KeepsRename ==
  ASSUME Keeping, NEW r \in Run, Rename(r)
  PROVE  Kept
<1>1. /\ phase[r] = "written" /\ phase' = [phase EXCEPT ![r] = "gone"] /\ shard' = temp[r]
      /\ temp' = [temp EXCEPT ![r] = NoFile]
      /\ UNCHANGED <<writes, stamp, looked, build_id, disk, pending>>
  BY DEF Rename, Goes
<1>2. NotLater'
  BY <1>1 DEF Keeping, NotLater, CacheTypeOK, NoFile
<1>3. Complete'
  BY <1>1 DEF Keeping, Complete, CacheTypeOK
<1>0. /\ temp[r].mtime # shard.mtime
      /\ \A q \in Run : /\ temp[r].mtime # stamp[q] /\ temp[r].mtime # looked[q]
                        /\ phase[q] = "written" /\ q # r => temp[r].mtime # temp[q].mtime
  BY <1>1 DEF Keeping, Unmet
<1> DEFINE m == temp[r].mtime
<1>7. shard'.mtime = m /\ \A q \in Run : m # stamp'[q] /\ m # looked'[q]
  BY <1>0, <1>1
<1>8. \A q \in Run : phase'[q] = "written" => q # r /\ phase[q] = "written" /\ temp'[q] = temp[q]
  BY <1>1 DEF Keeping, CacheTypeOK
<1>9. \A q \in Run : phase'[q] = "written" => temp'[q].mtime # m
  BY <1>0, <1>8
<1>4. Unmet'
  <2> SUFFICES ASSUME NEW q \in Run, phase'[q] = "written"
               PROVE  /\ temp'[q].mtime # shard'.mtime
                      /\ \A p \in Run : /\ temp'[q].mtime # stamp'[p] /\ temp'[q].mtime # looked'[p]
                                        /\ phase'[p] = "written" /\ p # q => temp'[q].mtime # temp'[p].mtime
    BY DEF Unmet
  <2>1. \A p \in Run : /\ temp[q].mtime # stamp[p] /\ temp[q].mtime # looked[p]
                       /\ phase[p] = "written" /\ p # q => temp[q].mtime # temp[p].mtime
    BY <1>8 DEF Keeping, Unmet
  <2>2. temp'[q].mtime # shard'.mtime
    BY <1>7, <1>9
  <2>3. temp'[q] = temp[q] /\ stamp' = stamp /\ looked' = looked
    BY <1>1, <1>8
  <2> QED BY <1>8, <2>1, <2>2, <2>3
<1> HIDE DEF m
<1>5. Fresh'
  BY <1>7 DEF Fresh
<1>6. Carried'
  <2>1. \A q \in Run : phase'[q] = "flushing" => phase[q] = "flushing"
    BY <1>1 DEF Keeping, CacheTypeOK
  <2>2. \A q \in Run : phase'[q] = "flushing" => Keyed(disk'[q]) \subseteq Keyed(pending'[q])
    BY <1>1, <2>1 DEF Keeping, Carried
  <2> QED BY <1>7, <2>2 DEF Carried
<1> QED BY <1>2, <1>3, <1>4, <1>5, <1>6 DEF Kept

LEMMA KeepsFail ==
  ASSUME Keeping, NEW r \in Run, WriteFails(r)
  PROVE  Kept
<1>1. /\ phase' = [phase EXCEPT ![r] = "gone"]
      /\ \A q \in Run : temp'[q] = temp[q] \/ (q = r /\ temp'[q] = NoFile)
      /\ UNCHANGED <<shard, writes, stamp, looked, build_id, disk, pending>>
  BY DEF WriteFails, Keeping, CacheTypeOK
<1>2. NotLater'
  <2>1. NoFile.mtime = 0 /\ writes \in Nat
    BY DEF NoFile, Keeping, CacheTypeOK
  <2>2. \A q \in Run : temp'[q].mtime <= writes
    BY <1>1, <2>1 DEF Keeping, NotLater
  <2> QED BY <1>1, <2>2 DEF Keeping, NotLater
<1>3. Complete' /\ Unmet'
  BY <1>1 DEF Keeping, Complete, Unmet, CacheTypeOK
<1>4. Fresh' /\ Carried'
  BY <1>1 DEF Keeping, Fresh, Carried, Own, CacheTypeOK
<1> QED BY <1>2, <1>3, <1>4 DEF Kept

LEMMA KeepsReadId ==
  ASSUME Keeping, NEW r \in Run, ReadId(r)
  PROVE  Kept
<1>1. /\ phase' = [phase EXCEPT ![r] = "identified"]
      /\ \A q \in Run \ {r} : build_id'[q] = build_id[q]
      /\ UNCHANGED <<shard, temp, writes, stamp, looked, disk, pending>>
  BY DEF ReadId, Goes, Keeping, CacheTypeOK
<1>2. NotLater' /\ Complete' /\ Unmet'
  BY <1>1 DEF Keeping, NotLater, Complete, Unmet, CacheTypeOK
<1>3. Fresh' /\ Carried'
  <2>1. DOMAIN phase = Run
    BY DEF Keeping, CacheTypeOK
  <2>2. phase'[r] = "identified" /\ \A q \in Run \ {r} : phase'[q] = phase[q]
    BY <1>1, <2>1
  <2> QED BY <1>1, <2>2, FreshKept, CarriedKept
<1> QED BY <1>2, <1>3 DEF Kept

LEMMA KeepingStep == Keeping /\ [CacheNext]_cache_vars => Keeping'
<1> SUFFICES ASSUME Keeping, [CacheNext]_cache_vars PROVE Keeping'
  OBVIOUS
<1>1. CacheTypeOK'
  BY CacheTypeStep DEF Keeping
<1>2. CASE Rebuild \/ UNCHANGED cache_vars
  BY <1>1, <1>2, KeepsElsewhere DEF Rebuild, cache_vars, Keeping, Kept
<1>3. ASSUME NEW r \in Run, NEW s \in Source, Hit(r, s) \/ Compile(r, s) \/ Build(r, s) PROVE Keeping'
  BY <1>1, <1>3, KeepsElsewhere DEF Hit, Compile, Build, Keeping, Kept
<1>4. ASSUME NEW r \in Run, Start(r) \/ Killed(r) PROVE Keeping'
  <2>1. \A q \in Run : phase'[q] = phase[q] \/ phase'[q] \in {"started", "gone"}
    BY <1>4 DEF Start, Killed, Goes, Keeping, CacheTypeOK
  <2> QED BY <1>1, <1>4, <2>1, KeepsElsewhere DEF Start, Killed, Keeping, Kept
<1>5. ASSUME NEW r \in Run,
             \/ ReadId(r) \/ Stamp(r) \/ Read(r) \/ Flush(r) \/ Compare(r) \/ Merge(r)
             \/ Write(r) \/ Written(r) \/ Rename(r) \/ WriteFails(r)
      PROVE  Keeping'
  BY <1>1, <1>5, KeepsReadId, KeepsStamp, KeepsRead, KeepsFlush, KeepsCheck, KeepsMerge, KeepsWrite,
     KeepsWritten, KeepsRename, KeepsFail DEF Keeping, Kept
<1> QED BY <1>2, <1>3, <1>4, <1>5 DEF CacheNext

LEMMA KeepingInit == CacheInit => Keeping
<1> SUFFICES ASSUME CacheInit PROVE Keeping
  OBVIOUS
<1>1. NotLater /\ Complete /\ Unmet
  BY DEF CacheInit, NotLater, Complete, Unmet, NoFile
<1>2. Fresh /\ Carried
  BY DEF CacheInit, Fresh, Carried
<1> QED BY <1>1, <1>2, CacheTypeInit DEF Keeping

\* No reader of the shard ever meets a torn file, whoever was killed while writing.
THEOREM ShardWholeCorrect == CacheSpec => []ShardWhole
<1>1. Keeping => ShardWhole
  BY DEF Keeping, Complete, ShardWhole
<1> QED BY <1>1, KeepingInit, KeepingStep, PTL DEF CacheSpec

\* A run that replaces a file it knows keeps every entry of its build, for any
\* number of runs and rebuilds and wherever each is killed.
THEOREM NothingDroppedCorrect == CacheSpec => NothingDropped
<1> DEFINE Keeps == \A r \in Run : Rename(r) /\ looked[r] = shard.mtime =>
                      Keyed(Own(r, shard.entries)) \subseteq Keyed(shard'.entries)
<1>1. Keeping /\ [CacheNext]_cache_vars => [Keeps]_cache_vars
  BY DEF Keeping, Complete, Carried, Rename, Goes
<1> HIDE DEF Keeps
<1>2. CacheSpec => [][Keeps]_cache_vars
  BY <1>1, KeepingInit, KeepingStep, PTL DEF CacheSpec
<1> QED BY <1>2 DEF NothingDropped, Keeps
=============================================================================
