----------------------------- MODULE Scheduler -----------------------------
(***************************************************************************)
(* What the event loop promises its programs, with no queue, timer, clock  *)
(* or channel in it: jobs are submitted and withdrawn only by running      *)
(* JavaScript, run one at a time, and the process leaves on its own only   *)
(* when no job that holds it open is left.                                 *)
(***************************************************************************)
CONSTANTS Job,      \* what can be scheduled: callbacks, and open handles
          Root,     \* activations nobody schedules: the program, a handler
          Nobody    \* what runs when no JavaScript does

VARIABLES pending,  \* jobs submitted and not yet run
          holding,  \* those of them that keep the process alive
          running,  \* the activation on the stack
          ended     \* how the loop ended: not yet, on its own, cut short

svars == <<pending, holding, running, ended>>

SchedulerTypeOK ==
  /\ pending \subseteq Job
  /\ holding \subseteq pending
  /\ running \in Job \cup Root \cup {Nobody}
  /\ ended \in {"no", "left", "died"}

SchedulerInit ==
  /\ pending = {} /\ holding = {}
  /\ running \in Root
  /\ ended = "no"

Submit(j) ==
  /\ running # Nobody /\ j \notin pending
  /\ pending' = pending \cup {j}
  /\ holding' = holding \cup {j}
  /\ UNCHANGED <<running, ended>>

Withdraw(j) ==
  /\ running # Nobody /\ j \in pending
  /\ pending' = pending \ {j}
  /\ holding' = holding \ {j}
  /\ UNCHANGED <<running, ended>>

Ref(j) ==
  /\ running # Nobody /\ j \in pending
  /\ holding' = holding \cup {j}
  /\ UNCHANGED <<pending, running, ended>>

Unref(j) ==
  /\ running # Nobody /\ j \in pending
  /\ holding' = holding \ {j}
  /\ UNCHANGED <<pending, running, ended>>

\* A repeating job stays pending, and keeps its hold, while it runs.
Begin(j) ==
  /\ running = Nobody /\ ended = "no" /\ j \in pending
  /\ running' = j
  /\ \/ pending' = pending \ {j} /\ holding' = holding \ {j}
     \/ UNCHANGED <<pending, holding>>
  /\ UNCHANGED ended

End == running # Nobody /\ running' = Nobody /\ UNCHANGED <<pending, holding, ended>>

\* A listener of the process is called: by an exception, or by the loop for a
\* rejection.  Or none is, and the process dies.
Recover == running' \in Root /\ UNCHANGED <<pending, holding, ended>>
Die == running' = Nobody /\ ended' = "died" /\ UNCHANGED <<pending, holding>>

Exit ==
  /\ running = Nobody /\ holding = {}
  /\ ended' = "left"
  /\ UNCHANGED <<pending, holding, running>>

SchedulerNext ==
  \/ \E j \in Job : Submit(j) \/ Withdraw(j) \/ Ref(j) \/ Unref(j) \/ Begin(j)
  \/ End \/ Recover \/ Die \/ Exit

SchedulerSpec == SchedulerInit /\ [][SchedulerNext]_svars
=============================================================================
