------------------------------ MODULE Children ------------------------------
(***************************************************************************)
(* Child processes: fork and spawn of src/src/stdlib/child_process.rs, and *)
(* the workers of src/src/stdlib/cluster.rs.  A forked child and a cluster *)
(* worker live on, with a record, a handle, and a thread that waits for    *)
(* the process to end; a spawned one has ended before spawn returns and    *)
(* only has its events left.  kill changes nothing here, since a process   *)
(* may end at any time.                                                    *)
(***************************************************************************)
EXTENDS HostIo

CONSTANTS
  Child,   \* ChildProcess objects of fork
  Worker,  \* cluster workers
  Spawned  \* ChildProcess objects of spawn, exec and execFile

Live == Child \cup Worker

VARIABLES
  process,   \* of each live child's OS process: running, or waited for
  CHILDREN   \* CHILDREN and cluster's WORKERS: the children with a record

childVars == <<process, CHILDREN>>

ChildrenInit ==
  /\ process = [c \in Live |-> "none"]
  /\ CHILDREN = {}

----------------------------------------------------------------------------
(* Calls. *)

\* Mutant of fork: no handle is taken.
fork_unheld(c) ==
  /\ c \in Child /\ process[c] = "none" /\ Call /\ Quiet
  /\ process' = [process EXCEPT ![c] = "running"]
  /\ CHILDREN' = CHILDREN \cup {c}
  /\ UNCHANGED open_handles

fork(c) ==
  /\ c \in Child /\ process[c] = "none" /\ Call /\ Quiet
  /\ process' = [process EXCEPT ![c] = "running"]
  /\ CHILDREN' = CHILDREN \cup {c}
  /\ incr_handle

\* cluster.fork: 'fork' is emitted on the spot, 'online' by an IoTask.
cluster_fork(w) ==
  /\ w \in Worker /\ process[w] = "none" /\ Call
  /\ process' = [process EXCEPT ![w] = "running"]
  /\ CHILDREN' = CHILDREN \cup {w}
  /\ incr_handle
  /\ io_rx' = Append(io_rx, IoTask("online", w, 0))
  /\ heard' = [heard EXCEPT ![w] = "fork"]
  /\ UNCHANGED immediates

\* spawned_child: the process has ended, or could not start.
spawn(s) ==
  /\ heard[s] = "nothing" /\ ~\E i \in DOMAIN immediates : immediates[i] = s
  /\ Call
  /\ immediates' = Append(immediates, s)
  /\ UNCHANGED <<open_handles, io_rx, heard, childVars>>

----------------------------------------------------------------------------
(* The waiting threads, and the IoTasks they post. *)

\* wait_child takes the shared handle as it reaps; cluster's reaper waits.
Reap(c) ==
  /\ process[c] = "running"
  /\ process' = [process EXCEPT ![c] = "reaped"]
  /\ io_rx' = Append(io_rx, IoTask(IF c \in Child THEN "childExit" ELSE "workerExit", c, 0))
  /\ UNCHANGED <<open_handles, immediates, task, running, left, calls, heard, CHILDREN>>

\* Mutant of on_child_exit: 'close' first.
on_child_exit_swapped ==
  /\ Received("childExit")
  /\ LET c == Head(io_rx).of IN
     task' = <<Emit(c, "close"), Emit(c, "exit"), Step("release", c)>>
  /\ UNCHANGED <<open_handles, running, heard, childVars>>

on_child_exit ==
  /\ Received("childExit")
  /\ LET c == Head(io_rx).of IN
     task' = <<Emit(c, "exit"), Emit(c, "close"), Step("release", c)>>
  /\ UNCHANGED <<open_handles, running, heard, childVars>>

\* dispatch_exit: the worker's own listeners, then those of cluster.
dispatch_exit ==
  /\ Received("workerExit")
  /\ LET w == Head(io_rx).of IN
     task' = <<Emit(w, "exit"), Emit(w, "clusterExit"), Step("release", w)>>
  /\ UNCHANGED <<open_handles, running, heard, childVars>>

dispatch_online ==
  /\ Received("online")
  /\ LET w == Head(io_rx).of IN
     task' = IF w \in CHILDREN THEN <<Emit(w, "online"), Emit(w, "clusterOnline")>> ELSE <<>>
  /\ UNCHANGED <<open_handles, running, heard, childVars>>


\* The end of on_child_exit and of dispatch_exit; a listener that throws skips
\* it, and the record and its handle stay.
Release ==
  /\ Reached("release")
  /\ CHILDREN' = CHILDREN \ {Head(task).of}
  /\ decr_handle
  /\ io_rx' = IF Head(task).of \in Child THEN Append(io_rx, Wake) ELSE io_rx
  /\ UNCHANGED <<running, heard, process>>

\* Of its two streams only one is followed; output may be empty.
Events(s) ==
  {<<Emit(s, "error"), Emit(s, "close")>>,
   <<Emit(s, "spawn"), Emit(s, "end"), Emit(s, "exit"), Emit(s, "close")>>,
   <<Emit(s, "spawn"), Emit(s, "data"), Emit(s, "end"), Emit(s, "exit"), Emit(s, "close")>>}

child_events ==
  /\ Idle /\ immediates # <<>>
  /\ LET s == Head(immediates) IN
     task' \in Events(s)
  /\ immediates' = Tail(immediates)
  /\ UNCHANGED <<open_handles, io_rx, running, left, calls, heard, childVars>>

ChildCalls ==
  \/ \E c \in Child : fork(c)
  \/ \E w \in Worker : cluster_fork(w)
  \/ \E s \in Spawned : spawn(s)

ChildTasks ==
  on_child_exit \/ dispatch_exit \/ dispatch_online \/ Release \/ child_events

ChildHandles == Cardinality(CHILDREN)
=============================================================================
