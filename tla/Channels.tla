------------------------------ MODULE Channels ------------------------------
(***************************************************************************)
(* MessageChannel and BroadcastChannel of src/src/stdlib/worker_threads.rs *)
(* on one thread.  A port has a queue; while it is started, each message   *)
(* for it also posts one IoTask that takes one message out, and holds the  *)
(* loop until then.  receiveMessageOnPort takes messages out as well.      *)
(* Messages are counted: their contents do not matter here.                *)
(***************************************************************************)
EXTENDS HostIo

CONSTANTS
  Port, Peer,     \* the ports of the program's MessageChannels, and their peers
  Broadcast       \* BroadcastChannels of one name

ASSUME PeerAssumption ==
  Peer \in [Port -> Port] /\ \A p \in Port : Peer[Peer[p]] = p

VARIABLES
  CH_QUEUE,     \* how many messages wait for each port
  CH_STARTED,   \* the ports whose messages are delivered
  BCAST,        \* the channels of the name, in the order of their construction
  refed,        \* the channels that hold the loop
  closed        \* the channels that were closed

chVars == <<CH_QUEUE, CH_STARTED, BCAST, refed, closed>>
portVars == <<CH_QUEUE, CH_STARTED>>
bcastVars == <<BCAST, refed, closed>>

ChannelsInit ==
  /\ CH_QUEUE = [p \in Port |-> 0] /\ CH_STARTED = {}
  /\ BCAST = <<>> /\ refed = {} /\ closed = {}

Count(kind, of) == Cardinality({i \in DOMAIN io_rx : io_rx[i].kind = kind /\ io_rx[i].of = of})
Copies(t, n) == [i \in 1 .. n |-> t]

\* schedule_channel_delivery, n times.
Schedule(p, n) ==
  /\ open_handles' = open_handles + n
  /\ io_rx' = io_rx \o Copies(IoTask("deliver", p, 0), n)
  /\ UNCHANGED <<immediates, heard>>

\* Mutant of channel_post: a delivery is scheduled for the first message only.
channel_post_first(p) ==
  LET peer == Peer[p] IN
  /\ Call
  /\ CH_QUEUE' = [CH_QUEUE EXCEPT ![peer] = @ + 1]
  /\ Schedule(peer, IF peer \in CH_STARTED /\ CH_QUEUE[peer] = 0 THEN 1 ELSE 0)
  /\ UNCHANGED <<CH_STARTED, bcastVars>>

channel_post(p) ==
  LET peer == Peer[p] IN
  /\ Call
  /\ CH_QUEUE' = [CH_QUEUE EXCEPT ![peer] = @ + 1]
  /\ Schedule(peer, IF peer \in CH_STARTED THEN 1 ELSE 0)
  /\ UNCHANGED <<CH_STARTED, bcastVars>>

\* A first 'message' listener, or start().
start_channel_port(p) ==
  /\ p \notin CH_STARTED /\ Call
  /\ CH_STARTED' = CH_STARTED \cup {p}
  /\ Schedule(p, CH_QUEUE[p])
  /\ UNCHANGED <<CH_QUEUE, bcastVars>>

\* close() only stops new deliveries; those scheduled still come.
ClosePort(p) ==
  /\ p \in CH_STARTED /\ Call /\ Quiet
  /\ CH_STARTED' = CH_STARTED \ {p}
  /\ UNCHANGED <<open_handles, CH_QUEUE, bcastVars>>

receive_message_on_port(p) ==
  /\ CH_QUEUE[p] > 0 /\ Call /\ Quiet
  /\ CH_QUEUE' = [CH_QUEUE EXCEPT ![p] = @ - 1]
  /\ UNCHANGED <<open_handles, CH_STARTED, bcastVars>>

\* One message if there is one, then the handle goes back (Delivered).
channel_deliver ==
  /\ Received("deliver")
  /\ LET p == Head(io_rx).of IN
     /\ CH_QUEUE' = [CH_QUEUE EXCEPT ![p] = IF @ > 0 THEN @ - 1 ELSE 0]
     /\ running' = (CH_QUEUE[p] > 0)
     /\ task' = <<Step("delivered", p)>>
  /\ UNCHANGED <<open_handles, heard, CH_STARTED, bcastVars>>

\* The end of channel_deliver and of broadcast_deliver.
Delivered ==
  /\ Reached("delivered")
  /\ decr_handle
  /\ UNCHANGED <<io_rx, running, heard, chVars>>

\* A listener's error is printed and the delivery goes on.
CaughtThrow ==
  /\ running /\ Caught
  /\ running' = FALSE
  /\ UNCHANGED <<open_handles, io_rx, immediates, task, left, calls, heard, chVars>>

----------------------------------------------------------------------------
(* BroadcastChannel. *)

Registered(b) == \E i \in DOMAIN BCAST : BCAST[i] = b
Made(b) == Registered(b) \/ b \in closed

construct_broadcast_channel(b) ==
  /\ ~Made(b) /\ Call /\ Quiet
  /\ BCAST' = Append(BCAST, b) /\ refed' = refed \cup {b}
  /\ incr_handle
  /\ UNCHANGED <<portVars, closed>>

\* The other channels of the name; b is registered at most once.
Others(b) ==
  IF ~Registered(b) THEN BCAST
  ELSE LET i == CHOOSE i \in DOMAIN BCAST : BCAST[i] = b
       IN SubSeq(BCAST, 1, i - 1) \o SubSeq(BCAST, i + 1, Len(BCAST))

\* Also when this one is closed.
BroadcastPost(b) ==
  LET targets == Others(b) IN
  /\ Made(b) /\ targets # <<>> /\ Call
  /\ open_handles' = open_handles + Len(targets)
  /\ io_rx' = io_rx \o [i \in DOMAIN targets |-> IoTask("broadcast", targets[i], 0)]
  /\ UNCHANGED <<immediates, heard, chVars>>

release_broadcast_ref(b) ==
  IF b \in refed THEN decr_handle /\ refed' = refed \ {b}
                 ELSE UNCHANGED <<open_handles, refed>>

BroadcastClose(b) ==
  /\ Registered(b) /\ Call /\ Quiet
  /\ BCAST' = Others(b)
  /\ closed' = closed \cup {b}
  /\ release_broadcast_ref(b)
  /\ UNCHANGED portVars

\* Also on a closed channel, which then holds the loop for good.
BroadcastRef(b) ==
  /\ Made(b) /\ b \notin refed /\ Call /\ Quiet
  /\ refed' = refed \cup {b}
  /\ incr_handle
  /\ UNCHANGED <<portVars, BCAST, closed>>

BroadcastUnref(b) ==
  /\ Made(b) /\ Call /\ Quiet
  /\ release_broadcast_ref(b)
  /\ UNCHANGED <<portVars, BCAST, closed>>

\* The target's handlers, whether or not it was closed since.
broadcast_deliver ==
  /\ Received("broadcast")
  /\ running' = TRUE /\ task' = <<Step("delivered", Head(io_rx).of)>>
  /\ UNCHANGED <<open_handles, heard, chVars>>

ChannelCalls ==
  \/ \E p \in Port : \/ channel_post(p) \/ start_channel_port(p) \/ ClosePort(p)
                     \/ receive_message_on_port(p)
  \/ \E b \in Broadcast : \/ construct_broadcast_channel(b) \/ BroadcastPost(b)
                          \/ BroadcastClose(b) \/ BroadcastRef(b) \/ BroadcastUnref(b)

ChannelTasks == channel_deliver \/ Delivered \/ CaughtThrow \/ broadcast_deliver

\* The handles of this module: one for each delivery to come, one for each
\* channel that has not been unreferenced.
ChannelHandles ==
  Cardinality({i \in DOMAIN io_rx : io_rx[i].kind \in {"deliver", "broadcast"}})
    + (IF Caught THEN 1 ELSE 0) + Cardinality(refed)

\* A started port has a delivery scheduled for every message that waits for it
\* (the one being run has taken its own), however start(), close() and
\* receiveMessageOnPort interleave with the deliveries.
StartedPortsDrain ==
  \A p \in CH_STARTED : CH_QUEUE[p] <= Count("deliver", p)
=============================================================================
