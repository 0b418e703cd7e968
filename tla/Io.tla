--------------------------------- MODULE Io ---------------------------------
(***************************************************************************)
(* Sockets, child processes and channels on one loop: one handle count and *)
(* one channel of IoTasks for all of them (src/src/host.rs).  Each keeps   *)
(* its own account of the handles it took; what can go wrong is that the   *)
(* sum is off, so that the loop leaves too early or never.                 *)
(***************************************************************************)
EXTENDS Sockets, Children, Channels

\* Every object that emits is followed, and is of one kind.
ASSUME EmitterAssumption ==
  /\ Socket \cup Live \cup Spawned \subseteq Emitter
  /\ Socket \cap (Endpoint \cup Live \cup Spawned) = {}
  /\ Endpoint \cap (Live \cup Spawned) = {}
  /\ Child \cap (Worker \cup Spawned) = {} /\ Worker \cap Spawned = {}

vars == <<hostVars, netVars, childVars, chVars>>

Init == HostInit /\ SocketsInit /\ ChildrenInit /\ ChannelsInit

Next ==
  \/ (Return \/ RunWake \/ RunEmit \/ Leave) /\ UNCHANGED <<netVars, childVars, chVars>>
  \/ Throw /\ LoseHandle /\ UNCHANGED <<childVars, chVars>>
  \/ (SocketCalls \/ SocketThreads \/ SocketTasks) /\ UNCHANGED <<childVars, chVars>>
  \/ (ChildCalls \/ (\E c \in Live : Reap(c)) \/ ChildTasks) /\ UNCHANGED <<netVars, chVars>>
  \/ (ChannelCalls \/ ChannelTasks) /\ UNCHANGED <<netVars, childVars>>

\* JavaScript ends, by returning or throwing, and the loop goes on.
Loop ==
  \/ (RunWake \/ RunEmit \/ Leave) /\ UNCHANGED <<netVars, childVars, chVars>>
  \/ SocketTasks /\ UNCHANGED <<childVars, chVars>>
  \/ ChildTasks /\ UNCHANGED <<netVars, chVars>>
  \/ (channel_deliver \/ Delivered \/ broadcast_deliver) /\ UNCHANGED <<netVars, childVars>>

Ends == Return /\ UNCHANGED <<netVars, childVars, chVars>>

\* A connection attempt is answered, a peer ends or fails, a process ends.
Answers(s) == (\E kind \in {"connect", "connectError"} : Connect(s, kind)) /\ UNCHANGED <<childVars, chVars>>
PeerEnds(s) == (\E kind \in {"end", "broken"} : ReadEnd(s, kind)) /\ UNCHANGED <<childVars, chVars>>
ProcessEnds(c) == Reap(c) /\ UNCHANGED <<netVars, chVars>>

Spec == Init /\ [][Next]_vars

FairSpec ==
  /\ Spec
  /\ WF_vars(Loop) /\ WF_vars(Ends)
  /\ \A s \in Socket : WF_vars(Answers(s)) /\ WF_vars(PeerEnds(s))
  /\ \A c \in Live : WF_vars(ProcessEnds(c))

----------------------------------------------------------------------------
(* The handle count kept by hand in five modules is the number of          *)
(* connections, records, deliveries and referenced channels that exist,    *)
(* whichever listener threw (host.rs, incr_handle and decr_handle).        *)
HandlesCounted ==
  left = "no" => open_handles = SocketHandles + ChildHandles + ChannelHandles

(* The order in which an emitter's events are heard, across the threads    *)
(* that post them: a reader, a connector, an accept loop, a reaper.        *)
Follows ==
  [o \in Emitter |->
    IF o \in Socket THEN
      {<<"nothing", "connect">>, <<"nothing", "error">>, <<"error", "connect">>,
       <<"close", "connect">>, <<"close", "error">>, <<"connect", "close">>,
       <<"data", "close">>, <<"end", "close">>, <<"nothing", "close">>}
      \cup {"nothing", "connect"} \X {"data", "end"} \cup {<<"data", "end">>}
    ELSE IF o \in Child THEN {<<"nothing", "exit">>, <<"exit", "close">>}
    ELSE IF o \in Worker THEN
      {<<"nothing", "fork">>, <<"fork", "online">>, <<"online", "clusterOnline">>,
       <<"online", "exit">>, <<"clusterOnline", "exit">>, <<"exit", "clusterExit">>}
    ELSE IF o \in Spawned THEN
      {<<"nothing", "error">>, <<"error", "close">>, <<"nothing", "spawn">>,
       <<"spawn", "data">>, <<"spawn", "end">>, <<"data", "end">>, <<"end", "exit">>,
       <<"exit", "close">>}
    ELSE {"nothing", "listening", "connection", "message", "close"}
           \X {"listening", "connection", "message", "close"}]

EventsInOrder ==
  [][\A o \in Emitter : heard'[o] # heard[o] => <<heard[o], heard'[o]>> \in Follows[o]]_vars

(* After close() returns, a server reports no connection and a UDP socket  *)
(* no message that its thread had already posted.                          *)
ClosedMeansSilent ==
  [][\A e \in Endpoint : heard'[e] \in {"connection", "message"} /\ heard'[e] # heard[e]
       => records[e] # 0]_vars


\* The end of a process is heard, whatever else the loop is held by.
EndsAreHeard ==
  \A c \in Live :
    process[c] = "reaped" ~> heard[c] \in {"exit", "close", "clusterExit"} \/ left = "died"

\* What may rightly hold the loop when nothing happens any more: an endpoint
\* the program did not close, a channel it did not unreference; and what a
\* listener that threw left behind.
Held ==
  \/ \E e \in Endpoint : records[e] # 0
  \/ refed # {}
  \/ lost > 0
  \/ \E s \in sockets : heard[s] = "end"
  \/ \E c \in CHILDREN : heard[c] \in {"exit", "close", "clusterExit"}

=============================================================================
