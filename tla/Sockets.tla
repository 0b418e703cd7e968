------------------------------ MODULE Sockets ------------------------------
(***************************************************************************)
(* TCP sockets and servers (src/src/stdlib/net.rs) and UDP sockets         *)
(* (src/src/stdlib/dgram.rs).  A server or a UDP socket that is open has a *)
(* record and a thread that posts what arrives until it sees the stop      *)
(* flag; a TCP socket has a thread that connects and one that reads.  The  *)
(* peers are the environment: they accept or refuse, send, end, or break   *)
(* the connection.                                                         *)
(*                                                                         *)
(* Abstraction: a program connects a socket again only when its last       *)
(* connection has failed or closed, and listens again only after close();  *)
(* the code checks neither, and doing so loses the earlier record.         *)
(***************************************************************************)
EXTENDS HostIo

CONSTANTS
  Socket,       \* TCP sockets, connecting or accepted
  Server,       \* TCP servers
  Udp,          \* UDP sockets
  MaxArrivals   \* bound: connections and datagrams that arrive at one record

ASSUME SocketsBounds == MaxArrivals \in Nat \ {0}
Endpoint == Server \cup Udp
ASSUME EndpointAssumption == Endpoint \subseteq Emitter

VARIABLES
  connecting,  \* sockets whose connection is being made or is yet to be reported
  sockets,     \* NET.sockets: the sockets with a record
  reading,     \* sockets with a reader thread
  used,        \* sockets that exist: constructed or accepted
  records,     \* the id of each endpoint's record, 0 for none
  ids,         \* the last id each endpoint was given
  threads,     \* <<endpoint, id>> of the accept and receive threads
  arrivals,    \* how much arrived at each endpoint's last record
  lost         \* handles no record stands for: a 'close' listener threw

netVars == <<connecting, sockets, reading, used, records, ids, threads, arrivals, lost>>
tcpVars == <<connecting, sockets, reading, used, lost>>
endpointVars == <<records, ids, threads, arrivals>>

SocketsInit ==
  /\ connecting = {} /\ sockets = {} /\ reading = {} /\ used = {} /\ lost = 0
  /\ records = [e \in Endpoint |-> 0] /\ ids = [e \in Endpoint |-> 0]
  /\ arrivals = [e \in Endpoint |-> 0] /\ threads = {}

Post(t) == io_rx' = Append(io_rx, t)

----------------------------------------------------------------------------
(* Servers and UDP sockets: calls. *)

\* server_listen; bind or the first send of a UDP socket (do_bind).  "after" is
\* the task that emits 'listening', or the one that calls send's callback.
Open(e, after) ==
  /\ records' = [records EXCEPT ![e] = ids[e] + 1]
  /\ ids' = [ids EXCEPT ![e] = ids[e] + 1]
  /\ arrivals' = [arrivals EXCEPT ![e] = 0]
  /\ threads' = threads \cup {<<e, ids[e] + 1>>}
  /\ incr_handle
  /\ Post(after)

server_listen(v) ==
  /\ records[v] = 0 /\ Call
  /\ Open(v, IoTask("listening", v, 0))
  /\ UNCHANGED <<immediates, heard, tcpVars>>

\* bind on a bound socket only posts 'listening' again.
socket_bind(u) ==
  /\ Call
  /\ IF records[u] = 0 THEN Open(u, IoTask("listening", u, 0))
     ELSE Post(IoTask("listening", u, 0)) /\ UNCHANGED <<open_handles, endpointVars>>
  /\ UNCHANGED <<immediates, heard, tcpVars>>

socket_send(u) ==
  /\ Call
  /\ IF records[u] = 0 THEN Open(u, IoTask("sent", u, 0))
     ELSE Post(IoTask("sent", u, 0)) /\ UNCHANGED <<open_handles, endpointVars>>
  /\ UNCHANGED <<immediates, heard, tcpVars>>

\* Mutant of CloseEndpoint: closing a closed one gives a handle back again.
CloseEndpointTwice(e) ==
  /\ ids[e] > 0 /\ Call
  /\ records' = [records EXCEPT ![e] = 0]
  /\ decr_handle /\ Post(Wake)
  /\ heard' = [heard EXCEPT ![e] = "close"]
  /\ UNCHANGED <<immediates, tcpVars, ids, threads, arrivals>>

\* server_close and dgram's socket_close: the callback and 'close' run before
\* the call returns, whether or not there was a record.
CloseEndpoint(e) ==
  /\ Call
  /\ records' = [records EXCEPT ![e] = 0]
  /\ IF records[e] # 0 THEN decr_handle /\ Post(Wake)
                       ELSE UNCHANGED <<open_handles, io_rx>>
  /\ heard' = [heard EXCEPT ![e] = "close"]
  /\ UNCHANGED <<immediates, tcpVars, ids, threads, arrivals>>

(* TCP sockets: calls.  write, end and destroy change nothing here. *)

socket_connect(s) ==
  /\ s \notin connecting \cup sockets /\ Call /\ Quiet
  /\ connecting' = connecting \cup {s} /\ used' = used \cup {s}
  /\ incr_handle
  /\ UNCHANGED <<sockets, reading, lost, endpointVars>>

----------------------------------------------------------------------------
(* Background threads. *)

\* The accept loop, or recv_loop.  The stop flag is looked at between two
\* arrivals, so the thread may post after close().
Arrive(e, id) ==
  /\ <<e, id>> \in threads /\ arrivals[e] < MaxArrivals /\ Len(io_rx) < MaxTasks
  /\ Post(IoTask(IF e \in Server THEN "connection" ELSE "message", e, id))
  /\ arrivals' = [arrivals EXCEPT ![e] = IF ids[e] = id THEN @ + 1 ELSE @]
  /\ UNCHANGED <<open_handles, immediates, task, running, left, calls, heard,
                 tcpVars, records, ids, threads>>

StopThread(e, id) ==
  /\ <<e, id>> \in threads /\ records[e] # id
  /\ threads' = threads \ {<<e, id>>}
  /\ UNCHANGED <<hostVars, tcpVars, records, ids, arrivals>>

Reported(s) == \E i \in DOMAIN io_rx : io_rx[i].kind \in {"connect", "connectError"}
                                       /\ io_rx[i].of = s

\* The thread in TcpStream::connect.
Connect(s, kind) ==
  /\ s \in connecting /\ ~Reported(s)
  /\ Post(IoTask(kind, s, 0))
  /\ UNCHANGED <<open_handles, immediates, task, running, left, calls, heard, netVars>>

\* reader_loop: bytes, the peer's end, or an error; the last two end the thread.
ReadData(s) ==
  /\ s \in reading /\ Len(io_rx) < MaxTasks
  /\ Post(IoTask("data", s, 0))
  /\ UNCHANGED <<open_handles, immediates, task, running, left, calls, heard, netVars>>

ReadEnd(s, kind) ==
  /\ s \in reading
  /\ Post(IoTask(kind, s, 0))
  /\ reading' = reading \ {s}
  /\ UNCHANGED <<open_handles, immediates, task, running, left, calls, heard,
                 connecting, sockets, used, lost, endpointVars>>

----------------------------------------------------------------------------
(* IoTasks. *)

\* 'listening' and listen's callback, even if it was closed meanwhile.
RunListening ==
  /\ Received("listening")
  /\ task' = <<Emit(Head(io_rx).of, "listening")>>
  /\ UNCHANGED <<open_handles, running, heard, netVars>>

RunSent ==
  /\ Received("sent")
  /\ running' = TRUE
  /\ UNCHANGED <<open_handles, task, heard, netVars>>

\* Mutant of on_connection: the record is not looked up again.
on_connection_unchecked ==
  /\ Received("connection")
  /\ \E s \in Socket \ used :
       /\ used' = used \cup {s} /\ sockets' = sockets \cup {s} /\ reading' = reading \cup {s}
       /\ incr_handle
       /\ task' = <<Emit(Head(io_rx).of, "connection")>>
  /\ UNCHANGED <<running, heard, connecting, lost, endpointVars>>

\* A connection for a record that is gone is dropped; so is one there is no
\* file descriptor for.  The listener of createServer runs with the event's.
on_connection ==
  /\ Received("connection")
  /\ LET t == Head(io_rx) IN
     \/ /\ records[t.of] = t.id
        /\ \E s \in Socket \ used :
             /\ used' = used \cup {s} /\ sockets' = sockets \cup {s}
             /\ reading' = reading \cup {s}
        /\ incr_handle
        /\ task' = <<Emit(t.of, "connection")>>
     \/ UNCHANGED <<open_handles, task, used, sockets, reading>>
  /\ UNCHANGED <<running, heard, connecting, lost, endpointVars>>

on_message ==
  /\ Received("message")
  /\ LET t == Head(io_rx) IN
     IF records[t.of] = t.id THEN task' = <<Emit(t.of, "message")>> ELSE UNCHANGED task
  /\ UNCHANGED <<open_handles, running, heard, netVars>>

\* Without a descriptor for the reader the handle is given back in silence.
on_connect ==
  /\ Received("connect")
  /\ LET s == Head(io_rx).of IN
     /\ connecting' = connecting \ {s}
     /\ \/ /\ sockets' = sockets \cup {s} /\ reading' = reading \cup {s}
           /\ task' = <<Emit(s, "connect")>>
           /\ UNCHANGED open_handles
        \/ decr_handle /\ UNCHANGED <<sockets, reading, task>>
  /\ UNCHANGED <<running, heard, used, lost, endpointVars>>

on_connect_error ==
  /\ Idle /\ immediates = <<>> /\ open_handles > 0
  /\ io_rx # <<>> /\ Head(io_rx).kind = "connectError"
  /\ decr_handle
  /\ io_rx' = Append(Tail(io_rx), Wake)
  /\ task' = <<Emit(Head(io_rx).of, "error")>>
  /\ connecting' = connecting \ {Head(io_rx).of}
  /\ UNCHANGED <<immediates, running, left, calls, heard,
                 sockets, reading, used, lost, endpointVars>>

\* http::feed, which may run JavaScript too, and the 'data' listeners.
on_socket_data ==
  /\ Received("data")
  /\ LET s == Head(io_rx).of IN
     IF s \in sockets THEN task' = <<Emit(s, "data")>> ELSE UNCHANGED task
  /\ UNCHANGED <<open_handles, running, heard, netVars>>

on_socket_end ==
  /\ Received("end")
  /\ LET s == Head(io_rx).of IN
     task' = IF s \in sockets THEN <<Emit(s, "end"), Step("close", s)>>
                              ELSE <<Step("close", s)>>
  /\ UNCHANGED <<open_handles, running, heard, netVars>>

\* The reader failed: on_socket_close, without 'end'.
RunSocketError ==
  /\ Received("broken")
  /\ task' = <<Step("close", Head(io_rx).of)>>
  /\ UNCHANGED <<open_handles, running, heard, netVars>>


\* The record goes, 'close' is emitted, then the handle goes back (Closed).
on_socket_close ==
  /\ ~running /\ left = "no"
  /\ task # <<>> /\ Head(task).do = "close"
  /\ LET s == Head(task).of IN
     /\ sockets' = sockets \ {s}
     /\ task' = IF s \in sockets THEN <<Emit(s, "close"), Step("closed", s)>> ELSE <<>>
  /\ UNCHANGED <<open_handles, io_rx, immediates, running, left, calls, heard,
                 connecting, reading, used, lost, endpointVars>>

Closed ==
  /\ Reached("closed")
  /\ decr_handle /\ Post(Wake)
  /\ UNCHANGED <<running, heard, netVars>>

\* A 'close' listener that throws skips Closed: Throw, with this for netVars.
LoseHandle ==
  /\ lost' = IF \E i \in DOMAIN task : task[i].do = "closed" THEN lost + 1 ELSE lost
  /\ UNCHANGED <<connecting, sockets, reading, used, endpointVars>>

SocketCalls ==
  \/ \E s \in Socket : socket_connect(s)
  \/ \E v \in Server : server_listen(v)
  \/ \E u \in Udp : socket_bind(u) \/ socket_send(u)
  \/ \E e \in Endpoint : CloseEndpoint(e)

SocketThreads ==
  \/ \E e \in Endpoint, id \in 1 .. MaxCalls : Arrive(e, id) \/ StopThread(e, id)
  \/ \E s \in Socket :
       \/ \E kind \in {"connect", "connectError"} : Connect(s, kind)
       \/ ReadData(s)
       \/ \E kind \in {"end", "broken"} : ReadEnd(s, kind)

SocketTasks ==
  \/ RunListening \/ RunSent \/ on_connection \/ on_message \/ on_connect
  \/ on_connect_error \/ on_socket_data \/ on_socket_end \/ RunSocketError
  \/ on_socket_close \/ Closed

\* The handles of this module: one for each connection being made, each
\* record, each socket between its record and its handle.
SocketHandles ==
  Cardinality(connecting) + Cardinality(sockets) + lost
    + Cardinality({e \in Endpoint : records[e] # 0})
    + Cardinality({i \in DOMAIN task : task[i].do = "closed"})
=============================================================================
