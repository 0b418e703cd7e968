------------------------------ MODULE IoProofs ------------------------------
(* Theorems about Io, for every value of its constants. *)
EXTENDS Io, FiniteSetTheorems, SequenceTheorems, TLAPS

USE DEF hostVars, netVars, tcpVars, endpointVars, childVars, chVars, portVars, bcastVars

----------------------------------------------------------------------------
(* How many elements of a sequence lie in a set, as elements come and go. *)

Places(q, A) == {i \in DOMAIN q : q[i] \in A}
Num(q, A) == Cardinality(Places(q, A))

(* The places are finitely many. *)
LEMMA PlacesFinite ==
  ASSUME NEW S, NEW q \in Seq(S), NEW A
  PROVE  IsFiniteSet(Places(q, A)) /\ Num(q, A) \in Nat
<1>1. IsFiniteSet(1 .. Len(q))
  BY FS_Interval, LenProperties
<1>2. Places(q, A) \in SUBSET (1 .. Len(q))
  BY LenProperties DEF Places
<1> QED BY <1>1, <1>2, FS_Subset, FS_CardinalityType DEF Num

(* Elements that all lie outside the set count for nothing. *)
LEMMA NumNone ==
  ASSUME NEW q, NEW A, \A i \in DOMAIN q : q[i] \notin A
  PROVE  Num(q, A) = 0
<1>1. Places(q, A) = {}
  BY DEF Places
<1> QED BY <1>1, FS_EmptySet DEF Num

(* Of a sequence of which at most the last element is in the set. *)
LEMMA NumLast ==
  ASSUME NEW S, NEW q \in Seq(S), NEW A, q # <<>>,
         \A i \in 1 .. Len(q) - 1 : q[i] \notin A
  PROVE  Num(q, A) = IF q[Len(q)] \in A THEN 1 ELSE 0
<1>1. CASE q[Len(q)] \in A
  <2>1. Places(q, A) = {Len(q)}
    BY <1>1, LenProperties, EmptySeq DEF Places
  <2> QED BY <1>1, <2>1, FS_Singleton DEF Num
<1>2. CASE q[Len(q)] \notin A
  <2>1. \A i \in DOMAIN q : q[i] \notin A
    BY <1>2, LenProperties
  <2> QED BY <1>2, <2>1, NumNone
<1> QED BY <1>1, <1>2

(* An element that is appended. *)
LEMMA NumAppend ==
  ASSUME NEW S, NEW q \in Seq(S), NEW t \in S, NEW A
  PROVE  Num(Append(q, t), A) = Num(q, A) + IF t \in A THEN 1 ELSE 0
<1> DEFINE n == Len(q)
<1>0. n \in Nat /\ DOMAIN q = 1 .. n /\ DOMAIN Append(q, t) = 1 .. n + 1
  BY LenProperties, AppendProperties
<1>1. /\ \A i \in 1 .. n : Append(q, t)[i] = q[i]
      /\ Append(q, t)[n + 1] = t
  BY AppendProperties
<1>2. CASE t \in A
  <2>1. Places(Append(q, t), A) = Places(q, A) \cup {n + 1}
    BY <1>0, <1>1, <1>2 DEF Places
  <2>2. n + 1 \notin Places(q, A)
    BY <1>0 DEF Places
  <2> QED BY <1>2, <2>1, <2>2, PlacesFinite, FS_AddElement DEF Num
<1>3. CASE t \notin A
  <2>1. Places(Append(q, t), A) = Places(q, A)
    BY <1>0, <1>1, <1>3 DEF Places
  <2> QED BY <1>3, <2>1, PlacesFinite DEF Num
<1> QED BY <1>2, <1>3

(* An element that is taken off the front. *)
LEMMA NumTail ==
  ASSUME NEW S, NEW q \in Seq(S), NEW A, q # <<>>
  PROVE  Num(Tail(q), A) = Num(q, A) - IF Head(q) \in A THEN 1 ELSE 0
<1> DEFINE n == Len(q)
<1>0. /\ n \in Nat \ {0} /\ DOMAIN q = 1 .. n /\ Tail(q) \in Seq(S)
      /\ DOMAIN Tail(q) = 1 .. n - 1 /\ Head(q) = q[1]
      /\ \A i \in 1 .. n - 1 : Tail(q)[i] = q[i + 1]
  BY LenProperties, HeadTailProperties, EmptySeq
<1> DEFINE T == Places(Tail(q), A)
           Q == Places(q, A) \ {1}
           f == [i \in T |-> i + 1]
<1> HIDE DEF n
<1>1. T \subseteq 1 .. n - 1 /\ Q \subseteq 2 .. n
  BY <1>0 DEF Places
<1>2. \A i \in T : i + 1 \in Q
  BY <1>0 DEF Places
<1>3. \A j \in Q : j - 1 \in T
  BY <1>0 DEF Places
<1>4. f \in Bijection(T, Q)
  <2> HIDE DEF T, Q
  <2>1. f \in [T -> Q]
    BY <1>2
  <2>2. \A i, j \in T : f[i] = f[j] => i = j
    BY <1>1
  <2>3. \A j \in Q : \E i \in T : f[i] = j
    BY <1>1, <1>3
  <2> QED BY <2>1, <2>2, <2>3 DEF Bijection, Injection, Surjection, IsInjective
<1>5. Cardinality(Q) = Cardinality(T)
  <2>1. IsFiniteSet(T)
    BY <1>0, PlacesFinite
  <2> HIDE DEF T, Q
  <2>2. ExistsBijection(T, Q)
    BY <1>4 DEF ExistsBijection
  <2> QED BY <2>1, <2>2, FS_Bijection
<1>6. Cardinality(Q) = Num(q, A) - IF 1 \in Places(q, A) THEN 1 ELSE 0
  <2>1. IsFiniteSet(Places(q, A)) /\ Num(q, A) \in Nat
    BY PlacesFinite
  <2>2. Cardinality(Places(q, A) \ {1}) =
          IF 1 \in Places(q, A) THEN Cardinality(Places(q, A)) - 1 ELSE Cardinality(Places(q, A))
    BY <2>1, FS_RemoveElement
  <2> QED BY <2>1, <2>2 DEF Num
<1>7. 1 \in Places(q, A) <=> Head(q) \in A
  BY <1>0 DEF Places
<1> QED BY <1>5, <1>6, <1>7 DEF Num

(* A sequence that is appended. *)
LEMMA PlacesConcat ==
  ASSUME NEW S, NEW q \in Seq(S), NEW r \in Seq(S), NEW A
  PROVE  /\ Len(q) \in Nat /\ Len(r) \in Nat
         /\ Places(q, A) \subseteq 1 .. Len(q)
         /\ Places(q \o r, A) =
              Places(q, A) \cup {i \in Len(q) + 1 .. Len(q) + Len(r) : r[i - Len(q)] \in A}
         /\ DOMAIN r = 1 .. Len(r)
<1> DEFINE n == Len(q)
           m == Len(r)
<1>0. /\ n \in Nat /\ m \in Nat /\ DOMAIN q = 1 .. n /\ DOMAIN r = 1 .. m
      /\ q \o r \in Seq(S) /\ DOMAIN (q \o r) = 1 .. n + m
      /\ \A i \in 1 .. n + m : (q \o r)[i] = IF i <= n THEN q[i] ELSE r[i - n]
  BY LenProperties, ConcatProperties
<1> HIDE DEF n, m
<1>1. Places(q \o r, A) = Places(q, A) \cup {i \in n + 1 .. n + m : r[i - n] \in A}
  BY <1>0 DEF Places
<1>2. Places(q, A) \subseteq 1 .. n
  BY <1>0 DEF Places
<1> QED BY <1>0, <1>1, <1>2 DEF n, m

(* ... whose elements all lie in the set, ... *)
LEMMA NumConcatIn ==
  ASSUME NEW S, NEW q \in Seq(S), NEW r \in Seq(S), NEW A, \A i \in DOMAIN r : r[i] \in A
  PROVE  Num(q \o r, A) = Num(q, A) + Len(r)
<1> DEFINE new == Len(q) + 1 .. Len(q) + Len(r)
<1>1. /\ Len(q) \in Nat /\ Len(r) \in Nat /\ Places(q, A) \subseteq 1 .. Len(q)
      /\ Places(q \o r, A) = Places(q, A) \cup {i \in new : r[i - Len(q)] \in A}
      /\ DOMAIN r = 1 .. Len(r)
  BY PlacesConcat
<1>2. \A i \in new : r[i - Len(q)] \in A
  BY <1>1
<1>3. IsFiniteSet(new) /\ Cardinality(new) = Len(r)
  <2>1. Len(q) + 1 \in Int /\ Len(q) + Len(r) \in Int
    BY <1>1
  <2>2. /\ IsFiniteSet(new)
        /\ Cardinality(new) = IF Len(q) + 1 > Len(q) + Len(r) THEN 0
                              ELSE (Len(q) + Len(r)) - (Len(q) + 1) + 1
    BY <2>1, FS_Interval
  <2> QED BY <1>1, <2>2
<1>4. Places(q, A) \cap new = {}
  BY <1>1
<1> HIDE DEF new
<1>5. Places(q \o r, A) = Places(q, A) \cup new
  BY <1>1, <1>2
<1>6. IsFiniteSet(Places(q, A)) /\ Num(q, A) \in Nat
  BY PlacesFinite
<1>7. Cardinality(Places(q \o r, A)) = Cardinality(Places(q, A)) + Len(r) - Cardinality({})
  <2>1. Cardinality(Places(q, A) \cup new)
          = Cardinality(Places(q, A)) + Cardinality(new) - Cardinality(Places(q, A) \cap new)
    BY <1>3, <1>6, FS_Union
  <2> QED BY <1>3, <1>4, <1>5, <2>1
<1> QED BY <1>1, <1>6, <1>7, FS_EmptySet DEF Num

(* ... or all outside. *)
LEMMA NumConcatOut ==
  ASSUME NEW S, NEW q \in Seq(S), NEW r \in Seq(S), NEW A, \A i \in DOMAIN r : r[i] \notin A
  PROVE  Num(q \o r, A) = Num(q, A)
<1>1. /\ Len(q) \in Nat /\ Len(r) \in Nat
      /\ Places(q \o r, A) =
           Places(q, A) \cup {i \in Len(q) + 1 .. Len(q) + Len(r) : r[i - Len(q)] \in A}
      /\ DOMAIN r = 1 .. Len(r)
  BY PlacesConcat
<1>2. \A i \in Len(q) + 1 .. Len(q) + Len(r) : r[i - Len(q)] \notin A
  BY <1>1
<1>3. Places(q \o r, A) = Places(q, A)
  BY <1>1, <1>2
<1> QED BY <1>3 DEF Num

----------------------------------------------------------------------------
(* What is in the channel, and what a function being run has to do. *)

Task ==
  [kind : {"wake"}, of : {"nobody"}, id : {0}]
    \cup [kind : {"connect", "connectError", "data", "end", "broken"}, of : Socket, id : {0}]
    \cup [kind : {"listening", "sent"}, of : Endpoint, id : {0}]
    \cup [kind : {"connection", "message"}, of : Endpoint, id : Nat \ {0}]
    \cup [kind : {"online", "childExit", "workerExit"}, of : Live, id : {0}]
    \cup [kind : {"deliver"}, of : Port, id : {0}]
    \cup [kind : {"broadcast"}, of : Broadcast, id : {0}]

Event ==
  {"listening", "connection", "message", "close", "connect", "error", "data", "end", "fork", "online",
   "clusterOnline", "exit", "clusterExit", "spawn"}

TaskStep ==
  [do : {"emit"}, of : Socket \cup Endpoint \cup Live \cup Spawned, event : Event]
    \cup [do : {"close", "closed"}, of : Socket, event : {"none"}]
    \cup [do : {"release"}, of : Live, event : {"none"}]
    \cup [do : {"delivered"}, of : Port \cup Broadcast, event : {"none"}]

HostType ==
  /\ open_handles \in Nat /\ io_rx \in Seq(Task) /\ immediates \in Seq(Spawned)
  /\ task \in Seq(TaskStep) /\ running \in BOOLEAN /\ left \in {"no", "left", "died"}
  /\ calls \in Nat /\ heard \in [Emitter -> Event \cup {"nothing"}]

NetType ==
  /\ connecting \subseteq Socket /\ sockets \subseteq Socket /\ reading \subseteq Socket
  /\ used \subseteq Socket /\ lost \in Nat
  /\ records \in [Endpoint -> Nat] /\ ids \in [Endpoint -> Nat] /\ arrivals \in [Endpoint -> Nat]
  /\ threads \subseteq Endpoint \X (Nat \ {0})

ChildType == process \in [Live -> {"none", "running", "reaped"}] /\ CHILDREN \subseteq Live

ChannelType ==
  /\ CH_QUEUE \in [Port -> Nat] /\ CH_STARTED \subseteq Port
  /\ BCAST \in Seq(Broadcast) /\ refed \subseteq Broadcast /\ closed \subseteq Broadcast

TypeOK == HostType /\ NetType /\ ChildType /\ ChannelType

(* The tasks and steps that the code builds. *)
LEMMA TaskTypes ==
  /\ Wake \in Task
  /\ \A s \in Socket, k \in {"connect", "connectError", "data", "end", "broken"} : IoTask(k, s, 0) \in Task
  /\ \A e \in Endpoint, k \in {"listening", "sent"} : IoTask(k, e, 0) \in Task
  /\ \A e \in Endpoint, k \in {"connection", "message"}, id \in Nat \ {0} : IoTask(k, e, id) \in Task
  /\ \A c \in Live, k \in {"online", "childExit", "workerExit"} : IoTask(k, c, 0) \in Task
  /\ \A p \in Port : IoTask("deliver", p, 0) \in Task
  /\ \A b \in Broadcast : IoTask("broadcast", b, 0) \in Task
  BY DEF Task, Wake, IoTask

LEMMA TaskFields ==
  ASSUME NEW t \in Task
  PROVE  /\ t.kind \in {"connect", "connectError", "data", "end", "broken"} => t.of \in Socket
         /\ t.kind \in {"listening", "sent"} => t.of \in Endpoint
         /\ t.kind \in {"connection", "message"} => t.of \in Endpoint /\ t.id \in Nat \ {0}
         /\ t.kind \in {"online", "childExit", "workerExit"} => t.of \in Live
         /\ t.kind = "deliver" => t.of \in Port
         /\ t.kind = "broadcast" => t.of \in Broadcast
  BY DEF Task

LEMMA StepTypes ==
  /\ \A o \in Socket \cup Endpoint \cup Live \cup Spawned, e \in Event : Emit(o, e) \in TaskStep
  /\ \A s \in Socket, w \in {"close", "closed"} : Step(w, s) \in TaskStep
  /\ \A c \in Live : Step("release", c) \in TaskStep
  /\ \A o \in Port \cup Broadcast : Step("delivered", o) \in TaskStep
  BY DEF TaskStep, Emit, Step

LEMMA StepFields ==
  ASSUME NEW t \in TaskStep
  PROVE  /\ t.do \in {"close", "closed"} => t.of \in Socket
         /\ t.do = "release" => t.of \in Live
         /\ t.do # "emit" => t.event = "none"
         /\ t.do = "emit" => t.event \in Event
  BY DEF TaskStep, Event

----------------------------------------------------------------------------
(* What the parts of an action do to the channel and to the function run. *)

LEMMA Taking ==
  ASSUME TypeOK, NEW k, Received(k)
  PROVE  /\ Idle /\ open_handles > 0 /\ io_rx # <<>>
         /\ Head(io_rx) \in Task /\ Head(io_rx).kind = k
         /\ io_rx' = Tail(io_rx) /\ io_rx' \in Seq(Task)
         /\ UNCHANGED <<immediates, left, calls>>
  BY HeadTailProperties DEF Received, TypeOK, HostType

LEMMA Reaching ==
  ASSUME TypeOK, NEW w, Reached(w)
  PROVE  /\ ~running /\ left = "no" /\ task # <<>>
         /\ Head(task) \in TaskStep /\ Head(task).do = w /\ Head(task) = task[1] /\ 1 \in DOMAIN task
         /\ task' = Tail(task) /\ task' \in Seq(TaskStep)
         /\ UNCHANGED <<immediates, left, calls>>
  BY HeadTailProperties, EmptySeq, LenProperties DEF Reached, TypeOK, HostType

LEMMA Calling ==
  ASSUME TypeOK, Call
  PROVE  running /\ running' /\ calls' \in Nat /\ UNCHANGED <<task, running, left>>
  BY DEF Call, TypeOK, HostType

LEMMA SeqOne ==
  ASSUME NEW S, NEW a \in S
  PROVE  <<a>> \in Seq(S) /\ Len(<<a>>) = 1 /\ DOMAIN <<a>> = {1} /\ <<a>>[1] = a /\ <<a>> # <<>>
  OBVIOUS

LEMMA SeqTwo ==
  ASSUME NEW S, NEW a \in S, NEW b \in S
  PROVE  /\ <<a, b>> \in Seq(S) /\ Len(<<a, b>>) = 2 /\ DOMAIN <<a, b>> = {1, 2}
         /\ <<a, b>>[1] = a /\ <<a, b>>[2] = b /\ <<a, b>> # <<>>
  OBVIOUS

LEMMA SeqThree ==
  ASSUME NEW S, NEW a \in S, NEW b \in S, NEW c \in S
  PROVE  /\ <<a, b, c>> \in Seq(S) /\ Len(<<a, b, c>>) = 3 /\ DOMAIN <<a, b, c>> = {1, 2, 3}
         /\ <<a, b, c>>[1] = a /\ <<a, b, c>>[2] = b /\ <<a, b, c>>[3] = c /\ <<a, b, c>> # <<>>
  OBVIOUS

----------------------------------------------------------------------------
(* Types. *)

LEMMA TypeInit == Init => TypeOK
<1> SUFFICES ASSUME Init PROVE TypeOK
  OBVIOUS
<1>1. HostType
  BY DEF Init, HostInit, HostType
<1>2. NetType
  BY DEF Init, SocketsInit, NetType
<1>3. ChildType
  BY DEF Init, ChildrenInit, ChildType
<1>4. ChannelType
  BY DEF Init, ChannelsInit, ChannelType
<1> QED BY <1>1, <1>2, <1>3, <1>4 DEF TypeOK

LEMMA TypeHost ==
  ASSUME TypeOK, (Return \/ Throw \/ RunWake \/ RunEmit \/ Leave)
  PROVE  HostType'
<1>1. CASE Return \/ Leave
  BY <1>1 DEF Return, Leave, Idle, TypeOK, HostType
<1>4. CASE Throw
  BY <1>4, EmptySeq DEF Throw, TypeOK, HostType
<1>2. CASE RunWake
  BY <1>2, Taking DEF RunWake, TypeOK, HostType
<1>3. CASE RunEmit
  <2>1. Reached("emit")
    BY <1>3 DEF RunEmit
  <2>2. Head(task).event \in Event
    BY <2>1, Reaching, StepFields
  <2> QED BY <1>3, <2>1, <2>2, Reaching DEF RunEmit, TypeOK, HostType
<1> QED BY <1>1, <1>2, <1>3, <1>4

LEMMA Appending ==
  ASSUME TypeOK, NEW t \in Task
  PROVE  Append(io_rx, t) \in Seq(Task)
  BY AppendProperties DEF TypeOK, HostType

LEMMA OpenTypes ==
  ASSUME TypeOK, NEW e \in Endpoint, NEW t \in Task, Open(e, t)
  PROVE  /\ open_handles' \in Nat /\ io_rx' \in Seq(Task)
         /\ records' \in [Endpoint -> Nat] /\ ids' \in [Endpoint -> Nat]
         /\ arrivals' \in [Endpoint -> Nat] /\ threads' \subseteq Endpoint \X (Nat \ {0})
<1>1. io_rx' \in Seq(Task)
  BY Appending DEF Open, Post
<1> QED BY <1>1 DEF Open, incr_handle, TypeOK, HostType, NetType

LEMMA TypeSocketCalls == TypeOK /\ SocketCalls => HostType' /\ NetType'
<1> SUFFICES ASSUME TypeOK, SocketCalls PROVE HostType' /\ NetType'
  OBVIOUS
<1>1. ASSUME NEW s \in Socket, socket_connect(s) PROVE HostType' /\ NetType'
  <2>1. /\ open_handles' \in Nat /\ connecting' \subseteq Socket /\ used' \subseteq Socket
        /\ UNCHANGED <<sockets, reading, lost, endpointVars>> /\ calls' \in Nat
    BY <1>1, Calling DEF socket_connect, incr_handle, TypeOK, HostType, NetType
  <2>2. UNCHANGED <<io_rx, immediates, task, running, left, heard>>
    BY <1>1, Calling DEF socket_connect, Quiet
  <2>3. HostType'
    BY <2>1, <2>2 DEF TypeOK, HostType
  <2>4. NetType'
    BY <2>1 DEF TypeOK, NetType
  <2> QED BY <2>3, <2>4
<1>2. ASSUME NEW e \in Endpoint, NEW k \in {"listening", "sent"}, Call,
             IF records[e] = 0 THEN Open(e, IoTask(k, e, 0))
             ELSE Post(IoTask(k, e, 0)) /\ UNCHANGED <<open_handles, endpointVars>>,
             UNCHANGED <<immediates, heard, tcpVars>>
      PROVE  HostType' /\ NetType'
  <2>1. IoTask(k, e, 0) \in Task
    BY TaskTypes
  <2>2. CASE Open(e, IoTask(k, e, 0))
    BY <1>2, <2>1, <2>2, OpenTypes, Calling DEF TypeOK, HostType, NetType
  <2>3. CASE Post(IoTask(k, e, 0)) /\ UNCHANGED <<open_handles, endpointVars>>
    BY <1>2, <2>1, <2>3, Appending, Calling DEF Post, TypeOK, HostType, NetType
  <2> QED BY <1>2, <2>2, <2>3
<1>3. ASSUME NEW v \in Server, server_listen(v) PROVE HostType' /\ NetType'
  BY <1>2, <1>3 DEF server_listen, Endpoint
<1>4. ASSUME NEW u \in Udp, socket_bind(u) \/ socket_send(u) PROVE HostType' /\ NetType'
  BY <1>2, <1>4 DEF socket_bind, socket_send, Endpoint
<1>5. ASSUME NEW e \in Endpoint, CloseEndpoint(e) PROVE HostType' /\ NetType'
  <2>1. io_rx' \in Seq(Task)
    BY <1>5, Appending, TaskTypes DEF CloseEndpoint, Post, TypeOK, HostType
  <2>2. heard' \in [Emitter -> Event \cup {"nothing"}]
    BY <1>5 DEF CloseEndpoint, Event, TypeOK, HostType
  <2>3. open_handles' \in Nat
    BY <1>5 DEF CloseEndpoint, decr_handle, TypeOK, HostType
  <2>4. NetType'
    BY <1>5 DEF CloseEndpoint, TypeOK, NetType
  <2>5. /\ UNCHANGED <<immediates, task, left>> /\ running' \in BOOLEAN /\ calls' \in Nat
    BY <1>5, Calling DEF CloseEndpoint
  <2> QED BY <2>1, <2>2, <2>3, <2>4, <2>5 DEF TypeOK, HostType
<1> QED BY <1>1, <1>3, <1>4, <1>5 DEF SocketCalls

LEMMA TypeSocketThreads == TypeOK /\ SocketThreads => HostType' /\ NetType'
<1> SUFFICES ASSUME TypeOK, SocketThreads PROVE HostType' /\ NetType'
  OBVIOUS
<1>1. ASSUME NEW e \in Endpoint, NEW id \in 1 .. MaxCalls, Arrive(e, id) PROVE HostType' /\ NetType'
  <2>1. io_rx' \in Seq(Task)
    <3>1. id \in Nat \ {0}
      BY HostIoBounds
    <3> QED BY <1>1, <3>1, Appending, TaskTypes DEF Arrive, Post
  <2>2. arrivals' \in [Endpoint -> Nat]
    <3>1. /\ arrivals \in [Endpoint -> Nat]
          /\ arrivals' = [arrivals EXCEPT ![e] = IF ids[e] = id THEN arrivals[e] + 1 ELSE arrivals[e]]
      BY <1>1 DEF Arrive, TypeOK, NetType
    <3> QED BY <3>1
  <2>3. HostType'
    BY <1>1, <2>1 DEF Arrive, TypeOK, HostType
  <2>4. NetType'
    BY <1>1, <2>2 DEF Arrive, TypeOK, NetType
  <2> QED BY <2>3, <2>4
<1>2. ASSUME NEW e \in Endpoint, NEW id \in 1 .. MaxCalls, StopThread(e, id) PROVE HostType' /\ NetType'
  BY <1>2 DEF StopThread, TypeOK, HostType, NetType
<1>3. ASSUME NEW s \in Socket,
             \/ \E kind \in {"connect", "connectError"} : Connect(s, kind)
             \/ ReadData(s)
             \/ \E kind \in {"end", "broken"} : ReadEnd(s, kind)
      PROVE HostType' /\ NetType'
  <2>1. io_rx' \in Seq(Task)
    BY <1>3, Appending, TaskTypes DEF Connect, ReadData, ReadEnd, Post
  <2> QED BY <1>3, <2>1 DEF Connect, ReadData, ReadEnd, TypeOK, HostType, NetType
<1> QED BY <1>1, <1>2, <1>3 DEF SocketThreads

LEMMA TypeSocketTasks == TypeOK /\ SocketTasks => HostType' /\ NetType'
<1> SUFFICES ASSUME TypeOK, SocketTasks PROVE HostType' /\ NetType'
  OBVIOUS
<1>1. ASSUME NEW k, Received(k) PROVE HostType' <=> /\ open_handles' \in Nat /\ task' \in Seq(TaskStep)
                                                    /\ running' \in BOOLEAN
                                                    /\ heard' \in [Emitter -> Event \cup {"nothing"}]
  BY <1>1, Taking DEF TypeOK, HostType
<1>2. \A o \in Socket \cup Endpoint, e \in Event : <<Emit(o, e)>> \in Seq(TaskStep)
  BY StepTypes, SeqOne
<1>3. CASE RunListening \/ RunSent \/ on_message \/ on_socket_data
  <2>1. task' \in Seq(TaskStep)
    <3>1. CASE RunListening
      <4>1. Head(io_rx).of \in Endpoint
        BY <3>1, Taking, TaskFields DEF RunListening
      <4>2. <<Emit(Head(io_rx).of, "listening")>> \in Seq(TaskStep)
        BY <1>2, <4>1 DEF Event
      <4> QED BY <3>1, <4>2 DEF RunListening, TypeOK, HostType
    <3>2. CASE RunSent
      BY <3>2 DEF RunSent, TypeOK, HostType
    <3>3. CASE on_message
      <4>1. Head(io_rx).of \in Endpoint
        BY <3>3, Taking, TaskFields DEF on_message
      <4>2. <<Emit(Head(io_rx).of, "message")>> \in Seq(TaskStep)
        BY <1>2, <4>1 DEF Event
      <4> QED BY <3>3, <4>2 DEF on_message, TypeOK, HostType
    <3>4. CASE on_socket_data
      <4>1. Head(io_rx).of \in Socket
        BY <3>4, Taking, TaskFields DEF on_socket_data
      <4>2. <<Emit(Head(io_rx).of, "data")>> \in Seq(TaskStep)
        BY <1>2, <4>1 DEF Event
      <4> QED BY <3>4, <4>2 DEF on_socket_data, TypeOK, HostType
    <3> QED BY <1>3, <3>1, <3>2, <3>3, <3>4
  <2> QED BY <1>1, <1>3, <2>1 DEF RunListening, RunSent, on_message, on_socket_data, TypeOK, HostType, NetType
<1>4. CASE on_connection
  <2>1. task' \in Seq(TaskStep)
    BY <1>2, <1>4, Taking, TaskFields DEF on_connection, Event, TypeOK, HostType
  <2>2. open_handles' \in Nat
    BY <1>4 DEF on_connection, incr_handle, TypeOK, HostType
  <2>3. used' \subseteq Socket /\ sockets' \subseteq Socket /\ reading' \subseteq Socket
    BY <1>4 DEF on_connection, TypeOK, NetType
  <2>4. UNCHANGED <<running, left, calls, heard, immediates, connecting, lost, endpointVars>>
    BY <1>4 DEF on_connection, Received
  <2>5. HostType'
    <3>1. Received("connection")
      BY <1>4 DEF on_connection
    <3>2. running' \in BOOLEAN /\ heard' \in [Emitter -> Event \cup {"nothing"}]
      BY <2>4 DEF TypeOK, HostType
    <3> QED BY <1>1, <2>1, <2>2, <3>1, <3>2
  <2>6. NetType'
    BY <2>3, <2>4 DEF TypeOK, NetType
  <2> QED BY <2>5, <2>6
<1>5. CASE on_connect
  <2>1. task' \in Seq(TaskStep) /\ Head(io_rx).of \in Socket
    BY <1>2, <1>5, Taking, TaskFields DEF on_connect, Event, TypeOK, HostType
  <2>2. open_handles' \in Nat
    BY <1>5 DEF on_connect, decr_handle, TypeOK, HostType
  <2>3. connecting' \subseteq Socket /\ sockets' \subseteq Socket /\ reading' \subseteq Socket
    BY <1>5, <2>1 DEF on_connect, TypeOK, NetType
  <2>4. UNCHANGED <<running, left, calls, heard, immediates, used, lost, endpointVars>>
    BY <1>5 DEF on_connect, Received
  <2>5. HostType'
    <3>1. Received("connect")
      BY <1>5 DEF on_connect
    <3>2. running' \in BOOLEAN /\ heard' \in [Emitter -> Event \cup {"nothing"}]
      BY <2>4 DEF TypeOK, HostType
    <3> QED BY <1>1, <2>1, <2>2, <3>1, <3>2
  <2>6. NetType'
    BY <2>3, <2>4 DEF TypeOK, NetType
  <2> QED BY <2>5, <2>6
<1>6. CASE on_connect_error
  <2>1. Head(io_rx) \in Task /\ Head(io_rx).of \in Socket /\ Tail(io_rx) \in Seq(Task)
    BY <1>6, HeadTailProperties, TaskFields DEF on_connect_error, TypeOK, HostType
  <2>2. io_rx' \in Seq(Task)
    BY <1>6, <2>1, AppendProperties, TaskTypes DEF on_connect_error
  <2>3. task' \in Seq(TaskStep)
    BY <1>2, <1>6, <2>1 DEF on_connect_error, Event
  <2> QED BY <1>6, <2>1, <2>2, <2>3 DEF on_connect_error, decr_handle, TypeOK, HostType, NetType
<1>7. CASE on_socket_end \/ RunSocketError
  <2>1. Head(io_rx).of \in Socket
    BY <1>7, Taking, TaskFields DEF on_socket_end, RunSocketError
  <2>2. <<Step("close", Head(io_rx).of)>> \in Seq(TaskStep)
    BY <2>1, StepTypes, SeqOne
  <2>3. <<Emit(Head(io_rx).of, "end"), Step("close", Head(io_rx).of)>> \in Seq(TaskStep)
    BY <2>1, StepTypes, SeqTwo DEF Event
  <2> QED BY <1>1, <1>7, <2>2, <2>3 DEF on_socket_end, RunSocketError, TypeOK, HostType, NetType
<1>8. CASE on_socket_close
  <2>1. Head(task) \in TaskStep /\ Head(task).of \in Socket
    BY <1>8, HeadTailProperties, StepFields DEF on_socket_close, TypeOK, HostType
  <2>2. <<Emit(Head(task).of, "close"), Step("closed", Head(task).of)>> \in Seq(TaskStep)
    BY <2>1, StepTypes, SeqTwo DEF Event
  <2>3. task' \in Seq(TaskStep)
    BY <1>8, <2>2 DEF on_socket_close
  <2> QED BY <1>8, <2>3 DEF on_socket_close, TypeOK, HostType, NetType
<1>9. CASE Closed
  <2>1. Reached("closed") /\ io_rx' \in Seq(Task)
    BY <1>9, Appending, TaskTypes DEF Closed, Post
  <2>2. open_handles' \in Nat
    BY <1>9 DEF Closed, decr_handle, TypeOK, HostType
  <2> QED BY <1>9, <2>1, <2>2, Reaching DEF Closed, TypeOK, HostType, NetType
<1> QED BY <1>3, <1>4, <1>5, <1>6, <1>7, <1>8, <1>9 DEF SocketTasks

LEMMA TypeChildren ==
  ASSUME TypeOK, ChildCalls \/ (\E c \in Live : Reap(c)) \/ ChildTasks
  PROVE  HostType' /\ ChildType'
<1> DEFINE Good == HostType' /\ ChildType'
<1>1. ASSUME NEW c \in Child, fork(c) PROVE Good
  BY <1>1, Calling DEF fork, Live, Quiet, incr_handle, TypeOK, HostType, ChildType
<1>2. ASSUME NEW w \in Worker, cluster_fork(w) PROVE Good
  <2>1. w \in Live
    BY DEF Live
  <2>2. io_rx' \in Seq(Task)
    BY <1>2, <2>1, Appending, TaskTypes DEF cluster_fork
  <2>3. heard' \in [Emitter -> Event \cup {"nothing"}]
    BY <1>2 DEF cluster_fork, Event, TypeOK, HostType
  <2>4. ChildType' /\ open_handles' \in Nat
    BY <1>2, <2>1 DEF cluster_fork, incr_handle, TypeOK, HostType, ChildType
  <2> QED BY <1>2, <2>2, <2>3, <2>4, Calling DEF cluster_fork, TypeOK, HostType
<1>3. ASSUME NEW s \in Spawned, spawn(s) PROVE Good
  <2>1. immediates' \in Seq(Spawned)
    BY <1>3, AppendProperties DEF spawn, TypeOK, HostType
  <2> QED BY <1>3, <2>1, Calling DEF spawn, TypeOK, HostType, ChildType
<1>4. ASSUME NEW c \in Live, Reap(c) PROVE Good
  <2>1. io_rx' \in Seq(Task)
    BY <1>4, Appending, TaskTypes DEF Reap
  <2> QED BY <1>4, <2>1 DEF Reap, TypeOK, HostType, ChildType
<1>5. ASSUME NEW k, k \in {"childExit", "workerExit", "online"}, Received(k),
             \/ task' = <<>>
             \/ \E e, f \in Event : task' = <<Emit(Head(io_rx).of, e), Emit(Head(io_rx).of, f)>>
             \/ \E e, f \in Event : task' = <<Emit(Head(io_rx).of, e), Emit(Head(io_rx).of, f),
                                            Step("release", Head(io_rx).of)>>,
             UNCHANGED <<open_handles, running, heard, childVars>>
      PROVE Good
  <2>1. Head(io_rx).of \in Live
    BY <1>5, Taking, TaskFields
  <2>2. task' \in Seq(TaskStep)
    <3>1. CASE task' = <<>>
      BY <3>1
    <3>2. \A e \in Event : Emit(Head(io_rx).of, e) \in TaskStep
      BY <2>1, StepTypes
    <3>3. Step("release", Head(io_rx).of) \in TaskStep
      BY <2>1, StepTypes
    <3>4. ASSUME NEW e \in Event, NEW f \in Event,
                 \/ task' = <<Emit(Head(io_rx).of, e), Emit(Head(io_rx).of, f)>>
                 \/ task' = <<Emit(Head(io_rx).of, e), Emit(Head(io_rx).of, f),
                              Step("release", Head(io_rx).of)>>
          PROVE  task' \in Seq(TaskStep)
      <4>1. Emit(Head(io_rx).of, e) \in TaskStep /\ Emit(Head(io_rx).of, f) \in TaskStep
        BY <3>2
      <4>2. <<Emit(Head(io_rx).of, e), Emit(Head(io_rx).of, f)>> \in Seq(TaskStep)
        BY <4>1, SeqTwo
      <4>3. <<Emit(Head(io_rx).of, e), Emit(Head(io_rx).of, f), Step("release", Head(io_rx).of)>>
              \in Seq(TaskStep)
        BY <3>3, <4>1, SeqThree
      <4> QED BY <3>4, <4>2, <4>3
    <3> QED BY <1>5, <3>1, <3>4
  <2> QED BY <1>5, <2>2, Taking DEF TypeOK, HostType, ChildType
<1>6. ASSUME on_child_exit PROVE Good
  BY <1>5, <1>6 DEF on_child_exit, Event
<1>7. ASSUME dispatch_exit PROVE Good
  BY <1>5, <1>7 DEF dispatch_exit, Event
<1>8. ASSUME dispatch_online PROVE Good
  BY <1>5, <1>8 DEF dispatch_online, Event
<1>9. ASSUME Release PROVE Good
  <2>1. Reached("release") /\ io_rx' \in Seq(Task)
    BY <1>9, Appending, TaskTypes DEF Release, TypeOK, HostType
  <2>2. open_handles' \in Nat
    BY <1>9 DEF Release, decr_handle, TypeOK, HostType
  <2> QED BY <1>9, <2>1, <2>2, Reaching DEF Release, TypeOK, HostType, ChildType
<1>10. ASSUME child_events PROVE Good
  <2>1. Head(immediates) \in Spawned /\ Tail(immediates) \in Seq(Spawned)
    BY <1>10, HeadTailProperties DEF child_events, TypeOK, HostType
  <2>2. \A e \in Event : Emit(Head(immediates), e) \in TaskStep
    BY <2>1, StepTypes
  <2>3. task' \in Seq(TaskStep)
    <3> DEFINE s == Head(immediates)
    <3>1. /\ Emit(s, "error") \in TaskStep /\ Emit(s, "close") \in TaskStep
          /\ Emit(s, "spawn") \in TaskStep /\ Emit(s, "end") \in TaskStep
          /\ Emit(s, "exit") \in TaskStep /\ Emit(s, "data") \in TaskStep
      BY <2>2 DEF Event
    <3>2. Events(s) \subseteq Seq(TaskStep)
      BY <3>1 DEF Events
    <3> QED BY <1>10, <3>2 DEF child_events
  <2> QED BY <1>10, <2>1, <2>3 DEF child_events, TypeOK, HostType, ChildType
<1> HIDE DEF Good
<1>11. ASSUME ChildCalls PROVE Good
  BY <1>1, <1>2, <1>3, <1>11 DEF ChildCalls
<1>12. ASSUME \E c \in Live : Reap(c) PROVE Good
  BY <1>4, <1>12
<1>13. ASSUME ChildTasks PROVE Good
  BY <1>6, <1>7, <1>8, <1>9, <1>10, <1>13 DEF ChildTasks
<1>14. Good
  BY <1>11, <1>12, <1>13
<1> QED BY <1>14 DEF Good

(* What is left of BCAST without b, and a delivery for each of them. *)
LEMMA OthersTypes ==
  ASSUME TypeOK, NEW b
  PROVE  Others(b) \in Seq(Broadcast)
<1>1. CASE ~Registered(b)
  BY <1>1 DEF Others, TypeOK, ChannelType
<1>2. CASE Registered(b)
  <2> DEFINE i == CHOOSE i \in DOMAIN BCAST : BCAST[i] = b
  <2>1. /\ BCAST \in Seq(Broadcast) /\ Len(BCAST) \in Nat /\ DOMAIN BCAST = 1 .. Len(BCAST)
        /\ \A j \in 1 .. Len(BCAST) : BCAST[j] \in Broadcast
    BY LenProperties DEF TypeOK, ChannelType
  <2>2. i \in 1 .. Len(BCAST)
    BY <1>2, <2>1 DEF Registered
  <2> HIDE DEF i
  <2>3. SubSeq(BCAST, 1, i - 1) \in Seq(Broadcast)
    BY <2>1, <2>2, SubSeqProperties
  <2>4. SubSeq(BCAST, i + 1, Len(BCAST)) \in Seq(Broadcast)
    BY <2>1, <2>2, SubSeqProperties
  <2>5. Others(b) = SubSeq(BCAST, 1, i - 1) \o SubSeq(BCAST, i + 1, Len(BCAST))
    BY <1>2 DEF Others, i
  <2> QED BY <2>3, <2>4, <2>5, ConcatProperties
<1> QED BY <1>1, <1>2

LEMMA CopiesTypes ==
  ASSUME NEW p \in Port, NEW n \in Nat
  PROVE  LET r == Copies(IoTask("deliver", p, 0), n)
         IN /\ r \in Seq(Task) /\ Len(r) = n
            /\ \A i \in DOMAIN r : r[i] = IoTask("deliver", p, 0)
  BY TaskTypes DEF Copies

LEMMA TargetsTypes ==
  ASSUME TypeOK, NEW b
  PROVE  LET q == Others(b)
             r == [i \in DOMAIN q |-> IoTask("broadcast", q[i], 0)]
         IN /\ q \in Seq(Broadcast) /\ Len(q) \in Nat /\ r \in Seq(Task) /\ Len(r) = Len(q)
            /\ \A i \in DOMAIN r : r[i] = IoTask("broadcast", q[i], 0)
<1> DEFINE q == Others(b)
<1>1. q \in Seq(Broadcast) /\ Len(q) \in Nat /\ DOMAIN q = 1 .. Len(q)
      /\ \A i \in 1 .. Len(q) : q[i] \in Broadcast
  BY OthersTypes, LenProperties
<1> HIDE DEF q
<1> DEFINE r == [i \in DOMAIN q |-> IoTask("broadcast", q[i], 0)]
<1>2. r = [i \in 1 .. Len(q) |-> IoTask("broadcast", q[i], 0)]
  BY <1>1
<1>3. \A i \in 1 .. Len(q) : IoTask("broadcast", q[i], 0) \in Task
  BY <1>1, TaskTypes
<1>4. r \in Seq(Task) /\ Len(r) = Len(q) /\ \A i \in DOMAIN r : r[i] = IoTask("broadcast", q[i], 0)
  BY <1>1, <1>2, <1>3
<1> QED BY <1>1, <1>4 DEF q

LEMMA TypeChannels ==
  ASSUME TypeOK, ChannelCalls \/ ChannelTasks
  PROVE  HostType' /\ ChannelType'
<1> DEFINE Good == HostType' /\ ChannelType'
<1>1. ASSUME NEW p \in Port, NEW n \in Nat, Schedule(p, n)
      PROVE  io_rx' \in Seq(Task) /\ open_handles' \in Nat
  <2>1. io_rx' \in Seq(Task)
    BY <1>1, CopiesTypes, ConcatProperties DEF Schedule, TypeOK, HostType
  <2> QED BY <1>1, <2>1 DEF Schedule, TypeOK, HostType
<1>2. ASSUME NEW p \in Port, channel_post(p) PROVE Good
  <2> DEFINE n == IF Peer[p] \in CH_STARTED THEN 1 ELSE 0
  <2>1. Peer[p] \in Port /\ n \in Nat /\ Schedule(Peer[p], n)
    BY <1>2, PeerAssumption DEF channel_post
  <2> HIDE DEF n
  <2>2. io_rx' \in Seq(Task) /\ open_handles' \in Nat
    BY <1>1, <2>1
  <2>3. ChannelType'
    BY <1>2, <2>1 DEF channel_post, TypeOK, ChannelType
  <2>4. UNCHANGED <<immediates, heard>>
    BY <2>1 DEF Schedule
  <2> QED BY <1>2, <2>2, <2>3, <2>4, Calling DEF channel_post, TypeOK, HostType
<1>3. ASSUME NEW p \in Port, start_channel_port(p) PROVE Good
  <2>1. CH_QUEUE[p] \in Nat /\ Schedule(p, CH_QUEUE[p])
    BY <1>3 DEF start_channel_port, TypeOK, ChannelType
  <2>2. io_rx' \in Seq(Task) /\ open_handles' \in Nat
    BY <1>1, <2>1
  <2>3. ChannelType'
    BY <1>3 DEF start_channel_port, TypeOK, ChannelType
  <2>4. UNCHANGED <<immediates, heard>>
    BY <2>1 DEF Schedule
  <2> QED BY <1>3, <2>2, <2>3, <2>4, Calling DEF start_channel_port, TypeOK, HostType
<1>4. ASSUME NEW p \in Port, ClosePort(p) \/ receive_message_on_port(p) PROVE Good
  BY <1>4, Calling DEF ClosePort, receive_message_on_port, Quiet, TypeOK, HostType, ChannelType
<1>5. ASSUME NEW b \in Broadcast, construct_broadcast_channel(b) PROVE Good
  <2>1. BCAST' \in Seq(Broadcast)
    BY <1>5, AppendProperties DEF construct_broadcast_channel, TypeOK, ChannelType
  <2>2. ChannelType'
    BY <1>5, <2>1 DEF construct_broadcast_channel, TypeOK, ChannelType
  <2> QED BY <1>5, <2>2, Calling DEF construct_broadcast_channel, Quiet, incr_handle, TypeOK, HostType
<1>6. ASSUME NEW b \in Broadcast, BroadcastPost(b) PROVE Good
  <2>1. open_handles' \in Nat /\ io_rx' \in Seq(Task)
    BY <1>6, TargetsTypes, ConcatProperties DEF BroadcastPost, TypeOK, HostType
  <2> QED BY <1>6, <2>1, Calling DEF BroadcastPost, TypeOK, HostType, ChannelType
<1>7. ASSUME NEW b \in Broadcast, BroadcastClose(b) PROVE Good
  <2>1. open_handles' \in Nat /\ refed' \subseteq Broadcast
    BY <1>7 DEF BroadcastClose, release_broadcast_ref, decr_handle, TypeOK, HostType, ChannelType
  <2>2. ChannelType'
    BY <1>7, <2>1, OthersTypes DEF BroadcastClose, TypeOK, ChannelType
  <2> QED BY <1>7, <2>1, <2>2, Calling DEF BroadcastClose, Quiet, TypeOK, HostType
<1>8. ASSUME NEW b \in Broadcast, BroadcastRef(b) \/ BroadcastUnref(b) PROVE Good
  <2>1. open_handles' \in Nat /\ refed' \subseteq Broadcast
    BY <1>8 DEF BroadcastRef, BroadcastUnref, release_broadcast_ref, incr_handle, decr_handle,
                TypeOK, HostType, ChannelType
  <2> QED BY <1>8, <2>1, Calling DEF BroadcastRef, BroadcastUnref, Quiet, TypeOK, HostType, ChannelType
<1>9. ASSUME channel_deliver PROVE Good
  <2>1. Received("deliver") /\ Head(io_rx).of \in Port
    BY <1>9, Taking, TaskFields DEF channel_deliver
  <2>2. task' \in Seq(TaskStep)
    BY <1>9, <2>1, StepTypes, SeqOne DEF channel_deliver
  <2>3. ChannelType' /\ running' \in BOOLEAN
    BY <1>9, <2>1 DEF channel_deliver, TypeOK, ChannelType
  <2> QED BY <1>9, <2>1, <2>2, <2>3, Taking DEF channel_deliver, TypeOK, HostType
<1>10. ASSUME broadcast_deliver PROVE Good
  <2>1. Received("broadcast") /\ Head(io_rx).of \in Broadcast
    BY <1>10, Taking, TaskFields DEF broadcast_deliver
  <2>2. task' \in Seq(TaskStep)
    BY <1>10, <2>1, StepTypes, SeqOne DEF broadcast_deliver
  <2> QED BY <1>10, <2>1, <2>2, Taking DEF broadcast_deliver, TypeOK, HostType, ChannelType
<1>11. ASSUME Delivered \/ CaughtThrow PROVE Good
  <2>1. open_handles' \in Nat
    BY <1>11 DEF Delivered, CaughtThrow, decr_handle, TypeOK, HostType
  <2> QED BY <1>11, <2>1, Reaching DEF Delivered, CaughtThrow, TypeOK, HostType, ChannelType
<1> HIDE DEF Good
<1>12. ASSUME ChannelCalls PROVE Good
  BY <1>2, <1>3, <1>4, <1>5, <1>6, <1>7, <1>8, <1>12 DEF ChannelCalls
<1>13. ASSUME ChannelTasks PROVE Good
  BY <1>9, <1>10, <1>11, <1>13 DEF ChannelTasks
<1>14. Good
  BY <1>12, <1>13
<1> QED BY <1>14 DEF Good

LEMMA TypeUnchanged ==
  /\ NetType /\ UNCHANGED netVars => NetType'
  /\ ChildType /\ UNCHANGED childVars => ChildType'
  /\ ChannelType /\ UNCHANGED chVars => ChannelType'
  BY DEF NetType, ChildType, ChannelType

LEMMA TypeStep == TypeOK /\ [Next]_vars => TypeOK'
<1> SUFFICES ASSUME TypeOK, [Next]_vars PROVE TypeOK'
  OBVIOUS
<1> HIDE DEF hostVars, netVars, childVars, chVars
<1>1. CASE UNCHANGED vars
  BY <1>1 DEF vars, hostVars, netVars, childVars, chVars, TypeOK, HostType, NetType, ChildType, ChannelType
<1>2. CASE (Return \/ RunWake \/ RunEmit \/ Leave) /\ UNCHANGED <<netVars, childVars, chVars>>
  BY <1>2, TypeHost, TypeUnchanged DEF TypeOK
<1>3. CASE Throw /\ LoseHandle /\ UNCHANGED <<childVars, chVars>>
  <2>1. NetType'
    BY <1>3 DEF LoseHandle, netVars, TypeOK, NetType
  <2> QED BY <1>3, <2>1, TypeHost, TypeUnchanged DEF TypeOK
<1>4. CASE (SocketCalls \/ SocketThreads \/ SocketTasks) /\ UNCHANGED <<childVars, chVars>>
  BY <1>4, TypeSocketCalls, TypeSocketThreads, TypeSocketTasks, TypeUnchanged DEF TypeOK
<1>5. CASE (ChildCalls \/ (\E c \in Live : Reap(c)) \/ ChildTasks) /\ UNCHANGED <<netVars, chVars>>
  BY <1>5, TypeChildren, TypeUnchanged DEF TypeOK
<1>6. CASE (ChannelCalls \/ ChannelTasks) /\ UNCHANGED <<netVars, childVars>>
  BY <1>6, TypeChannels, TypeUnchanged DEF TypeOK
<1> QED BY <1>1, <1>2, <1>3, <1>4, <1>5, <1>6 DEF Next

\* The type invariant holds in every run, for any number of calls and arrivals.
THEOREM TypeCorrect == Spec => []TypeOK
  BY TypeInit, TypeStep, PTL DEF Spec

----------------------------------------------------------------------------
(* The inductive invariant.  Its counts, over what is in the channel and   *)
(* what the function being run has still to do.                            *)

Outcomes(s) == {t \in Task : t.kind \in {"connect", "connectError"} /\ t.of = s}
Endings(c) == {t \in Task : t.kind \in {"childExit", "workerExit"} /\ t.of = c}
Deliveries == {t \in Task : t.kind \in {"deliver", "broadcast"}}
DeliveriesTo(p) == {t \in Task : t.kind = "deliver" /\ t.of = p}
Closings == {t \in TaskStep : t.do = "closed"}
Releases(c) == {t \in TaskStep : t.do = "release" /\ t.of = c}

Awaited(s) == Num(io_rx, Outcomes(s))
Ending(c) == Num(io_rx, Endings(c))
Coming == Num(io_rx, Deliveries)
ComingTo(p) == Num(io_rx, DeliveriesTo(p))
Closing == Num(task, Closings)
Releasing(c) == Num(task, Releases(c))
Catching == IF Caught THEN 1 ELSE 0
OpenEndpoints == {e \in Endpoint : records[e] # 0}

\* What is not an emit is the last step; the handle of a delivery is the only one.
Shaped ==
  \A i \in DOMAIN task :
    /\ task[i].do # "emit" => i = Len(task)
    /\ task[i].do = "delivered" => Len(task) = 1

\* The outcome of an attempt is posted once, and its handle is held until then.
Connections ==
  /\ connecting \cap sockets = {} /\ connecting \cup sockets \subseteq used
  /\ \A s \in Socket : Awaited(s) <= IF s \in connecting THEN 1 ELSE 0

\* The end of a process is posted once, and its record is there until it is served.
Processes ==
  \A c \in Live :
    /\ process[c] = "none" => c \notin CHILDREN
    /\ process[c] = "running" => c \in CHILDREN
    /\ Ending(c) + Releasing(c) <= IF c \in CHILDREN /\ process[c] = "reaped" THEN 1 ELSE 0

Drains == \A p \in CH_STARTED : CH_QUEUE[p] <= ComingTo(p)

\* Between the look at the record and the emit no JavaScript runs.
Arrivals ==
  \A i \in DOMAIN task :
    task[i].event \in {"connection", "message"} =>
      Len(task) = 1 /\ ~running /\ records[task[i].of] # 0

\* Only a channel that was constructed holds the loop.
Holders == \A b \in refed : Made(b)

FinitelyMany ==
  /\ IsFiniteSet(connecting) /\ IsFiniteSet(sockets) /\ IsFiniteSet(OpenEndpoints)
  /\ IsFiniteSet(CHILDREN) /\ IsFiniteSet(refed)

Counted ==
  open_handles =
    Cardinality(connecting) + Cardinality(sockets) + lost + Cardinality(OpenEndpoints) + Closing
      + Cardinality(CHILDREN) + Coming + Catching + Cardinality(refed)

IInv ==
  /\ TypeOK /\ Shaped /\ Connections /\ Processes /\ Drains /\ Arrivals /\ Holders
  /\ FinitelyMany /\ Counted

----------------------------------------------------------------------------
(* How the counts move. *)

LEMMA CountTypes ==
  ASSUME TypeOK
  PROVE  /\ \A s : Awaited(s) \in Nat
         /\ \A c : Ending(c) \in Nat /\ Releasing(c) \in Nat
         /\ \A p : ComingTo(p) \in Nat
         /\ Coming \in Nat /\ Closing \in Nat /\ Catching \in {0, 1}
  BY PlacesFinite DEF TypeOK, HostType, Awaited, Ending, Releasing, ComingTo, Coming, Closing, Catching

LEMMA CardinalTypes ==
  ASSUME FinitelyMany
  PROVE  /\ Cardinality(connecting) \in Nat /\ Cardinality(sockets) \in Nat
         /\ Cardinality(OpenEndpoints) \in Nat /\ Cardinality(CHILDREN) \in Nat
         /\ Cardinality(refed) \in Nat
  BY FS_CardinalityType DEF FinitelyMany

LEMMA Sorting ==
  ASSUME NEW t \in Task
  PROVE  /\ \A s : t \in Outcomes(s) <=> t.kind \in {"connect", "connectError"} /\ t.of = s
         /\ \A c : t \in Endings(c) <=> t.kind \in {"childExit", "workerExit"} /\ t.of = c
         /\ \A p : t \in DeliveriesTo(p) <=> t.kind = "deliver" /\ t.of = p
         /\ t \in Deliveries <=> t.kind \in {"deliver", "broadcast"}
  BY DEF Outcomes, Endings, DeliveriesTo, Deliveries

(* A task is posted. *)
LEMMA Posting ==
  ASSUME TypeOK, NEW t \in Task, io_rx' = Append(io_rx, t)
  PROVE  /\ \A s : Awaited(s)' = Awaited(s) + IF t.kind \in {"connect", "connectError"} /\ t.of = s THEN 1 ELSE 0
         /\ \A c : Ending(c)' = Ending(c) + IF t.kind \in {"childExit", "workerExit"} /\ t.of = c THEN 1 ELSE 0
         /\ \A p : ComingTo(p)' = ComingTo(p) + IF t.kind = "deliver" /\ t.of = p THEN 1 ELSE 0
         /\ Coming' = Coming + IF t.kind \in {"deliver", "broadcast"} THEN 1 ELSE 0
<1>1. \A A : Num(io_rx', A) = Num(io_rx, A) + IF t \in A THEN 1 ELSE 0
  BY NumAppend DEF TypeOK, HostType
<1> QED BY <1>1, Sorting DEF Awaited, Ending, ComingTo, Coming

(* A task is received. *)
LEMMA Removing ==
  ASSUME TypeOK, io_rx # <<>>, io_rx' = Tail(io_rx)
  PROVE  LET t == Head(io_rx) IN
         /\ t \in Task
         /\ \A s : Awaited(s)' = Awaited(s) - IF t.kind \in {"connect", "connectError"} /\ t.of = s THEN 1 ELSE 0
         /\ \A c : Ending(c)' = Ending(c) - IF t.kind \in {"childExit", "workerExit"} /\ t.of = c THEN 1 ELSE 0
         /\ \A p : ComingTo(p)' = ComingTo(p) - IF t.kind = "deliver" /\ t.of = p THEN 1 ELSE 0
         /\ Coming' = Coming - IF t.kind \in {"deliver", "broadcast"} THEN 1 ELSE 0
<1>1. \A A : Num(io_rx', A) = Num(io_rx, A) - IF Head(io_rx) \in A THEN 1 ELSE 0
  BY NumTail DEF TypeOK, HostType
<1>2. Head(io_rx) \in Task
  BY HeadTailProperties DEF TypeOK, HostType
<1> QED BY <1>1, <1>2, Sorting DEF Awaited, Ending, ComingTo, Coming

LEMMA ChannelSame ==
  ASSUME UNCHANGED io_rx
  PROVE  /\ \A s : Awaited(s)' = Awaited(s)
         /\ \A c : Ending(c)' = Ending(c)
         /\ \A p : ComingTo(p)' = ComingTo(p)
         /\ Coming' = Coming
  BY DEF Awaited, Ending, ComingTo, Coming

(* Deliveries are posted. *)
LEMMA Scheduling ==
  ASSUME TypeOK, NEW r \in Seq(Task), NEW k \in {"deliver", "broadcast"},
         \A i \in DOMAIN r : r[i].kind = k,
         io_rx' = io_rx \o r
  PROVE  /\ \A s : Awaited(s)' = Awaited(s)
         /\ \A c : Ending(c)' = Ending(c)
         /\ Coming' = Coming + Len(r)
         /\ \A p : (\A i \in DOMAIN r : r[i].kind = "deliver" /\ r[i].of = p) =>
                    ComingTo(p)' = ComingTo(p) + Len(r)
         /\ \A p : (\A i \in DOMAIN r : ~(r[i].kind = "deliver" /\ r[i].of = p)) =>
                    ComingTo(p)' = ComingTo(p)
<1>1. \A i \in DOMAIN r : r[i] \in Task
  BY LenProperties
<1>2. \A A : (\A i \in DOMAIN r : r[i] \in A) => Num(io_rx', A) = Num(io_rx, A) + Len(r)
  BY NumConcatIn DEF TypeOK, HostType
<1>3. \A A : (\A i \in DOMAIN r : r[i] \notin A) => Num(io_rx', A) = Num(io_rx, A)
  BY NumConcatOut DEF TypeOK, HostType
<1>4. \A i \in DOMAIN r :
        /\ \A s : r[i] \notin Outcomes(s)
        /\ \A c : r[i] \notin Endings(c)
        /\ r[i] \in Deliveries
        /\ \A p : r[i] \in DeliveriesTo(p) <=> r[i].kind = "deliver" /\ r[i].of = p
  BY <1>1, Sorting
<1> QED BY <1>2, <1>3, <1>4 DEF Awaited, Ending, ComingTo, Coming

(* The function run goes on with nothing, ... *)
LEMMA Finishing ==
  /\ task = <<>> => Closing = 0 /\ Catching = 0 /\ \A c : Releasing(c) = 0
  /\ task' = <<>> => Shaped' /\ Closing' = 0 /\ Catching' = 0 /\ \A c : Releasing(c)' = 0
<1>1. \A A : Num(<<>>, A) = 0
  BY NumNone
<1> QED BY <1>1 DEF Shaped, Closing, Catching, Caught, Releasing

(* ... with the same, ... *)
LEMMA TaskSame ==
  ASSUME UNCHANGED task
  PROVE  /\ Shaped => Shaped'
         /\ Closing' = Closing /\ Catching' = Catching /\ \A c : Releasing(c)' = Releasing(c)
  BY DEF Shaped, Closing, Catching, Caught, Releasing

(* ... with its next step, ... *)
LEMMA Stepping ==
  ASSUME TypeOK, Shaped, NEW w, Reached(w)
  PROVE  /\ Shaped'
         /\ Closing' = Closing - IF w = "closed" THEN 1 ELSE 0
         /\ Catching' = 0 /\ Catching = IF w = "delivered" THEN 1 ELSE 0
         /\ \A c : Releasing(c)' = Releasing(c) - IF w = "release" /\ Head(task).of = c THEN 1 ELSE 0
<1>1. /\ task # <<>> /\ task \in Seq(TaskStep) /\ task' = Tail(task) /\ task' \in Seq(TaskStep)
      /\ Head(task) \in TaskStep /\ Head(task).do = w
  BY Reaching DEF TypeOK, HostType
<1>2. \A A : Num(task', A) = Num(task, A) - IF Head(task) \in A THEN 1 ELSE 0
  BY <1>1, NumTail
<1>3. /\ Head(task) \in Closings <=> w = "closed"
      /\ \A c : Head(task) \in Releases(c) <=> w = "release" /\ Head(task).of = c
  BY <1>1 DEF Closings, Releases
<1>4. /\ DOMAIN task = 1 .. Len(task) /\ Len(task) \in Nat \ {0}
      /\ DOMAIN task' = 1 .. Len(task) - 1 /\ Len(task') = Len(task) - 1
      /\ \A i \in 1 .. Len(task) - 1 : task'[i] = task[i + 1]
  BY <1>1, HeadTailProperties, LenProperties, EmptySeq
<1>5. Shaped'
  BY <1>4 DEF Shaped
<1>6. task' # <<>> => Head(task') = task[2] /\ Len(task) > 1
  BY <1>1, <1>4, EmptySeq
<1>7. Catching' = 0
  BY <1>4, <1>6 DEF Shaped, Catching, Caught
<1> QED BY <1>1, <1>2, <1>3, <1>5, <1>7 DEF Closing, Releasing, Catching, Caught

(* ... or with the steps q, emits and perhaps one that is not. *)
LEMMA Planning ==
  ASSUME NEW q \in Seq(TaskStep), q # <<>>, task' = q,
         \A i \in 1 .. Len(q) - 1 : q[i].do = "emit",
         q[Len(q)].do = "delivered" => Len(q) = 1
  PROVE  /\ Shaped'
         /\ Closing' = IF q[Len(q)].do = "closed" THEN 1 ELSE 0
         /\ Catching' = IF q[Len(q)].do = "delivered" THEN 1 ELSE 0
         /\ \A c : Releasing(c)' = IF q[Len(q)].do = "release" /\ q[Len(q)].of = c THEN 1 ELSE 0
<1>1. /\ Len(q) \in Nat \ {0} /\ DOMAIN q = 1 .. Len(q) /\ \A i \in 1 .. Len(q) : q[i] \in TaskStep
      /\ Head(q) = q[1]
  BY LenProperties, EmptySeq
<1>2. Shaped'
  BY <1>1 DEF Shaped
<1>3. /\ \A i \in 1 .. Len(q) : q[i] \in Closings <=> q[i].do = "closed"
      /\ \A c : \A i \in 1 .. Len(q) : q[i] \in Releases(c) <=> q[i].do = "release" /\ q[i].of = c
  BY <1>1 DEF Closings, Releases
<1>4. Num(q, Closings) = IF q[Len(q)] \in Closings THEN 1 ELSE 0
  BY <1>1, <1>3, NumLast
<1>5. \A c : Num(q, Releases(c)) = IF q[Len(q)] \in Releases(c) THEN 1 ELSE 0
  BY <1>1, <1>3, NumLast
<1>6. Catching' = IF q[Len(q)].do = "delivered" THEN 1 ELSE 0
  BY <1>1 DEF Catching, Caught
<1> QED BY <1>1, <1>2, <1>3, <1>4, <1>5, <1>6 DEF Closing, Releasing

----------------------------------------------------------------------------
(* The parts of the invariant that an action leaves alone. *)

LEMMA ConnectionsKept ==
  ASSUME Connections, UNCHANGED <<connecting, sockets, used>>,
         \A s : Awaited(s)' = Awaited(s)
  PROVE  Connections'
  BY DEF Connections

LEMMA ProcessesKept ==
  ASSUME Processes, UNCHANGED childVars,
         \A c : Ending(c)' = Ending(c), \A c : Releasing(c)' = Releasing(c)
  PROVE  Processes'
  BY DEF Processes

LEMMA DrainsKept ==
  ASSUME Drains, UNCHANGED <<CH_QUEUE, CH_STARTED>>, \A p : ComingTo(p)' = ComingTo(p)
  PROVE  Drains'
  BY DEF Drains

LEMMA CardinalsKept ==
  /\ UNCHANGED <<connecting, sockets, records>> => Cardinality(OpenEndpoints)' = Cardinality(OpenEndpoints)
  /\ FinitelyMany /\ UNCHANGED <<connecting, sockets, records, CHILDREN, refed>> => FinitelyMany'
  BY DEF FinitelyMany, OpenEndpoints

(* An action that only moves tasks and steps that hold nothing. *)
LEMMA MovesNothing ==
  ASSUME IInv, Shaped', UNCHANGED <<open_handles, connecting, sockets, used, records, lost>>,
         UNCHANGED <<childVars, CH_QUEUE, CH_STARTED, refed>>,
         \A s : Awaited(s)' = Awaited(s), \A c : Ending(c)' = Ending(c),
         \A p : ComingTo(p)' = ComingTo(p), Coming' = Coming,
         \A c : Releasing(c)' = Releasing(c), Closing' = Closing, Catching' = Catching
  PROVE  /\ Shaped' /\ Connections' /\ Processes' /\ Drains' /\ FinitelyMany' /\ Counted'
<1>1. Connections' /\ Processes' /\ Drains'
  BY ConnectionsKept, ProcessesKept, DrainsKept DEF IInv
<1>2. FinitelyMany'
  BY CardinalsKept DEF IInv
<1>3. Counted'
  BY CardinalsKept DEF IInv, Counted
<1> QED BY <1>1, <1>2, <1>3

Keeps == Shaped' /\ Connections' /\ Processes' /\ Drains' /\ FinitelyMany' /\ Counted'

LEMMA KeepsHost ==
  ASSUME IInv, Return \/ RunWake \/ RunEmit \/ Leave, UNCHANGED <<netVars, childVars, chVars>>
  PROVE  Keeps
<1>1. CASE Return \/ Leave
  BY <1>1, ChannelSame, TaskSame, MovesNothing DEF Return, Leave, Keeps, IInv
<1>2. CASE RunWake
  <2>1. Received("wake") /\ UNCHANGED <<open_handles, task>>
    BY <1>2 DEF RunWake
  <2>2. io_rx # <<>> /\ io_rx' = Tail(io_rx) /\ Head(io_rx).kind = "wake"
    BY <2>1, Taking DEF IInv
  <2>3. /\ \A s : Awaited(s)' = Awaited(s)
        /\ \A c : Ending(c)' = Ending(c)
        /\ \A p : ComingTo(p)' = ComingTo(p)
        /\ Coming' = Coming
    BY <2>2, Removing, CountTypes DEF IInv
  <2> QED BY <2>1, <2>3, TaskSame, MovesNothing DEF Keeps, IInv
<1>3. CASE RunEmit
  <2>1. Reached("emit") /\ UNCHANGED <<open_handles, io_rx>>
    BY <1>3 DEF RunEmit
  <2>2. /\ Shaped' /\ Closing' = Closing /\ Catching' = Catching
        /\ \A c : Releasing(c)' = Releasing(c)
    BY <2>1, Stepping, CountTypes DEF IInv
  <2> QED BY <2>1, <2>2, ChannelSame, MovesNothing DEF Keeps
<1> QED BY <1>1, <1>2, <1>3

(* Whether a handle is lost with the steps that are dropped. *)
LEMMA ClosingIs ==
  ASSUME TypeOK, Shaped
  PROVE  Closing = IF \E i \in DOMAIN task : task[i].do = "closed" THEN 1 ELSE 0
<1>1. /\ task \in Seq(TaskStep) /\ DOMAIN task = 1 .. Len(task) /\ Len(task) \in Nat
      /\ \A i \in DOMAIN task : task[i] \in Closings <=> task[i].do = "closed"
  BY LenProperties DEF TypeOK, HostType, Closings
<1>2. CASE \E i \in DOMAIN task : task[i].do = "closed"
  <2>1. task # <<>> /\ task[Len(task)] \in Closings
    BY <1>1, <1>2, EmptySeq DEF Shaped
  <2>2. \A i \in 1 .. Len(task) - 1 : task[i] \notin Closings
    BY <1>1 DEF Shaped
  <2>3. Num(task, Closings) = 1
    BY <1>1, <2>1, <2>2, NumLast
  <2> QED BY <1>2, <2>3 DEF Closing
<1>3. CASE ~\E i \in DOMAIN task : task[i].do = "closed"
  BY <1>1, <1>3, NumNone DEF Closing
<1> QED BY <1>2, <1>3

LEMMA KeepsThrow ==
  ASSUME IInv, Throw, LoseHandle, UNCHANGED <<childVars, chVars>>
  PROVE  Keeps
<1>1. /\ Shaped' /\ Closing' = 0 /\ Catching' = 0 /\ \A c : Releasing(c)' = 0
      /\ Catching = 0 /\ lost' = lost + Closing
      /\ UNCHANGED <<open_handles, io_rx, connecting, sockets, used, records>>
  BY Finishing, ClosingIs DEF Throw, LoseHandle, Catching, IInv, TypeOK, NetType
<1>2. Connections' /\ Drains' /\ FinitelyMany'
  BY <1>1, ChannelSame, ConnectionsKept, DrainsKept, CardinalsKept DEF IInv
<1>3. Processes'
  BY <1>1, ChannelSame, CountTypes DEF IInv, Processes
<1>4. Counted'
  BY <1>1, ChannelSame, CardinalsKept, CountTypes, CardinalTypes DEF IInv, Counted, TypeOK, NetType
<1> QED BY <1>1, <1>2, <1>3, <1>4 DEF Keeps

----------------------------------------------------------------------------
(* Sockets: calls. *)

LEMMA PlainTask ==
  ASSUME TypeOK, NEW t \in Task, io_rx' = Append(io_rx, t),
         t.kind \notin {"connect", "connectError", "childExit", "workerExit", "deliver", "broadcast"}
  PROVE  /\ \A s : Awaited(s)' = Awaited(s)
         /\ \A c : Ending(c)' = Ending(c)
         /\ \A p : ComingTo(p)' = ComingTo(p)
         /\ Coming' = Coming
  BY Posting, CountTypes

LEMMA KeepsOpen ==
  ASSUME IInv, NEW e \in Endpoint, NEW k \in {"listening", "sent"}, Call,
         IF records[e] = 0 THEN Open(e, IoTask(k, e, 0))
         ELSE Post(IoTask(k, e, 0)) /\ UNCHANGED <<open_handles, endpointVars>>,
         UNCHANGED <<tcpVars, childVars, chVars>>
  PROVE  Keeps
<1>1. IoTask(k, e, 0) \in Task /\ IoTask(k, e, 0).kind = k
  BY TaskTypes DEF IoTask
<1>2. /\ \A s : Awaited(s)' = Awaited(s)
      /\ \A c : Ending(c)' = Ending(c)
      /\ \A p : ComingTo(p)' = ComingTo(p)
      /\ Coming' = Coming
  BY <1>1, PlainTask DEF IInv, Open, Post
<1>3. /\ Shaped' /\ Closing' = Closing /\ Catching' = Catching /\ \A c : Releasing(c)' = Releasing(c)
  BY Calling, TaskSame DEF IInv
<1>4. Connections' /\ Processes' /\ Drains'
  BY <1>2, <1>3, ConnectionsKept, ProcessesKept, DrainsKept DEF IInv
<1>5. CASE records[e] # 0
  BY <1>2, <1>3, <1>5, MovesNothing DEF Keeps
<1>6. CASE records[e] = 0
  <2>1. OpenEndpoints' = OpenEndpoints \cup {e} /\ e \notin OpenEndpoints
    BY <1>6 DEF Open, OpenEndpoints, IInv, TypeOK, NetType
  <2>2. /\ IsFiniteSet(OpenEndpoints')
        /\ Cardinality(OpenEndpoints') = Cardinality(OpenEndpoints) + 1
    BY <2>1, FS_AddElement DEF IInv, FinitelyMany
  <2>3. FinitelyMany'
    BY <2>2 DEF IInv, FinitelyMany
  <2>4. Counted'
    BY <1>2, <1>3, <1>6, <2>2, CountTypes, CardinalTypes
    DEF Open, incr_handle, IInv, Counted, TypeOK, NetType
  <2> QED BY <1>3, <1>4, <2>3, <2>4 DEF Keeps
<1> QED BY <1>5, <1>6

LEMMA KeepsCloseEndpoint ==
  ASSUME IInv, NEW e \in Endpoint, CloseEndpoint(e), UNCHANGED <<childVars, chVars>>
  PROVE  Keeps
<1>1. /\ \A s : Awaited(s)' = Awaited(s)
      /\ \A c : Ending(c)' = Ending(c)
      /\ \A p : ComingTo(p)' = ComingTo(p)
      /\ Coming' = Coming
  <2>1. Wake \in Task /\ Wake.kind = "wake"
    BY TaskTypes DEF Wake, IoTask
  <2> QED BY <2>1, PlainTask, ChannelSame DEF CloseEndpoint, Post, IInv
<1>2. /\ Shaped' /\ Closing' = Closing /\ Catching' = Catching /\ \A c : Releasing(c)' = Releasing(c)
  BY Calling, TaskSame DEF CloseEndpoint, IInv
<1>3. Connections' /\ Processes' /\ Drains'
  BY <1>1, <1>2, ConnectionsKept, ProcessesKept, DrainsKept DEF CloseEndpoint, IInv
<1>4. OpenEndpoints' = OpenEndpoints \ {e} /\ (e \in OpenEndpoints <=> records[e] # 0)
  BY DEF CloseEndpoint, OpenEndpoints, IInv, TypeOK, NetType
<1>5. /\ IsFiniteSet(OpenEndpoints')
      /\ Cardinality(OpenEndpoints') =
           IF records[e] # 0 THEN Cardinality(OpenEndpoints) - 1 ELSE Cardinality(OpenEndpoints)
  BY <1>4, FS_RemoveElement DEF IInv, FinitelyMany
<1>6. FinitelyMany'
  BY <1>5 DEF CloseEndpoint, IInv, FinitelyMany
<1>7. Counted'
  <2>1. records[e] # 0 => Cardinality(OpenEndpoints) > 0
    BY <1>4, CardinalTypes, FS_EmptySet DEF IInv, FinitelyMany
  <2> QED BY <1>1, <1>2, <1>5, <2>1, CountTypes, CardinalTypes
       DEF CloseEndpoint, decr_handle, IInv, Counted, TypeOK, NetType
<1> QED BY <1>2, <1>3, <1>6, <1>7 DEF Keeps

LEMMA KeepsSocketConnect ==
  ASSUME IInv, NEW s \in Socket, socket_connect(s), UNCHANGED <<childVars, chVars>>
  PROVE  Keeps
<1>1. /\ Shaped' /\ Closing' = Closing /\ Catching' = Catching /\ \A c : Releasing(c)' = Releasing(c)
  BY Calling, TaskSame DEF socket_connect, IInv
<1>2. /\ s \notin connecting /\ s \notin sockets /\ connecting' = connecting \cup {s} /\ used' = used \cup {s}
      /\ open_handles' = open_handles + 1
      /\ UNCHANGED <<io_rx, sockets, lost, records>>
  BY DEF socket_connect, Quiet, incr_handle
<1>3. Processes' /\ Drains'
  BY <1>1, <1>2, ChannelSame, ProcessesKept, DrainsKept DEF IInv
<1>4. Connections'
  BY <1>2, ChannelSame, CountTypes DEF IInv, Connections
<1>5. IsFiniteSet(connecting') /\ Cardinality(connecting') = Cardinality(connecting) + 1
  BY <1>2, FS_AddElement DEF IInv, FinitelyMany
<1>6. UNCHANGED OpenEndpoints
  BY <1>2 DEF OpenEndpoints
<1>7. FinitelyMany'
  BY <1>2, <1>5, <1>6 DEF IInv, FinitelyMany
<1>8. Counted'
  BY <1>1, <1>2, <1>5, <1>6, ChannelSame, CountTypes, CardinalTypes DEF IInv, Counted, TypeOK, NetType
<1> QED BY <1>1, <1>3, <1>4, <1>7, <1>8 DEF Keeps

LEMMA KeepsSocketCalls == IInv /\ SocketCalls /\ UNCHANGED <<childVars, chVars>> => Keeps
<1> SUFFICES ASSUME IInv, SocketCalls, UNCHANGED <<childVars, chVars>> PROVE Keeps
  OBVIOUS
<1>1. ASSUME NEW v \in Server, server_listen(v) PROVE Keeps
  <2>1. v \in Endpoint /\ Call /\ records[v] = 0 /\ Open(v, IoTask("listening", v, 0)) /\ UNCHANGED tcpVars
    BY <1>1 DEF server_listen, Endpoint
  <2> QED BY <2>1, KeepsOpen
<1>2. ASSUME NEW u \in Udp, socket_bind(u) \/ socket_send(u) PROVE Keeps
  <2>1. PICK k \in {"listening", "sent"} :
          /\ u \in Endpoint /\ Call /\ UNCHANGED tcpVars
          /\ IF records[u] = 0 THEN Open(u, IoTask(k, u, 0))
             ELSE Post(IoTask(k, u, 0)) /\ UNCHANGED <<open_handles, endpointVars>>
    BY <1>2 DEF socket_bind, socket_send, Endpoint
  <2> QED BY <2>1, KeepsOpen
<1> QED BY <1>1, <1>2, KeepsCloseEndpoint, KeepsSocketConnect DEF SocketCalls

----------------------------------------------------------------------------
(* Sockets: threads. *)

LEMMA KeepsSocketThreads == IInv /\ SocketThreads /\ UNCHANGED <<childVars, chVars>> => Keeps
<1> SUFFICES ASSUME IInv, SocketThreads, UNCHANGED <<childVars, chVars>> PROVE Keeps
  OBVIOUS
<1>1. ASSUME NEW t \in Task, Post(t), UNCHANGED <<open_handles, task, connecting, sockets, used, records, lost>>,
             t.kind \notin {"connect", "connectError", "childExit", "workerExit", "deliver", "broadcast"}
      PROVE  Keeps
  BY <1>1, PlainTask, TaskSame, MovesNothing DEF IInv, Post, Keeps
<1>2. ASSUME NEW e \in Endpoint, NEW id \in 1 .. MaxCalls, Arrive(e, id) PROVE Keeps
  <2> DEFINE t == IoTask(IF e \in Server THEN "connection" ELSE "message", e, id)
  <2>1. id \in Nat \ {0}
    BY HostIoBounds
  <2>2. t \in Task /\ t.kind \in {"connection", "message"}
    BY <2>1, TaskTypes DEF IoTask
  <2>3. Post(t) /\ UNCHANGED <<open_handles, task, connecting, sockets, used, records, lost>>
    BY <1>2 DEF Arrive
  <2> QED BY <1>1, <2>2, <2>3
<1>3. ASSUME NEW e \in Endpoint, NEW id \in 1 .. MaxCalls, StopThread(e, id) PROVE Keeps
  BY <1>3, ChannelSame, TaskSame, MovesNothing DEF StopThread, Keeps, IInv
<1>4. ASSUME NEW s \in Socket, NEW k \in {"data", "end", "broken"}, Post(IoTask(k, s, 0)),
             UNCHANGED <<open_handles, task, connecting, sockets, used, records, lost>>
      PROVE  Keeps
  <2>1. IoTask(k, s, 0) \in Task /\ IoTask(k, s, 0).kind = k
    BY TaskTypes DEF IoTask
  <2> QED BY <1>1, <1>4, <2>1
<1>5. ASSUME NEW s \in Socket, ReadData(s) PROVE Keeps
  BY <1>4, <1>5 DEF ReadData
<1>6. ASSUME NEW s \in Socket, NEW k \in {"end", "broken"}, ReadEnd(s, k) PROVE Keeps
  BY <1>4, <1>6 DEF ReadEnd
<1>7. ASSUME NEW s \in Socket, NEW k \in {"connect", "connectError"}, Connect(s, k) PROVE Keeps
  <2> DEFINE t == IoTask(k, s, 0)
  <2>1. t \in Task /\ t.kind = k /\ t.of = s
    BY TaskTypes DEF IoTask
  <2>2. /\ s \in connecting /\ io_rx' = Append(io_rx, t)
        /\ UNCHANGED <<open_handles, task, connecting, sockets, used, records, lost>>
    BY <1>7 DEF Connect, Post
  <2>3. Awaited(s) = 0
    <3>1. \A i \in DOMAIN io_rx : io_rx[i] \notin Outcomes(s)
      BY <1>7 DEF Connect, Reported, Outcomes
    <3> QED BY <3>1, NumNone DEF Awaited
  <2>4. /\ \A x : Awaited(x)' = Awaited(x) + IF x = s THEN 1 ELSE 0
        /\ \A c : Ending(c)' = Ending(c)
        /\ \A p : ComingTo(p)' = ComingTo(p)
        /\ Coming' = Coming
    BY <2>1, <2>2, Posting, CountTypes DEF IInv
  <2>5. Shaped' /\ Closing' = Closing /\ Catching' = Catching /\ \A c : Releasing(c)' = Releasing(c)
    BY <2>2, TaskSame DEF IInv
  <2>6. Connections'
    BY <2>2, <2>3, <2>4, CountTypes DEF IInv, Connections
  <2>7. Processes' /\ Drains' /\ FinitelyMany'
    BY <2>2, <2>4, <2>5, ProcessesKept, DrainsKept, CardinalsKept DEF IInv
  <2>8. Counted'
    BY <2>2, <2>4, <2>5, CardinalsKept DEF IInv, Counted
  <2> QED BY <2>5, <2>6, <2>7, <2>8 DEF Keeps
<1> QED BY <1>2, <1>3, <1>5, <1>6, <1>7 DEF SocketThreads

----------------------------------------------------------------------------
(* Sockets: IoTasks. *)

(* The function being run has nothing left but emits and perhaps one step. *)
LEMMA PlanningOne ==
  ASSUME NEW a \in TaskStep, task' = <<a>>
  PROVE  /\ Shaped'
         /\ Closing' = IF a.do = "closed" THEN 1 ELSE 0
         /\ Catching' = IF a.do = "delivered" THEN 1 ELSE 0
         /\ \A c : Releasing(c)' = IF a.do = "release" /\ a.of = c THEN 1 ELSE 0
<1> DEFINE q == <<a>>
<1>1. q \in Seq(TaskStep) /\ Len(q) = 1 /\ q[1] = a /\ q # <<>>
  BY SeqOne
<1> HIDE DEF q
<1>2. task' = q
  BY DEF q
<1>3. \A i \in 1 .. Len(q) - 1 : q[i].do = "emit"
  BY <1>1
<1> QED BY <1>1, <1>2, <1>3, Planning

LEMMA PlanningTwo ==
  ASSUME NEW a \in TaskStep, NEW b \in TaskStep, a.do = "emit", b.do # "delivered", task' = <<a, b>>
  PROVE  /\ Shaped' /\ Catching' = 0
         /\ Closing' = IF b.do = "closed" THEN 1 ELSE 0
         /\ \A c : Releasing(c)' = IF b.do = "release" /\ b.of = c THEN 1 ELSE 0
<1> DEFINE q == <<a, b>>
<1>1. q \in Seq(TaskStep) /\ Len(q) = 2 /\ q[1] = a /\ q[2] = b /\ q # <<>>
  BY SeqTwo
<1> HIDE DEF q
<1>2. task' = q
  BY DEF q
<1>3. \A i \in 1 .. Len(q) - 1 : q[i].do = "emit"
  BY <1>1
<1>4. q[Len(q)] = b
  BY <1>1
<1> QED BY <1>1, <1>2, <1>3, <1>4, Planning

LEMMA PlanningThree ==
  ASSUME NEW a \in TaskStep, NEW b \in TaskStep, NEW d \in TaskStep,
         a.do = "emit", b.do = "emit", d.do # "delivered", task' = <<a, b, d>>
  PROVE  /\ Shaped' /\ Catching' = 0
         /\ Closing' = IF d.do = "closed" THEN 1 ELSE 0
         /\ \A c : Releasing(c)' = IF d.do = "release" /\ d.of = c THEN 1 ELSE 0
<1> DEFINE q == <<a, b, d>>
<1>1. q \in Seq(TaskStep) /\ Len(q) = 3 /\ q[1] = a /\ q[2] = b /\ q[3] = d /\ q # <<>>
  BY SeqThree
<1> HIDE DEF q
<1>2. task' = q
  BY DEF q
<1>3. \A i \in 1 .. Len(q) - 1 : q[i].do = "emit"
  BY <1>1
<1>4. q[Len(q)] = d
  BY <1>1
<1> QED BY <1>1, <1>2, <1>3, <1>4, Planning

LEMMA StepDoes ==
  /\ \A o, e : Emit(o, e).do = "emit" /\ Emit(o, e).event = e /\ Emit(o, e).of = o
  /\ \A w, o : Step(w, o).do = w /\ Step(w, o).of = o /\ Step(w, o).event = "none"
  BY DEF Emit, Step

(* A task that holds nothing is received, and the function it runs holds nothing. *)
LEMMA ReceivesNothing ==
  ASSUME IInv, NEW k, Received(k),
         k \notin {"connect", "connectError", "childExit", "workerExit", "deliver", "broadcast"},
         UNCHANGED task \/ (Shaped' /\ Closing' = 0 /\ Catching' = 0 /\ \A c : Releasing(c)' = 0),
         UNCHANGED <<open_handles, connecting, sockets, used, records, lost>>,
         UNCHANGED <<childVars, CH_QUEUE, CH_STARTED, refed>>
  PROVE  Keeps
<1>1. task = <<>> /\ io_rx # <<>> /\ io_rx' = Tail(io_rx) /\ Head(io_rx).kind = k
  BY Taking DEF IInv, Idle
<1>2. /\ Shaped' /\ Closing' = Closing /\ Catching' = Catching /\ \A c : Releasing(c)' = Releasing(c)
  BY <1>1, Finishing, TaskSame DEF IInv
<1>3. /\ \A s : Awaited(s)' = Awaited(s)
      /\ \A c : Ending(c)' = Ending(c)
      /\ \A p : ComingTo(p)' = ComingTo(p)
      /\ Coming' = Coming
  BY <1>1, Removing, CountTypes DEF IInv
<1> QED BY <1>2, <1>3, MovesNothing DEF Keeps

LEMMA KeepsConnection ==
  ASSUME IInv, on_connection, UNCHANGED <<childVars, chVars>>
  PROVE  Keeps
<1>0. Received("connection")
  BY DEF on_connection
<1>1. task = <<>> /\ Head(io_rx).of \in Endpoint
  BY <1>0, Taking, TaskFields DEF IInv, Idle
<1>4. io_rx # <<>> /\ io_rx' = Tail(io_rx) /\ Head(io_rx).kind = "connection"
  BY <1>0, Taking DEF IInv
<1>2. CASE UNCHANGED <<open_handles, task, used, sockets, reading>>
  BY <1>0, <1>2, ReceivesNothing DEF on_connection
<1>3. ASSUME NEW s \in Socket \ used, used' = used \cup {s}, sockets' = sockets \cup {s},
             incr_handle, task' = <<Emit(Head(io_rx).of, "connection")>>
      PROVE  Keeps
  <2>1. Emit(Head(io_rx).of, "connection") \in TaskStep
    BY <1>1, StepTypes DEF Event
  <2>2. /\ Shaped' /\ Closing' = Closing /\ Catching' = Catching /\ \A c : Releasing(c)' = Releasing(c)
    BY <1>1, <1>3, <2>1, PlanningOne, StepDoes, Finishing
  <2>3. /\ \A x : Awaited(x)' = Awaited(x)
        /\ \A c : Ending(c)' = Ending(c)
        /\ \A p : ComingTo(p)' = ComingTo(p)
        /\ Coming' = Coming
    BY <1>4, Removing, CountTypes DEF IInv
  <2>4. UNCHANGED <<connecting, lost, records>> /\ open_handles' = open_handles + 1
    BY <1>3 DEF on_connection, incr_handle
  <2>5. Processes' /\ Drains'
    BY <2>2, <2>3, ProcessesKept, DrainsKept DEF IInv
  <2>6. Connections'
    BY <1>3, <2>3, <2>4 DEF IInv, Connections
  <2>7. s \notin sockets
    BY DEF IInv, Connections
  <2>8. IsFiniteSet(sockets') /\ Cardinality(sockets') = Cardinality(sockets) + 1
    BY <1>3, <2>7, FS_AddElement DEF IInv, FinitelyMany
  <2>9. UNCHANGED OpenEndpoints
    BY <2>4 DEF OpenEndpoints
  <2>10. FinitelyMany'
    BY <2>4, <2>8, <2>9 DEF IInv, FinitelyMany
  <2>11. Counted'
    BY <2>2, <2>3, <2>4, <2>8, <2>9, CountTypes, CardinalTypes DEF IInv, Counted, TypeOK, NetType
  <2> QED BY <2>2, <2>5, <2>6, <2>10, <2>11 DEF Keeps
<1> QED BY <1>2, <1>3 DEF on_connection

(* The outcome of an attempt is taken out of the channel. *)
LEMMA OutcomeTaken ==
  ASSUME IInv, io_rx # <<>>, Head(io_rx).kind \in {"connect", "connectError"},
         io_rx' = Tail(io_rx) \/ io_rx' = Append(Tail(io_rx), Wake)
  PROVE  LET s == Head(io_rx).of IN
         /\ s \in connecting
         /\ \A x : Awaited(x)' = Awaited(x) - IF x = s THEN 1 ELSE 0
         /\ \A c : Ending(c)' = Ending(c)
         /\ \A p : ComingTo(p)' = ComingTo(p)
         /\ Coming' = Coming
<1> DEFINE t == Head(io_rx)
           s == t.of
<1>1. t \in Task /\ Tail(io_rx) \in Seq(Task)
  BY HeadTailProperties DEF IInv, TypeOK, HostType
<1>2. s \in Socket
  BY <1>1, TaskFields
<1>3. \A A : Num(Tail(io_rx), A) = Num(io_rx, A) - IF t \in A THEN 1 ELSE 0
  BY NumTail DEF IInv, TypeOK, HostType
<1>4. \A A : Num(Tail(io_rx), A) \in Nat
  BY <1>1, PlacesFinite
<1>5. \A A : Num(Append(Tail(io_rx), Wake), A) = Num(Tail(io_rx), A) + IF Wake \in A THEN 1 ELSE 0
  BY <1>1, NumAppend, TaskTypes
<1>6. /\ \A x : Wake \notin Outcomes(x) /\ Wake \notin Endings(x) /\ Wake \notin DeliveriesTo(x)
      /\ Wake \notin Deliveries
  BY DEF Wake, IoTask, Outcomes, Endings, DeliveriesTo, Deliveries
<1>7. \A A : Wake \notin A => Num(io_rx', A) = Num(io_rx, A) - IF t \in A THEN 1 ELSE 0
  <2> SUFFICES ASSUME NEW A, Wake \notin A
               PROVE  Num(io_rx', A) = Num(io_rx, A) - IF t \in A THEN 1 ELSE 0
    OBVIOUS
  <2>1. Num(Append(Tail(io_rx), Wake), A) = Num(Tail(io_rx), A)
    BY <1>4, <1>5
  <2>2. Num(io_rx', A) = Num(Tail(io_rx), A)
    BY <2>1
  <2> QED BY <1>3, <2>2
<1>11. /\ \A x : t \in Outcomes(x) <=> x = s
       /\ \A x : t \notin Endings(x) /\ t \notin DeliveriesTo(x)
       /\ t \notin Deliveries
  BY <1>1, Sorting
<1> HIDE DEF t
<1>8. /\ \A x : Awaited(x)' = Awaited(x) - IF x = s THEN 1 ELSE 0
      /\ \A c : Ending(c)' = Ending(c)
      /\ \A p : ComingTo(p)' = ComingTo(p)
      /\ Coming' = Coming
  <2>1. \A x : Num(io_rx', Outcomes(x)) = Num(io_rx, Outcomes(x)) - IF x = s THEN 1 ELSE 0
    BY <1>6, <1>7, <1>11
  <2>2. \A x : Num(io_rx', Endings(x)) = Num(io_rx, Endings(x)) - 0
    BY <1>6, <1>7, <1>11
  <2>3. \A x : Num(io_rx', DeliveriesTo(x)) = Num(io_rx, DeliveriesTo(x)) - 0
    BY <1>6, <1>7, <1>11
  <2>4. Num(io_rx', Deliveries) = Num(io_rx, Deliveries) - 0
    BY <1>6, <1>7, <1>11
  <2> QED BY <2>1, <2>2, <2>3, <2>4, CountTypes DEF Awaited, Ending, ComingTo, Coming, IInv
<1>9. Awaited(s) > 0
  <2>1. t \in Outcomes(s)
    BY <1>1, Sorting DEF t
  <2>2. Num(Tail(io_rx), Outcomes(s)) = Num(io_rx, Outcomes(s)) - 1
    BY <1>3, <2>1
  <2> QED BY <1>4, <2>2, CountTypes DEF Awaited, IInv
<1>10. s \in connecting
  BY <1>2, <1>9, CountTypes DEF IInv, Connections
<1> QED BY <1>8, <1>10 DEF t

LEMMA KeepsOutcome ==
  ASSUME IInv, NEW s \in connecting, connecting' = connecting \ {s},
         \A x : Awaited(x)' = Awaited(x) - IF x = s THEN 1 ELSE 0,
         \A c : Ending(c)' = Ending(c),
         \A p : ComingTo(p)' = ComingTo(p), Coming' = Coming,
         Shaped', Closing' = Closing, Catching' = Catching, \A c : Releasing(c)' = Releasing(c),
         UNCHANGED <<used, lost, records, childVars, chVars>>,
         \/ sockets' = sockets \cup {s} /\ open_handles' = open_handles
         \/ sockets' = sockets /\ decr_handle
  PROVE  Keeps
<1>1. Processes' /\ Drains'
  BY ProcessesKept, DrainsKept DEF IInv
<1>2. Connections'
  BY CountTypes DEF IInv, Connections
<1>3. IsFiniteSet(connecting') /\ Cardinality(connecting') = Cardinality(connecting) - 1
  BY FS_RemoveElement DEF IInv, FinitelyMany
<1>4. s \notin sockets
  BY DEF IInv, Connections
<1>5. /\ IsFiniteSet(sockets')
      /\ sockets' = sockets \cup {s} => Cardinality(sockets') = Cardinality(sockets) + 1
  BY <1>4, FS_AddElement DEF IInv, FinitelyMany
<1>6. UNCHANGED OpenEndpoints
  BY DEF OpenEndpoints
<1>7. FinitelyMany'
  BY <1>3, <1>5, <1>6 DEF IInv, FinitelyMany
<1>8. Cardinality(connecting) > 0
  BY CardinalTypes, FS_EmptySet DEF IInv, FinitelyMany
<1>9. CASE sockets' = sockets \cup {s} /\ open_handles' = open_handles
  <2>1. Counted'
    BY <1>3, <1>5, <1>6, <1>9, CountTypes, CardinalTypes DEF IInv, Counted, TypeOK, NetType
  <2> QED BY <1>1, <1>2, <1>7, <2>1 DEF Keeps
<1>10. CASE sockets' = sockets /\ decr_handle
  <2>1. Counted'
    BY <1>3, <1>6, <1>8, <1>10, CountTypes, CardinalTypes DEF decr_handle, IInv, Counted, TypeOK, NetType
  <2> QED BY <1>1, <1>2, <1>7, <2>1 DEF Keeps
<1> QED BY <1>9, <1>10

LEMMA KeepsConnect ==
  ASSUME IInv, on_connect \/ on_connect_error, UNCHANGED <<childVars, chVars>>
  PROVE  Keeps
<1> DEFINE s == Head(io_rx).of
<1>1. /\ task = <<>> /\ io_rx # <<>> /\ Head(io_rx).kind \in {"connect", "connectError"}
      /\ io_rx' = Tail(io_rx) \/ io_rx' = Append(Tail(io_rx), Wake)
      /\ connecting' = connecting \ {s}
      /\ UNCHANGED <<used, lost, records>>
  BY DEF on_connect, on_connect_error, Received, Idle
<1>2. /\ s \in connecting
      /\ \A x : Awaited(x)' = Awaited(x) - IF x = s THEN 1 ELSE 0
      /\ \A c : Ending(c)' = Ending(c)
      /\ \A p : ComingTo(p)' = ComingTo(p)
      /\ Coming' = Coming
  BY <1>1, OutcomeTaken
<1>3. task' = <<>> \/ task' = <<Emit(s, "connect")>> \/ task' = <<Emit(s, "error")>>
  BY <1>1 DEF on_connect, on_connect_error
<1>4. Emit(s, "connect") \in TaskStep /\ Emit(s, "error") \in TaskStep
  BY <1>2, StepTypes DEF Event, IInv, TypeOK, NetType
<1>5. /\ Shaped' /\ Closing' = Closing /\ Catching' = Catching /\ \A c : Releasing(c)' = Releasing(c)
  BY <1>1, <1>3, <1>4, PlanningOne, StepDoes, Finishing
<1>6. \/ sockets' = sockets \cup {s} /\ open_handles' = open_handles
      \/ sockets' = sockets /\ decr_handle
  BY DEF on_connect, on_connect_error
<1> HIDE DEF s
<1> QED BY <1>1, <1>2, <1>5, <1>6, KeepsOutcome

LEMMA KeepsSocketClose ==
  ASSUME IInv, on_socket_close, UNCHANGED <<childVars, chVars>>
  PROVE  Keeps
<1> DEFINE s == Head(task).of
<1>1. /\ task # <<>> /\ Head(task).do = "close"
      /\ sockets' = sockets \ {s}
      /\ task' = IF s \in sockets THEN <<Emit(s, "close"), Step("closed", s)>> ELSE <<>>
      /\ UNCHANGED <<open_handles, io_rx, connecting, used, lost, records>>
  BY DEF on_socket_close
<1>2. s \in Socket
  BY <1>1, HeadTailProperties, StepFields DEF IInv, TypeOK, HostType
<1>3. Closing = 0 /\ Catching = 0
  <2>1. /\ task \in Seq(TaskStep) /\ Len(task) \in Nat \ {0} /\ DOMAIN task = 1 .. Len(task)
        /\ Head(task) = task[1]
    BY <1>1, LenProperties, EmptySeq, HeadTailProperties DEF IInv, TypeOK, HostType
  <2>2. Len(task) = 1
    BY <1>1, <2>1 DEF IInv, Shaped
  <2>3. ~\E i \in DOMAIN task : task[i].do = "closed"
    BY <1>1, <2>1, <2>2
  <2> QED BY <1>1, <2>3, ClosingIs DEF IInv, Catching, Caught
<1>4. Emit(s, "close") \in TaskStep /\ Step("closed", s) \in TaskStep
  BY <1>2, StepTypes DEF Event
<1> HIDE DEF s
<1>5. /\ Shaped' /\ Catching' = 0 /\ \A c : Releasing(c)' = 0
      /\ Closing' = IF s \in sockets THEN 1 ELSE 0
  <2>1. CASE s \in sockets
    BY <1>1, <1>4, <2>1, PlanningTwo, StepDoes
  <2>2. CASE s \notin sockets
    BY <1>1, <2>2, Finishing
  <2> QED BY <2>1, <2>2
<1>6. Connections' /\ Drains'
  BY <1>1, ChannelSame, DrainsKept DEF IInv, Connections
<1>7. Processes'
  BY <1>1, <1>5, ChannelSame, CountTypes DEF IInv, Processes
<1>8. /\ IsFiniteSet(sockets')
      /\ Cardinality(sockets') = IF s \in sockets THEN Cardinality(sockets) - 1 ELSE Cardinality(sockets)
  BY <1>1, FS_RemoveElement DEF IInv, FinitelyMany
<1>9. UNCHANGED OpenEndpoints
  BY <1>1 DEF OpenEndpoints
<1>10. FinitelyMany'
  BY <1>1, <1>8, <1>9 DEF IInv, FinitelyMany
<1>11. Counted'
  <2>1. /\ Cardinality(sockets') + Closing' = Cardinality(sockets) + Closing
        /\ Cardinality(sockets') \in Int /\ Closing' \in Int
        /\ Cardinality(sockets) \in Nat /\ Closing \in Nat
    BY <1>3, <1>5, <1>8, CountTypes, CardinalTypes DEF IInv
  <2>2. Catching' = Catching /\ Coming' = Coming
    BY <1>1, <1>3, <1>5, ChannelSame
  <2>3. UNCHANGED <<open_handles, connecting, lost, OpenEndpoints, CHILDREN, refed>>
    BY <1>1, <1>9
  <2>4. lost \in Nat /\ Catching \in Nat /\ Coming \in Nat
    BY CountTypes DEF IInv, TypeOK, NetType
  <2>5. /\ Cardinality(connecting) \in Nat /\ Cardinality(OpenEndpoints) \in Nat
        /\ Cardinality(CHILDREN) \in Nat /\ Cardinality(refed) \in Nat
    BY CardinalTypes DEF IInv
  <2>6. open_handles =
          Cardinality(connecting) + Cardinality(sockets) + lost + Cardinality(OpenEndpoints) + Closing
            + Cardinality(CHILDREN) + Coming + Catching + Cardinality(refed)
    BY DEF IInv, Counted
  <2> QED BY <2>1, <2>2, <2>3, <2>4, <2>5, <2>6 DEF Counted
<1> QED BY <1>5, <1>6, <1>7, <1>10, <1>11 DEF Keeps

LEMMA KeepsClosed ==
  ASSUME IInv, Closed, UNCHANGED <<childVars, chVars>>
  PROVE  Keeps
<1>1. Reached("closed") /\ decr_handle /\ io_rx' = Append(io_rx, Wake) /\ UNCHANGED netVars
  BY DEF Closed, Post
<1>2. /\ Shaped' /\ Closing' = Closing - 1 /\ Catching' = Catching
      /\ \A c : Releasing(c)' = Releasing(c)
  BY <1>1, Stepping, CountTypes DEF IInv
<1>3. Wake \in Task /\ Wake.kind = "wake"
  BY TaskTypes DEF Wake, IoTask
<1>4. /\ \A s : Awaited(s)' = Awaited(s)
      /\ \A c : Ending(c)' = Ending(c)
      /\ \A p : ComingTo(p)' = ComingTo(p)
      /\ Coming' = Coming
  BY <1>1, <1>3, PlainTask DEF IInv
<1>5. Connections' /\ Processes' /\ Drains' /\ FinitelyMany'
  BY <1>1, <1>2, <1>4, ConnectionsKept, ProcessesKept, DrainsKept, CardinalsKept DEF IInv
<1>6. Closing > 0
  <2>1. Closing' \in Nat
    BY <1>1, Reaching, PlacesFinite DEF Closing, IInv
  <2> QED BY <1>2, <2>1, CountTypes DEF IInv
<1>7. Counted'
  <2>1. open_handles > 0
    BY <1>6, CountTypes, CardinalTypes DEF IInv, Counted, TypeOK, NetType
  <2>2. open_handles' = open_handles - 1
    BY <1>1, <2>1 DEF decr_handle
  <2>3. /\ UNCHANGED <<connecting, sockets, lost, CHILDREN, refed>>
        /\ Cardinality(OpenEndpoints)' = Cardinality(OpenEndpoints)
    BY <1>1, CardinalsKept
  <2> QED BY <1>2, <1>4, <2>2, <2>3, CountTypes, CardinalTypes DEF IInv, Counted, TypeOK, NetType
<1> QED BY <1>2, <1>5, <1>7 DEF Keeps

LEMMA KeepsSocketTasks == IInv /\ SocketTasks /\ UNCHANGED <<childVars, chVars>> => Keeps
<1> SUFFICES ASSUME IInv, SocketTasks, UNCHANGED <<childVars, chVars>> PROVE Keeps
  OBVIOUS
<1>1. ASSUME NEW k \in {"listening", "sent", "message", "data", "end", "broken"}, Received(k),
             \/ UNCHANGED task
             \/ \E e \in {"listening", "message", "data"} : task' = <<Emit(Head(io_rx).of, e)>>
             \/ k \in {"end", "broken"} /\ task' = <<Step("close", Head(io_rx).of)>>
             \/ k = "end" /\ task' = <<Emit(Head(io_rx).of, "end"), Step("close", Head(io_rx).of)>>,
             UNCHANGED <<open_handles, connecting, sockets, used, records, lost>>
      PROVE  Keeps
  <2> DEFINE o == Head(io_rx).of
  <2>1. o \in Socket \cup Endpoint /\ (k \in {"end", "broken"} => o \in Socket)
    BY <1>1, Taking, TaskFields DEF IInv
  <2>2. \A e \in Event : Emit(o, e) \in TaskStep
    BY <2>1, StepTypes
  <2>3. o \in Socket => Step("close", o) \in TaskStep
    BY StepTypes
  <2> HIDE DEF o
  <2>4. ASSUME NEW e \in {"listening", "message", "data"}, task' = <<Emit(o, e)>>
        PROVE  Shaped' /\ Closing' = 0 /\ Catching' = 0 /\ \A c : Releasing(c)' = 0
    <3>1. Emit(o, e) \in TaskStep
      BY <2>2 DEF Event
    <3> QED BY <2>4, <3>1, PlanningOne, StepDoes
  <2>5. ASSUME o \in Socket, task' = <<Step("close", o)>>
        PROVE  Shaped' /\ Closing' = 0 /\ Catching' = 0 /\ \A c : Releasing(c)' = 0
    BY <2>3, <2>5, PlanningOne, StepDoes
  <2>6. ASSUME o \in Socket, task' = <<Emit(o, "end"), Step("close", o)>>
        PROVE  Shaped' /\ Closing' = 0 /\ Catching' = 0 /\ \A c : Releasing(c)' = 0
    <3>1. Emit(o, "end") \in TaskStep /\ Step("close", o) \in TaskStep
      BY <2>2, <2>3, <2>6 DEF Event
    <3> QED BY <2>6, <3>1, PlanningTwo, StepDoes
  <2>7. \/ UNCHANGED task
        \/ Shaped' /\ Closing' = 0 /\ Catching' = 0 /\ \A c : Releasing(c)' = 0
    BY <1>1, <2>1, <2>4, <2>5, <2>6 DEF o
  <2> QED BY <1>1, <2>7, ReceivesNothing
<1>2. ASSUME RunListening PROVE Keeps
  BY <1>1, <1>2 DEF RunListening
<1>3. ASSUME RunSent PROVE Keeps
  BY <1>1, <1>3 DEF RunSent
<1>4. ASSUME on_message PROVE Keeps
  BY <1>1, <1>4 DEF on_message
<1>5. ASSUME on_socket_data PROVE Keeps
  BY <1>1, <1>5 DEF on_socket_data
<1>6. ASSUME on_socket_end PROVE Keeps
  BY <1>1, <1>6 DEF on_socket_end
<1>7. ASSUME RunSocketError PROVE Keeps
  BY <1>1, <1>7 DEF RunSocketError
<1> QED BY <1>2, <1>3, <1>4, <1>5, <1>6, <1>7, KeepsConnection, KeepsConnect, KeepsSocketClose,
       KeepsClosed DEF SocketTasks

----------------------------------------------------------------------------
(* Child processes. *)

LEMMA KeepsFork ==
  ASSUME IInv, NEW c \in Live, process[c] = "none", Call,
         process' = [process EXCEPT ![c] = "running"], CHILDREN' = CHILDREN \cup {c}, incr_handle,
         \A s : Awaited(s)' = Awaited(s), \A d : Ending(d)' = Ending(d),
         \A p : ComingTo(p)' = ComingTo(p), Coming' = Coming,
         UNCHANGED <<netVars, chVars>>
  PROVE  Keeps
<1>1. /\ Shaped' /\ Closing' = Closing /\ Catching' = Catching /\ \A d : Releasing(d)' = Releasing(d)
  BY Calling, TaskSame DEF IInv
<1>2. Connections' /\ Drains'
  BY ConnectionsKept, DrainsKept DEF IInv
<1>3. c \notin CHILDREN
  BY DEF IInv, Processes
<1>4. Processes'
  BY <1>1, <1>3, CountTypes DEF IInv, Processes, TypeOK, ChildType
<1>5. IsFiniteSet(CHILDREN') /\ Cardinality(CHILDREN') = Cardinality(CHILDREN) + 1
  BY <1>3, FS_AddElement DEF IInv, FinitelyMany
<1>6. UNCHANGED OpenEndpoints
  BY DEF OpenEndpoints
<1>7. FinitelyMany'
  BY <1>5, <1>6 DEF IInv, FinitelyMany
<1>8. Counted'
  BY <1>1, <1>5, <1>6, CountTypes, CardinalTypes DEF incr_handle, IInv, Counted, TypeOK, NetType
<1> QED BY <1>1, <1>2, <1>4, <1>7, <1>8 DEF Keeps

LEMMA KeepsReap ==
  ASSUME IInv, NEW c \in Live, Reap(c), UNCHANGED <<netVars, chVars>>
  PROVE  Keeps
<1> DEFINE k == IF c \in Child THEN "childExit" ELSE "workerExit"
<1>1. IoTask(k, c, 0) \in Task /\ IoTask(k, c, 0).kind = k /\ IoTask(k, c, 0).of = c
  BY TaskTypes DEF IoTask
<1>2. k \in {"childExit", "workerExit"}
  OBVIOUS
<1>3. /\ io_rx' = Append(io_rx, IoTask(k, c, 0)) /\ UNCHANGED <<open_handles, task, CHILDREN>>
      /\ process[c] = "running" /\ process' = [process EXCEPT ![c] = "reaped"]
  BY DEF Reap
<1> HIDE DEF k
<1>4. /\ \A s : Awaited(s)' = Awaited(s)
      /\ \A d : Ending(d)' = Ending(d) + IF d = c THEN 1 ELSE 0
      /\ \A p : ComingTo(p)' = ComingTo(p)
      /\ Coming' = Coming
  BY <1>1, <1>2, <1>3, Posting, CountTypes DEF IInv
<1>5. /\ Shaped' /\ Closing' = Closing /\ Catching' = Catching /\ \A d : Releasing(d)' = Releasing(d)
  BY <1>3, TaskSame DEF IInv
<1>6. Connections' /\ Drains' /\ FinitelyMany'
  BY <1>3, <1>4, ConnectionsKept, DrainsKept, CardinalsKept DEF IInv
<1>7. Processes'
  BY <1>3, <1>4, <1>5, CountTypes DEF IInv, Processes, TypeOK, ChildType
<1>8. Counted'
  BY <1>3, <1>4, <1>5, CardinalsKept DEF IInv, Counted
<1> QED BY <1>5, <1>6, <1>7, <1>8 DEF Keeps

(* The end of a process is received. *)
LEMMA KeepsExit ==
  ASSUME IInv, NEW k \in {"childExit", "workerExit"}, Received(k),
         NEW e \in Event, NEW f \in Event,
         task' = <<Emit(Head(io_rx).of, e), Emit(Head(io_rx).of, f), Step("release", Head(io_rx).of)>>,
         UNCHANGED <<open_handles, childVars, netVars, chVars>>
  PROVE  Keeps
<1> DEFINE c == Head(io_rx).of
<1>1. c \in Live /\ task = <<>>
  BY Taking, TaskFields DEF IInv, Idle
<1>2. io_rx # <<>> /\ io_rx' = Tail(io_rx) /\ Head(io_rx).kind = k
  BY Taking DEF IInv
<1>3. /\ \A s : Awaited(s)' = Awaited(s)
      /\ \A d : Ending(d)' = Ending(d) - IF d = c THEN 1 ELSE 0
      /\ \A p : ComingTo(p)' = ComingTo(p)
      /\ Coming' = Coming
  BY <1>2, Removing, CountTypes DEF IInv
<1>4. Emit(c, e) \in TaskStep /\ Emit(c, f) \in TaskStep /\ Step("release", c) \in TaskStep
  BY <1>1, StepTypes
<1> HIDE DEF c
<1>5. /\ Shaped' /\ Closing' = 0 /\ Catching' = 0
      /\ \A d : Releasing(d)' = IF d = c THEN 1 ELSE 0
  BY <1>4, PlanningThree, StepDoes DEF c
<1>6. Closing = 0 /\ Catching = 0 /\ \A d : Releasing(d) = 0
  BY <1>1, Finishing
<1>7. Connections' /\ Drains' /\ FinitelyMany'
  BY <1>3, ConnectionsKept, DrainsKept, CardinalsKept DEF IInv
<1>8. Processes'
  BY <1>3, <1>5, <1>6, CountTypes DEF IInv, Processes, TypeOK, ChildType
<1>9. Counted'
  BY <1>3, <1>5, <1>6, CardinalsKept DEF IInv, Counted
<1> QED BY <1>5, <1>7, <1>8, <1>9 DEF Keeps

LEMMA KeepsRelease ==
  ASSUME IInv, Release, UNCHANGED <<netVars, chVars>>
  PROVE  Keeps
<1>0. PICK c : c = Head(task).of
  OBVIOUS
<1>1. /\ Reached("release") /\ CHILDREN' = CHILDREN \ {c} /\ decr_handle /\ UNCHANGED process
      /\ io_rx' = Append(io_rx, Wake) \/ io_rx' = io_rx
  BY <1>0 DEF Release
<1>2. c \in Live
  BY <1>0, <1>1, Reaching, StepFields DEF IInv
<1>3. /\ Shaped' /\ Closing' = Closing /\ Catching' = Catching
      /\ \A d : Releasing(d)' = Releasing(d) - IF d = c THEN 1 ELSE 0
  BY <1>0, <1>1, Stepping, CountTypes DEF IInv
<1>4. Releasing(c) > 0
  <2>1. Releasing(c)' \in Nat
    BY <1>1, Reaching, PlacesFinite DEF Releasing, IInv
  <2>2. Releasing(c)' = Releasing(c) - 1
    BY <1>3
  <2>3. Releasing(c) \in Nat
    BY CountTypes DEF IInv
  <2> QED BY <2>1, <2>2, <2>3
<1>5. c \in CHILDREN /\ Ending(c) + Releasing(c) <= 1 /\ process[c] = "reaped"
  BY <1>2, <1>4, CountTypes DEF IInv, Processes
<1>6. Wake \in Task /\ Wake.kind = "wake"
  BY TaskTypes DEF Wake, IoTask
<1>7. /\ \A s : Awaited(s)' = Awaited(s)
      /\ \A d : Ending(d)' = Ending(d)
      /\ \A p : ComingTo(p)' = ComingTo(p)
      /\ Coming' = Coming
  BY <1>1, <1>6, PlainTask, ChannelSame DEF IInv
<1>8. Connections' /\ Drains'
  BY <1>7, ConnectionsKept, DrainsKept DEF IInv
<1>9. Processes'
  BY <1>1, <1>3, <1>4, <1>5, <1>7, CountTypes DEF IInv, Processes
<1>10. IsFiniteSet(CHILDREN') /\ Cardinality(CHILDREN') = Cardinality(CHILDREN) - 1
  BY <1>1, <1>5, FS_RemoveElement DEF IInv, FinitelyMany
<1>11. UNCHANGED OpenEndpoints
  BY DEF OpenEndpoints
<1>12. FinitelyMany'
  BY <1>10, <1>11 DEF IInv, FinitelyMany
<1>13. Cardinality(CHILDREN) > 0
  BY <1>5, CardinalTypes, FS_EmptySet DEF IInv, FinitelyMany
<1>14. Counted'
  <2>1. open_handles > 0
    BY <1>13, CountTypes, CardinalTypes DEF IInv, Counted, TypeOK, NetType
  <2>2. open_handles' = open_handles - 1
    BY <1>1, <2>1 DEF decr_handle
  <2>3. Counted /\ open_handles \in Nat /\ lost \in Nat
    BY DEF IInv, TypeOK, HostType, NetType
  <2>4. FinitelyMany /\ TypeOK
    BY DEF IInv
  <2> QED BY <1>3, <1>7, <1>10, <1>11, <2>2, <2>3, <2>4, CountTypes, CardinalTypes DEF Counted
<1> QED BY <1>3, <1>8, <1>9, <1>12, <1>14 DEF Keeps

LEMMA KeepsChildren ==
  ASSUME IInv, ChildCalls \/ (\E c \in Live : Reap(c)) \/ ChildTasks, UNCHANGED <<netVars, chVars>>
  PROVE  Keeps
<1>1. ASSUME NEW c \in Child, fork(c) PROVE Keeps
  BY <1>1, ChannelSame, KeepsFork DEF fork, Quiet, Live
<1>2. ASSUME NEW w \in Worker, cluster_fork(w) PROVE Keeps
  <2>1. IoTask("online", w, 0) \in Task /\ IoTask("online", w, 0).kind = "online" /\ w \in Live
    BY TaskTypes DEF IoTask, Live
  <2>2. /\ \A s : Awaited(s)' = Awaited(s)
        /\ \A d : Ending(d)' = Ending(d)
        /\ \A p : ComingTo(p)' = ComingTo(p)
        /\ Coming' = Coming
    BY <1>2, <2>1, PlainTask DEF cluster_fork, IInv
  <2> QED BY <1>2, <2>1, <2>2, KeepsFork DEF cluster_fork
<1>3. ASSUME NEW s \in Spawned, spawn(s) PROVE Keeps
  BY <1>3, ChannelSame, TaskSame, Calling, MovesNothing DEF spawn, Keeps, IInv
<1>4. ASSUME on_child_exit PROVE Keeps
  BY <1>4, KeepsExit DEF on_child_exit, Event
<1>5. ASSUME dispatch_exit PROVE Keeps
  BY <1>5, KeepsExit DEF dispatch_exit, Event
<1>6. ASSUME dispatch_online PROVE Keeps
  <2> DEFINE w == Head(io_rx).of
  <2>1. Received("online") /\ UNCHANGED <<open_handles, childVars>>
    BY <1>6 DEF dispatch_online
  <2>2. w \in Live
    BY <2>1, Taking, TaskFields DEF IInv
  <2>3. Emit(w, "online") \in TaskStep /\ Emit(w, "clusterOnline") \in TaskStep
    BY <2>2, StepTypes DEF Event
  <2>4. task' = <<>> \/ task' = <<Emit(w, "online"), Emit(w, "clusterOnline")>>
    BY <1>6 DEF dispatch_online
  <2> HIDE DEF w
  <2>5. Shaped' /\ Closing' = 0 /\ Catching' = 0 /\ \A c : Releasing(c)' = 0
    <3>1. CASE task' = <<>>
      BY <3>1, Finishing
    <3>2. CASE task' = <<Emit(w, "online"), Emit(w, "clusterOnline")>>
      <4>1. /\ Emit(w, "online").do = "emit" /\ Emit(w, "clusterOnline").do = "emit"
        BY StepDoes
      <4> QED BY <2>3, <3>2, <4>1, PlanningTwo
    <3> QED BY <2>4, <3>1, <3>2
  <2> QED BY <2>1, <2>5, ReceivesNothing
<1>7. ASSUME child_events PROVE Keeps
  <2> DEFINE s == Head(immediates)
  <2>1. task = <<>> /\ UNCHANGED <<open_handles, io_rx, childVars>> /\ task' \in Events(s)
    BY <1>7 DEF child_events, Idle
  <2>2. s \in Spawned
    BY <1>7, HeadTailProperties DEF child_events, IInv, TypeOK, HostType
  <2>3. \A e \in Event : Emit(s, e) \in TaskStep /\ Emit(s, e).do = "emit"
    BY <2>2, StepTypes, StepDoes
  <2>4. /\ Emit(s, "error") \in TaskStep /\ Emit(s, "close") \in TaskStep
        /\ Emit(s, "spawn") \in TaskStep /\ Emit(s, "end") \in TaskStep
        /\ Emit(s, "exit") \in TaskStep /\ Emit(s, "data") \in TaskStep
    BY <2>3 DEF Event
  <2> HIDE DEF s
  <2>5. \A q \in Events(s) : q \in Seq(TaskStep) /\ q # <<>> /\ \A i \in 1 .. Len(q) : q[i].do = "emit"
    <3> DEFINE em(e) == Emit(s, e)
               Fine(q) == q \in Seq(TaskStep) /\ q # <<>> /\ \A i \in 1 .. Len(q) : q[i].do = "emit"
    <3>1. \A e : em(e).do = "emit"
      BY StepDoes
    <3>2. /\ em("error") \in TaskStep /\ em("close") \in TaskStep /\ em("spawn") \in TaskStep
          /\ em("end") \in TaskStep /\ em("exit") \in TaskStep /\ em("data") \in TaskStep
      BY <2>4
    <3>3. \A q \in Events(s) :
            \/ q = <<em("error"), em("close")>>
            \/ q = <<em("spawn"), em("end"), em("exit"), em("close")>>
            \/ q = <<em("spawn"), em("data"), em("end"), em("exit"), em("close")>>
      BY DEF Events
    <3> HIDE DEF em
    <3>4. Fine(<<em("error"), em("close")>>)
      BY <3>1, <3>2
    <3>5. Fine(<<em("spawn"), em("end"), em("exit"), em("close")>>)
      BY <3>1, <3>2
    <3>6. Fine(<<em("spawn"), em("data"), em("end"), em("exit"), em("close")>>)
      BY <3>1, <3>2
    <3> HIDE DEF Fine
    <3>7. \A q \in Events(s) : Fine(q)
      BY <3>3, <3>4, <3>5, <3>6
    <3> QED BY <3>7 DEF Fine
  <2>6. Len(task') \in Nat \ {0} /\ task' \in Seq(TaskStep) /\ task' # <<>>
    BY <2>1, <2>5, LenProperties, EmptySeq
  <2>7. (\A i \in 1 .. Len(task') : task'[i].do = "emit") /\ task'[Len(task')].do = "emit"
    BY <2>1, <2>5, <2>6
  <2>8. Shaped' /\ Closing' = 0 /\ Catching' = 0 /\ \A c : Releasing(c)' = 0
    <3>1. PICK q \in Seq(TaskStep) : q = task'
      BY <2>6
    <3>2. \A i \in 1 .. Len(q) - 1 : q[i].do = "emit"
      BY <2>6, <2>7, <3>1
    <3> QED BY <2>6, <2>7, <3>1, <3>2, Planning
  <2> QED BY <2>1, <2>8, Finishing, ChannelSame, MovesNothing DEF Keeps
<1>8. ASSUME ChildCalls PROVE Keeps
  BY <1>1, <1>2, <1>3, <1>8 DEF ChildCalls
<1>9. ASSUME ChildTasks PROVE Keeps
  BY <1>4, <1>5, <1>6, <1>7, <1>9, KeepsRelease DEF ChildTasks
<1> QED BY <1>8, <1>9, KeepsReap

----------------------------------------------------------------------------
(* Channels: calls. *)

(* Deliveries are scheduled, each with its handle. *)
LEMMA HandlesAdded ==
  ASSUME IInv, NEW n \in Nat, open_handles' = open_handles + n, Coming' = Coming + n,
         Closing' = Closing, Catching' = Catching,
         UNCHANGED <<connecting, sockets, records, lost, CHILDREN, refed>>
  PROVE  Counted'
<1>1. Cardinality(OpenEndpoints)' = Cardinality(OpenEndpoints)
  BY CardinalsKept
<1> QED BY <1>1, CountTypes, CardinalTypes DEF IInv, Counted, TypeOK, NetType

(* A call that schedules the deliveries r. *)
LEMMA KeepsScheduled ==
  ASSUME IInv, Call, Drains', NEW r \in Seq(Task), NEW k \in {"deliver", "broadcast"},
         \A i \in DOMAIN r : r[i].kind = k,
         io_rx' = io_rx \o r, open_handles' = open_handles + Len(r), UNCHANGED refed,
         UNCHANGED <<netVars, childVars>>
  PROVE  Keeps
<1>1. /\ \A s : Awaited(s)' = Awaited(s)
      /\ \A c : Ending(c)' = Ending(c)
      /\ Coming' = Coming + Len(r)
  BY Scheduling DEF IInv
<1>2. /\ Shaped' /\ Closing' = Closing /\ Catching' = Catching /\ \A c : Releasing(c)' = Releasing(c)
  BY Calling, TaskSame DEF IInv
<1>3. Connections' /\ Processes' /\ FinitelyMany'
  BY <1>1, <1>2, ConnectionsKept, ProcessesKept, CardinalsKept DEF IInv
<1>4. PICK n \in Nat : n = Len(r)
  BY LenProperties
<1>5. Counted'
  BY <1>1, <1>2, <1>4, HandlesAdded
<1> QED BY <1>2, <1>3, <1>5 DEF Keeps

LEMMA KeepsSchedule ==
  ASSUME IInv, NEW p \in Port, NEW n \in Nat, Call, Schedule(p, n),
         \A x \in CH_STARTED' : CH_QUEUE'[x] <= ComingTo(x) + IF x = p THEN n ELSE 0,
         UNCHANGED <<netVars, childVars, bcastVars>>
  PROVE  Keeps
<1> DEFINE t == IoTask("deliver", p, 0)
           r == Copies(t, n)
<1>1. /\ r \in Seq(Task) /\ Len(r) = n
      /\ \A i \in DOMAIN r : r[i].kind = "deliver" /\ r[i].of = p
  BY CopiesTypes DEF IoTask
<1>2. io_rx' = io_rx \o r /\ open_handles' = open_handles + n
  BY DEF Schedule
<1> HIDE DEF r
<1>3. /\ ComingTo(p)' = ComingTo(p) + n
      /\ \A x : x # p => ComingTo(x)' = ComingTo(x)
  BY <1>1, <1>2, Scheduling DEF IInv
<1>4. Drains'
  BY <1>3, CountTypes DEF Drains, IInv
<1> QED BY <1>1, <1>2, <1>4, KeepsScheduled

LEMMA KeepsPortCalls ==
  ASSUME IInv, NEW p \in Port,
         channel_post(p) \/ start_channel_port(p) \/ ClosePort(p) \/ receive_message_on_port(p),
         UNCHANGED <<netVars, childVars>>
  PROVE  Keeps
<1>1. /\ CH_QUEUE \in [Port -> Nat] /\ CH_STARTED \subseteq Port /\ \A x : ComingTo(x) \in Nat
      /\ \A x \in CH_STARTED : CH_QUEUE[x] <= ComingTo(x)
  BY CountTypes DEF IInv, Drains, TypeOK, ChannelType
<1>2. ASSUME channel_post(p) PROVE Keeps
  <2>1. PICK q \in Port : q = Peer[p]
    BY PeerAssumption
  <2>2. PICK n \in Nat : n = IF q \in CH_STARTED THEN 1 ELSE 0
    OBVIOUS
  <2>3. /\ Call /\ Schedule(q, n) /\ CH_STARTED' = CH_STARTED /\ UNCHANGED bcastVars
        /\ CH_QUEUE' = [CH_QUEUE EXCEPT ![q] = CH_QUEUE[q] + 1]
    BY <1>2, <2>1, <2>2 DEF channel_post
  <2>4. \A x \in CH_STARTED' : CH_QUEUE'[x] <= ComingTo(x) + IF x = q THEN n ELSE 0
    BY <1>1, <2>2, <2>3
  <2> QED BY <2>3, <2>4, KeepsSchedule
<1>3. ASSUME start_channel_port(p) PROVE Keeps
  <2>1. PICK n \in Nat : n = CH_QUEUE[p]
    BY <1>1
  <2>2. /\ Call /\ Schedule(p, n) /\ CH_STARTED' = CH_STARTED \cup {p}
        /\ CH_QUEUE' = CH_QUEUE /\ UNCHANGED bcastVars
    BY <1>3, <2>1 DEF start_channel_port
  <2>3. \A x \in CH_STARTED' : CH_QUEUE'[x] <= ComingTo(x) + IF x = p THEN n ELSE 0
    BY <1>1, <2>1, <2>2
  <2> QED BY <2>2, <2>3, KeepsSchedule
<1>4. ASSUME ClosePort(p) \/ receive_message_on_port(p) PROVE Keeps
  <2>1. Call /\ UNCHANGED <<open_handles, io_rx, bcastVars>>
    BY <1>4 DEF ClosePort, receive_message_on_port, Quiet
  <2>2. \A x \in CH_STARTED' : x \in CH_STARTED /\ CH_QUEUE'[x] <= CH_QUEUE[x]
    BY <1>1, <1>4 DEF ClosePort, receive_message_on_port
  <2>3. \A x \in CH_STARTED' : CH_QUEUE[x] \in Nat /\ CH_QUEUE'[x] \in Int
    BY <1>1, <1>4 DEF ClosePort, receive_message_on_port
  <2>4. Drains'
    BY <1>1, <2>1, <2>2, <2>3, ChannelSame DEF Drains
  <2>5. /\ Shaped' /\ Closing' = Closing /\ Catching' = Catching /\ \A c : Releasing(c)' = Releasing(c)
    BY <2>1, Calling, TaskSame DEF IInv
  <2>6. Connections' /\ Processes' /\ FinitelyMany'
    BY <2>1, <2>5, ChannelSame, ConnectionsKept, ProcessesKept, CardinalsKept DEF IInv
  <2>7. Counted'
    BY <2>1, <2>5, ChannelSame, CardinalsKept DEF IInv, Counted
  <2> QED BY <2>4, <2>5, <2>6, <2>7 DEF Keeps
<1> QED BY <1>2, <1>3, <1>4

(* A call that refs or unrefs a BroadcastChannel. *)
LEMMA KeepsRefs ==
  ASSUME IInv, NEW b \in Broadcast, Call,
         \/ b \notin refed /\ refed' = refed \cup {b} /\ incr_handle
         \/ release_broadcast_ref(b),
         UNCHANGED <<io_rx, portVars, netVars, childVars>>
  PROVE  Keeps
<1>1. /\ Shaped' /\ Closing' = Closing /\ Catching' = Catching /\ \A c : Releasing(c)' = Releasing(c)
  BY Calling, TaskSame DEF IInv
<1>2. Connections' /\ Processes' /\ Drains'
  BY <1>1, ChannelSame, ConnectionsKept, ProcessesKept, DrainsKept DEF IInv
<1>3. UNCHANGED OpenEndpoints
  BY DEF OpenEndpoints
<1>4. IsFiniteSet(refed) /\ Cardinality(refed) \in Nat
  BY CardinalTypes DEF IInv, FinitelyMany
<1>5. ASSUME b \notin refed, refed' = refed \cup {b}, incr_handle PROVE Keeps
  <2>1. IsFiniteSet(refed') /\ Cardinality(refed') = Cardinality(refed) + 1
    BY <1>4, <1>5, FS_AddElement
  <2>2. FinitelyMany'
    BY <1>3, <2>1 DEF IInv, FinitelyMany
  <2>3. Counted'
    BY <1>1, <1>3, <1>5, <2>1, ChannelSame, CountTypes, CardinalTypes
    DEF incr_handle, IInv, Counted, TypeOK, NetType
  <2> QED BY <1>1, <1>2, <2>2, <2>3 DEF Keeps
<1>6. ASSUME b \in refed, refed' = refed \ {b}, decr_handle PROVE Keeps
  <2>1. /\ IsFiniteSet(refed') /\ Cardinality(refed') = Cardinality(refed) - 1
        /\ Cardinality(refed) > 0
    BY <1>4, <1>6, FS_RemoveElement, FS_EmptySet
  <2>2. FinitelyMany'
    BY <1>3, <2>1 DEF IInv, FinitelyMany
  <2>3. open_handles > 0
    BY <2>1, CountTypes, CardinalTypes DEF IInv, Counted, TypeOK, NetType
  <2>4. open_handles' = open_handles - 1
    BY <1>6, <2>3 DEF decr_handle
  <2>5. Counted'
    BY <1>1, <1>3, <2>1, <2>4, ChannelSame, CountTypes, CardinalTypes
    DEF IInv, Counted, TypeOK, NetType
  <2> QED BY <1>1, <1>2, <2>2, <2>5 DEF Keeps
<1>7. ASSUME UNCHANGED <<refed, open_handles>> PROVE Keeps
  BY <1>1, <1>7, ChannelSame, MovesNothing DEF Keeps
<1> QED BY <1>5, <1>6, <1>7 DEF release_broadcast_ref

LEMMA KeepsBroadcastCalls ==
  ASSUME IInv, NEW b \in Broadcast,
         \/ construct_broadcast_channel(b) \/ BroadcastPost(b)
         \/ BroadcastClose(b) \/ BroadcastRef(b) \/ BroadcastUnref(b),
         UNCHANGED <<netVars, childVars>>
  PROVE  Keeps
<1>1. ASSUME construct_broadcast_channel(b) PROVE Keeps
  <2>1. b \notin refed
    BY <1>1 DEF construct_broadcast_channel, IInv, Holders
  <2> QED BY <1>1, <2>1, KeepsRefs DEF construct_broadcast_channel, Quiet
<1>2. ASSUME BroadcastClose(b) \/ BroadcastRef(b) \/ BroadcastUnref(b) PROVE Keeps
  BY <1>2, KeepsRefs DEF BroadcastClose, BroadcastRef, BroadcastUnref, Quiet
<1>3. ASSUME BroadcastPost(b) PROVE Keeps
  <2> DEFINE q == Others(b)
             r == [i \in DOMAIN q |-> IoTask("broadcast", q[i], 0)]
  <2>1. r \in Seq(Task) /\ Len(r) = Len(q) /\ \A i \in DOMAIN r : r[i].kind = "broadcast"
    BY TargetsTypes DEF IInv, IoTask
  <2>2. /\ Call /\ io_rx' = io_rx \o r /\ open_handles' = open_handles + Len(q) /\ UNCHANGED chVars
    BY <1>3 DEF BroadcastPost
  <2> HIDE DEF r, q
  <2>3. \A p : ComingTo(p)' = ComingTo(p)
    <3>1. \A p : \A i \in DOMAIN r : ~(r[i].kind = "deliver" /\ r[i].of = p)
      BY <2>1
    <3> QED BY <2>1, <2>2, <3>1, Scheduling DEF IInv
  <2>4. Drains'
    BY <2>2, <2>3, DrainsKept DEF IInv
  <2> QED BY <2>1, <2>2, <2>4, KeepsScheduled
<1> QED BY <1>1, <1>2, <1>3

----------------------------------------------------------------------------
(* Channels: IoTasks. *)

(* A delivery is received: its handle is now that of the function run. *)
LEMMA KeepsDelivery ==
  ASSUME IInv, NEW k \in {"deliver", "broadcast"}, Received(k), Drains',
         task' = <<Step("delivered", Head(io_rx).of)>>,
         UNCHANGED <<open_handles, refed, netVars, childVars>>
  PROVE  Keeps
<1>0. PICK o : o = Head(io_rx).of
  OBVIOUS
<1>1. task = <<>> /\ o \in Port \cup Broadcast
  BY <1>0, Taking, TaskFields DEF IInv, Idle
<1>2. io_rx # <<>> /\ io_rx' = Tail(io_rx) /\ Head(io_rx).kind = k
  BY Taking DEF IInv
<1>3. /\ \A s : Awaited(s)' = Awaited(s)
      /\ \A c : Ending(c)' = Ending(c)
      /\ Coming' = Coming - 1
  BY <1>2, Removing, CountTypes DEF IInv
<1>4. Step("delivered", o) \in TaskStep /\ task' = <<Step("delivered", o)>>
  BY <1>0, <1>1, StepTypes
<1>5. Shaped' /\ Closing' = 0 /\ Catching' = 1 /\ \A c : Releasing(c)' = 0
  BY <1>4, PlanningOne, StepDoes
<1>6. Closing = 0 /\ Catching = 0 /\ \A c : Releasing(c) = 0
  BY <1>1, Finishing
<1>7. Connections' /\ Processes' /\ FinitelyMany'
  BY <1>3, <1>5, <1>6, ConnectionsKept, ProcessesKept, CardinalsKept DEF IInv
<1>8. Cardinality(OpenEndpoints)' = Cardinality(OpenEndpoints)
  BY CardinalsKept
<1>9. Counted'
  BY <1>3, <1>5, <1>6, <1>8, CountTypes, CardinalTypes DEF IInv, Counted, TypeOK, NetType
<1> QED BY <1>5, <1>7, <1>9 DEF Keeps

LEMMA KeepsChannelTasks ==
  ASSUME IInv, ChannelTasks, UNCHANGED <<netVars, childVars>>
  PROVE  Keeps
<1>1. ASSUME channel_deliver PROVE Keeps
  <2>1. PICK p : p = Head(io_rx).of
    OBVIOUS
  <2>2. /\ Received("deliver") /\ UNCHANGED <<open_handles, refed, CH_STARTED>>
        /\ task' = <<Step("delivered", Head(io_rx).of)>>
        /\ CH_QUEUE' = [CH_QUEUE EXCEPT ![p] = IF CH_QUEUE[p] > 0 THEN CH_QUEUE[p] - 1 ELSE 0]
    BY <1>1, <2>1 DEF channel_deliver
  <2>3. io_rx # <<>> /\ io_rx' = Tail(io_rx) /\ Head(io_rx).kind = "deliver" /\ io_rx' \in Seq(Task)
    BY <2>2, Taking DEF IInv
  <2>4. \A x : ComingTo(x)' = ComingTo(x) - IF x = p THEN 1 ELSE 0
    BY <2>1, <2>3, Removing DEF IInv
  <2>5. \A x : ComingTo(x) \in Nat /\ ComingTo(x)' \in Nat
    BY <2>3, CountTypes, PlacesFinite DEF ComingTo, IInv
  <2>6. /\ CH_QUEUE \in [Port -> Nat] /\ CH_STARTED \subseteq Port
        /\ \A x \in CH_STARTED : CH_QUEUE[x] <= ComingTo(x)
    BY DEF IInv, Drains, TypeOK, ChannelType
  <2>7. ASSUME NEW x \in CH_STARTED PROVE CH_QUEUE'[x] <= ComingTo(x)'
    BY <2>2, <2>4, <2>5, <2>6
  <2>8. Drains'
    BY <2>2, <2>7 DEF Drains
  <2> QED BY <2>2, <2>8, KeepsDelivery
<1>2. ASSUME broadcast_deliver PROVE Keeps
  <2>1. Received("broadcast") /\ UNCHANGED <<open_handles, chVars>>
    BY <1>2 DEF broadcast_deliver
  <2>2. io_rx # <<>> /\ io_rx' = Tail(io_rx) /\ Head(io_rx).kind = "broadcast"
    BY <2>1, Taking DEF IInv
  <2>3. \A x : ComingTo(x)' = ComingTo(x)
    BY <2>2, Removing, CountTypes DEF IInv
  <2>4. Drains'
    BY <2>1, <2>3, DrainsKept DEF IInv
  <2> QED BY <1>2, <2>1, <2>4, KeepsDelivery DEF broadcast_deliver
<1>3. ASSUME Delivered PROVE Keeps
  <2>1. Reached("delivered") /\ decr_handle /\ UNCHANGED <<io_rx, chVars>>
    BY <1>3 DEF Delivered
  <2>2. /\ Shaped' /\ Closing' = Closing /\ Catching = 1 /\ Catching' = 0
        /\ \A c : Releasing(c)' = Releasing(c)
    BY <2>1, Stepping, CountTypes DEF IInv
  <2>3. Connections' /\ Processes' /\ Drains' /\ FinitelyMany'
    BY <2>1, <2>2, ChannelSame, ConnectionsKept, ProcessesKept, DrainsKept, CardinalsKept DEF IInv
  <2>4. open_handles > 0
    BY <2>2, CountTypes, CardinalTypes DEF IInv, Counted, TypeOK, NetType
  <2>5. open_handles' = open_handles - 1
    BY <2>1, <2>4 DEF decr_handle
  <2>6. Cardinality(OpenEndpoints)' = Cardinality(OpenEndpoints)
    BY CardinalsKept
  <2>7. Counted'
    BY <2>1, <2>2, <2>5, <2>6, ChannelSame, CountTypes, CardinalTypes
    DEF IInv, Counted, TypeOK, NetType
  <2> QED BY <2>2, <2>3, <2>7 DEF Keeps
<1>4. ASSUME CaughtThrow PROVE Keeps
  BY <1>4, ChannelSame, TaskSame, MovesNothing DEF CaughtThrow, Keeps, IInv
<1> QED BY <1>1, <1>2, <1>3, <1>4 DEF ChannelTasks

LEMMA KeepsChannels ==
  ASSUME IInv, ChannelCalls \/ ChannelTasks, UNCHANGED <<netVars, childVars>>
  PROVE  Keeps
<1>1. CASE ChannelCalls
  BY <1>1, KeepsPortCalls, KeepsBroadcastCalls DEF ChannelCalls
<1>2. CASE ChannelTasks
  BY <1>2, KeepsChannelTasks
<1> QED BY <1>1, <1>2

----------------------------------------------------------------------------
(* Only channels that were constructed hold the loop. *)

(* The others stay registered. *)
LEMMA OthersKept ==
  ASSUME TypeOK, NEW b, NEW x, x # b, Registered(x)
  PROVE  \E j \in DOMAIN Others(b) : Others(b)[j] = x
<1>1. CASE ~Registered(b)
  BY <1>1 DEF Others, Registered
<1>2. CASE Registered(b)
  <2> DEFINE i == CHOOSE i \in DOMAIN BCAST : BCAST[i] = b
             front == SubSeq(BCAST, 1, i - 1)
             back == SubSeq(BCAST, i + 1, Len(BCAST))
  <2>1. BCAST \in Seq(Broadcast) /\ Len(BCAST) \in Nat /\ DOMAIN BCAST = 1 .. Len(BCAST)
    BY LenProperties DEF TypeOK, ChannelType
  <2>2. i \in 1 .. Len(BCAST) /\ BCAST[i] = b
    BY <1>2, <2>1 DEF Registered
  <2> HIDE DEF i
  <2>3. /\ front \in Seq(Broadcast) /\ Len(front) = i - 1
        /\ \A j \in 1 .. i - 1 : front[j] = BCAST[j]
    BY <2>1, <2>2, SubSeqProperties
  <2>4. /\ back \in Seq(Broadcast) /\ Len(back) = Len(BCAST) - i
        /\ \A j \in 1 .. Len(BCAST) - i : back[j] = BCAST[i + j]
    <3>1. /\ i + 1 \in Int /\ Len(BCAST) \in Int
          /\ \A j \in i + 1 .. Len(BCAST) : BCAST[j] \in Broadcast
      BY <2>1, <2>2, ElementOfSeq
    <3>2. /\ back \in Seq(Broadcast)
          /\ Len(back) = IF i + 1 <= Len(BCAST) THEN Len(BCAST) - (i + 1) + 1 ELSE 0
          /\ \A j \in 1 .. Len(BCAST) - (i + 1) + 1 : back[j] = BCAST[(i + 1) + j - 1]
      BY <3>1, SubSeqProperties
    <3> HIDE DEF back
    <3>3. PICK n \in Nat : n = Len(BCAST) /\ i \in 1 .. n
      BY <2>1, <2>2
    <3>4. /\ n - (i + 1) + 1 = n - i
          /\ (IF i + 1 <= n THEN n - (i + 1) + 1 ELSE 0) = n - i
          /\ \A j \in 1 .. n - i : (i + 1) + j - 1 = i + j
      BY <3>3, SMT
    <3> QED BY <3>2, <3>3, <3>4
  <2>5. Others(b) = front \o back
    BY <1>2 DEF Others, i
  <2> HIDE DEF front, back
  <2>6. /\ DOMAIN Others(b) = 1 .. Len(BCAST) - 1
        /\ \A j \in 1 .. Len(BCAST) - 1 :
             Others(b)[j] = IF j <= i - 1 THEN front[j] ELSE back[j - (i - 1)]
    <3>1. /\ front \o back \in Seq(Broadcast)
          /\ Len(front \o back) = Len(front) + Len(back)
          /\ \A j \in 1 .. Len(front) + Len(back) :
               (front \o back)[j] = IF j <= Len(front) THEN front[j] ELSE back[j - Len(front)]
      BY <2>3, <2>4, ConcatProperties
    <3>2. Len(front) + Len(back) = Len(BCAST) - 1
      BY <2>1, <2>2, <2>3, <2>4
    <3>3. DOMAIN (front \o back) = 1 .. Len(front \o back)
      BY <3>1, LenProperties
    <3> QED BY <2>3, <2>5, <3>1, <3>2, <3>3
  <2>7. PICK j \in 1 .. Len(BCAST) : BCAST[j] = x /\ j # i
    BY <2>1, <2>2 DEF Registered
  <2>8. CASE j < i
    BY <2>1, <2>2, <2>3, <2>6, <2>7, <2>8
  <2>9. CASE j > i
    <3>1. j - 1 \in 1 .. Len(BCAST) - 1 /\ ~(j - 1 <= i - 1) /\ j - 1 - (i - 1) = j - i
          /\ j - i \in 1 .. Len(BCAST) - i /\ i + (j - i) = j
      BY <2>1, <2>2, <2>7, <2>9
    <3>2. Others(b)[j - 1] = BCAST[j]
      BY <2>4, <2>6, <3>1
    <3> QED BY <2>6, <2>7, <3>1, <3>2
  <2> QED BY <2>1, <2>2, <2>7, <2>8, <2>9
<1> QED BY <1>1, <1>2

LEMMA HoldersStep == IInv /\ [Next]_vars => Holders'
<1> SUFFICES ASSUME IInv, [Next]_vars PROVE Holders'
  OBVIOUS
<1>1. CASE UNCHANGED chVars
  BY <1>1 DEF IInv, Holders, Made, Registered
<1>2. ASSUME NEW b \in Broadcast, construct_broadcast_channel(b) PROVE Holders'
  <2>1. /\ DOMAIN BCAST = 1 .. Len(BCAST) /\ DOMAIN BCAST' = 1 .. Len(BCAST) + 1 /\ Len(BCAST) \in Nat
        /\ BCAST'[Len(BCAST) + 1] = b /\ \A i \in 1 .. Len(BCAST) : BCAST'[i] = BCAST[i]
    BY <1>2, AppendProperties, LenProperties DEF construct_broadcast_channel, IInv, TypeOK, ChannelType
  <2>2. \A x : Registered(x) => Registered(x)'
    BY <2>1 DEF Registered
  <2>3. Registered(b)'
    BY <2>1 DEF Registered
  <2> QED BY <1>2, <2>2, <2>3 DEF construct_broadcast_channel, IInv, Holders, Made
<1>3. ASSUME NEW b \in Broadcast, BroadcastClose(b) PROVE Holders'
  <2>1. BCAST' = Others(b) /\ closed' = closed \cup {b} /\ refed' \subseteq refed
    BY <1>3 DEF BroadcastClose, release_broadcast_ref
  <2>2. \A x : x # b /\ Registered(x) => Registered(x)'
    BY <2>1, OthersKept DEF Registered, IInv
  <2> QED BY <2>1, <2>2 DEF IInv, Holders, Made
<1>4. ASSUME NEW b \in Broadcast, BroadcastRef(b) \/ BroadcastUnref(b) PROVE Holders'
  <2>1. Made(b) /\ UNCHANGED <<BCAST, closed>> /\ refed' \subseteq refed \cup {b}
    BY <1>4 DEF BroadcastRef, BroadcastUnref, release_broadcast_ref
  <2> QED BY <2>1 DEF IInv, Holders, Made, Registered
<1>5. CASE UNCHANGED bcastVars
  BY <1>5 DEF IInv, Holders, Made, Registered
<1>6. CASE ChannelCalls
  <2>1. ASSUME NEW p \in Port, channel_post(p) \/ start_channel_port(p) \/ ClosePort(p)
                               \/ receive_message_on_port(p)
        PROVE  UNCHANGED bcastVars
    BY <2>1 DEF channel_post, start_channel_port, ClosePort, receive_message_on_port
  <2>2. ASSUME NEW b \in Broadcast, BroadcastPost(b) PROVE UNCHANGED bcastVars
    BY <2>2 DEF BroadcastPost
  <2> QED BY <1>2, <1>3, <1>4, <1>5, <1>6, <2>1, <2>2 DEF ChannelCalls
<1>7. CASE ChannelTasks
  BY <1>5, <1>7 DEF ChannelTasks, channel_deliver, Delivered, CaughtThrow, broadcast_deliver
<1>8. CASE UNCHANGED vars
  BY <1>1, <1>8 DEF vars
<1> HIDE DEF chVars
<1> QED BY <1>1, <1>6, <1>7, <1>8 DEF Next

----------------------------------------------------------------------------
(* No JavaScript runs between the look at a record and the emit. *)

LEMMA ArrivalsKept ==
  ASSUME IInv, UNCHANGED <<task, running, records>>
  PROVE  Arrivals'
  BY DEF IInv, Arrivals

LEMMA ArrivalsRunning ==
  ASSUME IInv, running, UNCHANGED task
  PROVE  Arrivals'
  BY DEF IInv, Arrivals

LEMMA ArrivalsReached ==
  ASSUME IInv, NEW w, Reached(w)
  PROVE  Arrivals'
<1>1. /\ task # <<>> /\ task \in Seq(TaskStep) /\ task' = Tail(task)
  BY Reaching DEF IInv, TypeOK, HostType
<1>2. /\ DOMAIN task = 1 .. Len(task) /\ Len(task) \in Nat \ {0}
      /\ DOMAIN task' = 1 .. Len(task) - 1
      /\ \A i \in 1 .. Len(task) - 1 : task'[i] = task[i + 1]
  BY <1>1, HeadTailProperties, LenProperties, EmptySeq
<1> QED BY <1>2 DEF IInv, Arrivals

(* The function run has a step that reports no arrival. *)
LEMMA ArrivalsOne ==
  ASSUME NEW a \in TaskStep, task' = <<a>>, a.event \notin {"connection", "message"}
  PROVE  Arrivals'
<1>1. DOMAIN task' = {1} /\ task'[1] = a
  BY SeqOne
<1> QED BY <1>1 DEF Arrivals

LEMMA ArrivalsTwo ==
  ASSUME NEW a \in TaskStep, NEW b \in TaskStep, task' = <<a, b>>,
         a.event \notin {"connection", "message"}, b.event \notin {"connection", "message"}
  PROVE  Arrivals'
<1>1. DOMAIN task' = {1, 2} /\ task'[1] = a /\ task'[2] = b
  BY SeqTwo
<1> QED BY <1>1 DEF Arrivals

LEMMA ArrivalsThree ==
  ASSUME NEW a \in TaskStep, NEW b \in TaskStep, NEW c \in TaskStep, task' = <<a, b, c>>,
         a.event \notin {"connection", "message"}, b.event \notin {"connection", "message"},
         c.event \notin {"connection", "message"}
  PROVE  Arrivals'
<1>1. DOMAIN task' = {1, 2, 3} /\ task'[1] = a /\ task'[2] = b /\ task'[3] = c
  BY SeqThree
<1> QED BY <1>1 DEF Arrivals

(* An arrival is received, and its record found. *)
LEMMA ArrivalsReceived ==
  ASSUME IInv, NEW k \in {"connection", "message"}, Received(k), UNCHANGED <<records, running>>,
         \/ UNCHANGED task
         \/ records[Head(io_rx).of] = Head(io_rx).id /\ task' = <<Emit(Head(io_rx).of, k)>>
  PROVE  Arrivals'
<1>1. CASE UNCHANGED task
  BY <1>1, ArrivalsKept
<1>2. CASE records[Head(io_rx).of] = Head(io_rx).id /\ task' = <<Emit(Head(io_rx).of, k)>>
  <2>1. PICK o : o = Head(io_rx).of
    OBVIOUS
  <2>2. o \in Endpoint /\ records[o] # 0 /\ ~running
    BY <1>2, <2>1, Taking, TaskFields DEF IInv, Idle
  <2>3. Emit(o, k) \in TaskStep
    BY <2>2, StepTypes DEF Event
  <2>4. DOMAIN task' = {1} /\ Len(task') = 1 /\ task'[1].of = o
    BY <1>2, <2>1, <2>3, SeqOne, StepDoes
  <2> QED BY <2>2, <2>4 DEF Arrivals
<1> QED BY <1>1, <1>2

LEMMA ArrivalsSockets == IInv /\ SocketTasks => Arrivals'
<1> SUFFICES ASSUME IInv, SocketTasks PROVE Arrivals'
  OBVIOUS
<1>1. \A o \in Socket \cup Endpoint, e \in Event : Emit(o, e) \in TaskStep
  BY StepTypes
<1>2. ASSUME RunListening PROVE Arrivals'
  <2>1. Head(io_rx).of \in Endpoint
    BY <1>2, Taking, TaskFields DEF RunListening, IInv
  <2>2. Emit(Head(io_rx).of, "listening") \in TaskStep
    BY <1>1, <2>1 DEF Event
  <2> QED BY <1>2, <2>2, StepDoes, ArrivalsOne DEF RunListening
<1>3. ASSUME RunSent PROVE Arrivals'
  <2>1. task = <<>> /\ UNCHANGED task
    BY <1>3, Taking DEF RunSent, IInv, Idle
  <2> QED BY <2>1 DEF Arrivals
<1>4. ASSUME on_connection \/ on_message PROVE Arrivals'
  BY <1>4, ArrivalsReceived DEF on_connection, on_message
<1>5. ASSUME on_connect PROVE Arrivals'
  <2>1. Head(io_rx).of \in Socket /\ UNCHANGED <<records, running>>
    BY <1>5, Taking, TaskFields DEF on_connect, IInv
  <2>2. Emit(Head(io_rx).of, "connect") \in TaskStep
    BY <1>1, <2>1 DEF Event
  <2>3. UNCHANGED task \/ task' = <<Emit(Head(io_rx).of, "connect")>>
    BY <1>5 DEF on_connect
  <2> QED BY <2>1, <2>2, <2>3, StepDoes, ArrivalsOne, ArrivalsKept
<1>6. ASSUME on_connect_error PROVE Arrivals'
  <2>1. Head(io_rx).of \in Socket
    BY <1>6, HeadTailProperties, TaskFields DEF on_connect_error, IInv, TypeOK, HostType
  <2>2. Emit(Head(io_rx).of, "error") \in TaskStep
    BY <1>1, <2>1 DEF Event
  <2> QED BY <1>6, <2>2, StepDoes, ArrivalsOne DEF on_connect_error
<1>7. ASSUME on_socket_data PROVE Arrivals'
  <2>1. Head(io_rx).of \in Socket /\ UNCHANGED <<records, running>>
    BY <1>7, Taking, TaskFields DEF on_socket_data, IInv
  <2>2. Emit(Head(io_rx).of, "data") \in TaskStep
    BY <1>1, <2>1 DEF Event
  <2>3. UNCHANGED task \/ task' = <<Emit(Head(io_rx).of, "data")>>
    BY <1>7 DEF on_socket_data
  <2> QED BY <2>1, <2>2, <2>3, StepDoes, ArrivalsOne, ArrivalsKept
<1>8. ASSUME on_socket_end \/ RunSocketError PROVE Arrivals'
  <2>1. Head(io_rx).of \in Socket
    BY <1>8, Taking, TaskFields DEF on_socket_end, RunSocketError, IInv
  <2>2. Emit(Head(io_rx).of, "end") \in TaskStep /\ Step("close", Head(io_rx).of) \in TaskStep
    BY <1>1, <2>1, StepTypes DEF Event
  <2>3. \/ task' = <<Step("close", Head(io_rx).of)>>
        \/ task' = <<Emit(Head(io_rx).of, "end"), Step("close", Head(io_rx).of)>>
    BY <1>8 DEF on_socket_end, RunSocketError
  <2> QED BY <2>2, <2>3, StepDoes, ArrivalsOne, ArrivalsTwo
<1>9. ASSUME on_socket_close PROVE Arrivals'
  <2>1. Head(task).of \in Socket
    BY <1>9, HeadTailProperties, StepFields DEF on_socket_close, IInv, TypeOK, HostType
  <2>2. Emit(Head(task).of, "close") \in TaskStep /\ Step("closed", Head(task).of) \in TaskStep
    BY <1>1, <2>1, StepTypes DEF Event
  <2>3. task' = <<>> \/ task' = <<Emit(Head(task).of, "close"), Step("closed", Head(task).of)>>
    BY <1>9 DEF on_socket_close
  <2>4. CASE task' = <<>>
    BY <2>4 DEF Arrivals
  <2>5. CASE task' = <<Emit(Head(task).of, "close"), Step("closed", Head(task).of)>>
    BY <2>2, <2>5, StepDoes, ArrivalsTwo
  <2> QED BY <2>3, <2>4, <2>5
<1>10. ASSUME Closed PROVE Arrivals'
  BY <1>10, ArrivalsReached DEF Closed
<1> QED BY <1>2, <1>3, <1>4, <1>5, <1>6, <1>7, <1>8, <1>9, <1>10 DEF SocketTasks

LEMMA ArrivalsChildren == IInv /\ ChildTasks => Arrivals'
<1> SUFFICES ASSUME IInv, ChildTasks PROVE Arrivals'
  OBVIOUS
<1>1. ASSUME on_child_exit \/ dispatch_exit \/ dispatch_online PROVE Arrivals'
  <2>1. Head(io_rx).of \in Live
    BY <1>1, Taking, TaskFields DEF on_child_exit, dispatch_exit, dispatch_online, IInv
  <2>2. PICK c \in Live : c = Head(io_rx).of
    BY <2>1
  <2>3. /\ Emit(c, "exit") \in TaskStep /\ Emit(c, "close") \in TaskStep
        /\ Emit(c, "clusterExit") \in TaskStep /\ Emit(c, "online") \in TaskStep
        /\ Emit(c, "clusterOnline") \in TaskStep /\ Step("release", c) \in TaskStep
    BY StepTypes DEF Event
  <2>4. \/ task' = <<>>
        \/ task' = <<Emit(c, "exit"), Emit(c, "close"), Step("release", c)>>
        \/ task' = <<Emit(c, "exit"), Emit(c, "clusterExit"), Step("release", c)>>
        \/ task' = <<Emit(c, "online"), Emit(c, "clusterOnline")>>
    BY <1>1, <2>2 DEF on_child_exit, dispatch_exit, dispatch_online
  <2>5. CASE task' = <<>>
    BY <2>5 DEF Arrivals
  <2>6. /\ Emit(c, "exit").event = "exit" /\ Emit(c, "close").event = "close"
        /\ Emit(c, "clusterExit").event = "clusterExit" /\ Emit(c, "online").event = "online"
        /\ Emit(c, "clusterOnline").event = "clusterOnline" /\ Step("release", c).event = "none"
    BY StepDoes
  <2>7. PICK exit, close, cexit, online, conline, release \in TaskStep :
          /\ exit = Emit(c, "exit") /\ close = Emit(c, "close") /\ cexit = Emit(c, "clusterExit")
          /\ online = Emit(c, "online") /\ conline = Emit(c, "clusterOnline")
          /\ release = Step("release", c)
    BY <2>3
  <2>8. CASE task' = <<exit, close, release>>
    BY <2>6, <2>7, <2>8, ArrivalsThree
  <2>9. CASE task' = <<exit, cexit, release>>
    BY <2>6, <2>7, <2>9, ArrivalsThree
  <2>10. CASE task' = <<online, conline>>
    BY <2>6, <2>7, <2>10, ArrivalsTwo
  <2> QED BY <2>4, <2>5, <2>7, <2>8, <2>9, <2>10
<1>2. ASSUME Release PROVE Arrivals'
  BY <1>2, ArrivalsReached DEF Release
<1>3. ASSUME child_events PROVE Arrivals'
  <2>1. PICK s : task' \in Events(s)
    BY <1>3 DEF child_events
  <2>2. PICK q : q = task' /\ q \in Events(s)
    BY <2>1
  <2>3. \A i \in DOMAIN q : q[i].event \notin {"connection", "message"}
    BY <2>2, StepDoes DEF Events
  <2> QED BY <2>2, <2>3 DEF Arrivals
<1> QED BY <1>1, <1>2, <1>3 DEF ChildTasks

LEMMA ArrivalsStep == IInv /\ [Next]_vars => Arrivals'
<1> SUFFICES ASSUME IInv, [Next]_vars PROVE Arrivals'
  OBVIOUS
<1>1. ASSUME Call PROVE Arrivals'
  BY <1>1, Calling, ArrivalsRunning DEF IInv
<1>2. CASE UNCHANGED vars
  BY <1>2, ArrivalsKept DEF vars
<1>3. CASE (Return \/ RunWake \/ RunEmit \/ Leave) /\ UNCHANGED <<netVars, childVars, chVars>>
  BY <1>3, ArrivalsRunning, ArrivalsKept, ArrivalsReached DEF Return, RunWake, RunEmit, Leave
<1>4. CASE Throw
  BY <1>4 DEF Throw, Arrivals
<1>5. CASE SocketCalls
  BY <1>1, <1>5 DEF SocketCalls, socket_connect, server_listen, socket_bind, socket_send, CloseEndpoint
<1>6. CASE SocketThreads
  BY <1>6, ArrivalsKept DEF SocketThreads, Arrive, StopThread, Connect, ReadData, ReadEnd
<1>7. CASE ChildCalls
  BY <1>1, <1>7 DEF ChildCalls, fork, cluster_fork, spawn
<1>8. CASE (\E c \in Live : Reap(c)) /\ UNCHANGED netVars
  BY <1>8, ArrivalsKept DEF Reap
<1>9. CASE ChannelCalls
  BY <1>1, <1>9 DEF ChannelCalls, channel_post, start_channel_port, ClosePort, receive_message_on_port,
     construct_broadcast_channel, BroadcastPost, BroadcastClose, BroadcastRef, BroadcastUnref
<1>10. CASE ChannelTasks
  <2>1. ASSUME channel_deliver \/ broadcast_deliver PROVE Arrivals'
    <3>1. Head(io_rx).of \in Port \cup Broadcast
      BY <2>1, Taking, TaskFields DEF channel_deliver, broadcast_deliver, IInv
    <3>2. Step("delivered", Head(io_rx).of) \in TaskStep
      BY <3>1, StepTypes
    <3> QED BY <2>1, <3>2, StepDoes, ArrivalsOne DEF channel_deliver, broadcast_deliver
  <2>2. ASSUME Delivered PROVE Arrivals'
    BY <2>2, ArrivalsReached DEF Delivered
  <2>3. ASSUME CaughtThrow PROVE Arrivals'
    BY <2>3, ArrivalsRunning DEF CaughtThrow
  <2> QED BY <1>10, <2>1, <2>2, <2>3 DEF ChannelTasks
<1> HIDE DEF netVars, childVars, chVars
<1> QED BY <1>2, <1>3, <1>4, <1>5, <1>6, <1>7, <1>8, <1>9, <1>10, ArrivalsSockets, ArrivalsChildren
     DEF Next

----------------------------------------------------------------------------
(* The theorems. *)

LEMMA InvInit == Init => IInv
<1> SUFFICES ASSUME Init PROVE IInv
  OBVIOUS
<1>1. TypeOK
  BY TypeInit
<1>2. io_rx = <<>> /\ task = <<>> /\ open_handles = 0
  BY DEF Init, HostInit
<1>3. connecting = {} /\ sockets = {} /\ lost = 0 /\ \A e \in Endpoint : records[e] = 0
  BY DEF Init, SocketsInit
<1>4. CHILDREN = {} /\ refed = {} /\ CH_STARTED = {} /\ \A c \in Live : process[c] = "none"
  BY DEF Init, ChildrenInit, ChannelsInit
<1>5. \A A : Num(<<>>, A) = 0
  BY NumNone
<1>6. Shaped /\ Arrivals /\ Holders /\ Drains
  BY <1>2, <1>4 DEF Shaped, Arrivals, Holders, Drains
<1>7. Connections /\ Processes
  BY <1>2, <1>3, <1>4, <1>5 DEF Connections, Processes, Awaited, Ending, Releasing
<1>8. OpenEndpoints = {}
  BY <1>3 DEF OpenEndpoints
<1>9. IsFiniteSet({}) /\ Cardinality({}) = 0
  BY FS_EmptySet
<1>10. FinitelyMany
  BY <1>3, <1>4, <1>8, <1>9 DEF FinitelyMany
<1>11. Counted
  BY <1>2, <1>3, <1>4, <1>5, <1>8, <1>9 DEF Counted, Closing, Coming, Catching, Caught
<1> QED BY <1>1, <1>6, <1>7, <1>10, <1>11 DEF IInv

LEMMA InvStep == IInv /\ [Next]_vars => IInv'
<1> SUFFICES ASSUME IInv, [Next]_vars PROVE IInv'
  OBVIOUS
<1> HIDE DEF netVars, childVars, chVars
<1>1. TypeOK' /\ Arrivals' /\ Holders'
  BY TypeStep, ArrivalsStep, HoldersStep DEF IInv
<1>2. Keeps
  <2>1. CASE UNCHANGED vars
    BY <2>1, ChannelSame, TaskSame, MovesNothing DEF Keeps, IInv, vars, netVars, childVars, chVars
  <2>2. CASE (Return \/ RunWake \/ RunEmit \/ Leave) /\ UNCHANGED <<netVars, childVars, chVars>>
    BY <2>2, KeepsHost
  <2>3. CASE Throw /\ LoseHandle /\ UNCHANGED <<childVars, chVars>>
    BY <2>3, KeepsThrow
  <2>4. CASE (SocketCalls \/ SocketThreads \/ SocketTasks) /\ UNCHANGED <<childVars, chVars>>
    BY <2>4, KeepsSocketCalls, KeepsSocketThreads, KeepsSocketTasks
  <2>5. CASE (ChildCalls \/ (\E c \in Live : Reap(c)) \/ ChildTasks) /\ UNCHANGED <<netVars, chVars>>
    BY <2>5, KeepsChildren
  <2>6. CASE (ChannelCalls \/ ChannelTasks) /\ UNCHANGED <<netVars, childVars>>
    BY <2>6, KeepsChannels
  <2> QED BY <2>1, <2>2, <2>3, <2>4, <2>5, <2>6 DEF Next
<1> QED BY <1>1, <1>2 DEF Keeps, IInv

LEMMA Invariant == Spec => []IInv
  BY InvInit, InvStep, PTL DEF Spec

(* The handle count is the number of connections, records, deliveries and  *)
(* referenced channels, however calls, threads and errors thrown interleave. *)
THEOREM HandlesCountedCorrect == Spec => []HandlesCounted
<1>1. IInv => HandlesCounted
  <2> SUFFICES ASSUME IInv PROVE HandlesCounted
    OBVIOUS
  <2>1. /\ \A i \in DOMAIN io_rx : io_rx[i] \in Task
        /\ \A i \in DOMAIN task : task[i] \in TaskStep
    BY LenProperties, ElementOfSeq DEF IInv, TypeOK, HostType
  <2>2. {i \in DOMAIN io_rx : io_rx[i].kind \in {"deliver", "broadcast"}} = Places(io_rx, Deliveries)
    BY <2>1 DEF Places, Deliveries
  <2>3. {i \in DOMAIN task : task[i].do = "closed"} = Places(task, Closings)
    BY <2>1 DEF Places, Closings
  <2>4. ChannelHandles = Coming + Catching + Cardinality(refed)
    BY <2>2 DEF ChannelHandles, Coming, Catching, Num
  <2>5. SocketHandles =
          Cardinality(connecting) + Cardinality(sockets) + lost + Cardinality(OpenEndpoints) + Closing
    BY <2>3 DEF SocketHandles, OpenEndpoints, Closing, Num
  <2>6. open_handles =
          Cardinality(connecting) + Cardinality(sockets) + lost + Cardinality(OpenEndpoints) + Closing
            + Cardinality(CHILDREN) + Coming + Catching + Cardinality(refed)
    BY DEF IInv, Counted
  <2> QED BY <2>4, <2>5, <2>6, CountTypes, CardinalTypes
       DEF HandlesCounted, ChildHandles, IInv, TypeOK, NetType
<1> QED BY <1>1, Invariant, PTL

(* Every message that waits at a started port has a delivery coming. *)
THEOREM StartedPortsDrainCorrect == Spec => []StartedPortsDrain
<1>1. IInv => StartedPortsDrain
  <2> SUFFICES ASSUME IInv PROVE StartedPortsDrain
    OBVIOUS
  <2>1. \A i \in DOMAIN io_rx : io_rx[i] \in Task
    BY LenProperties, ElementOfSeq DEF IInv, TypeOK, HostType
  <2>2. ASSUME NEW p PROVE Count("deliver", p) = ComingTo(p)
    <3>1. {i \in DOMAIN io_rx : io_rx[i].kind = "deliver" /\ io_rx[i].of = p} = Places(io_rx, DeliveriesTo(p))
      BY <2>1 DEF Places, DeliveriesTo
    <3> QED BY <3>1 DEF Count, ComingTo, Num
  <2> QED BY <2>2 DEF StartedPortsDrain, IInv, Drains
<1> QED BY <1>1, Invariant, PTL

(* No connection or message is heard of a server or UDP socket without a   *)
(* record, though its thread may have posted one before it was closed.     *)
THEOREM ClosedMeansSilentCorrect == Spec => ClosedMeansSilent
<1> DEFINE Silent == \A e \in Endpoint : heard'[e] \in {"connection", "message"} /\ heard'[e] # heard[e]
                                           => records[e] # 0
<1>1. IInv /\ [Next]_vars => [Silent]_vars
  <2> SUFFICES ASSUME IInv, Next PROVE Silent
    OBVIOUS
  <2>1. ASSUME UNCHANGED heard PROVE Silent
    BY <2>1
  <2>2. heard \in [Emitter -> Event \cup {"nothing"}] /\ Endpoint \subseteq Emitter
    BY EndpointAssumption DEF IInv, TypeOK, HostType
  <2>3. ASSUME NEW o, NEW v, v \notin {"connection", "message"}, heard' = [heard EXCEPT ![o] = v]
        PROVE  Silent
    BY <2>2, <2>3
  <2>4. ASSUME RunEmit PROVE Silent
    <3>1. Reached("emit") /\ heard' = [heard EXCEPT ![Head(task).of] = Head(task).event]
      BY <2>4 DEF RunEmit
    <3>2. 1 \in DOMAIN task /\ Head(task) = task[1]
      BY <3>1, Reaching DEF IInv
    <3>3. Head(task).event \in {"connection", "message"} => records[Head(task).of] # 0
      BY <3>2 DEF IInv, Arrivals
    <3> QED BY <2>2, <3>1, <3>3
  <2> HIDE DEF Silent
  <2>5. CASE Return \/ RunWake \/ Leave \/ Throw
    BY <2>1, <2>5 DEF Return, RunWake, Leave, Throw
  <2>6. CASE SocketCalls
    BY <2>1, <2>3, <2>6
    DEF SocketCalls, socket_connect, server_listen, socket_bind, socket_send, CloseEndpoint, Quiet
  <2>7. CASE SocketThreads
    BY <2>1, <2>7 DEF SocketThreads, Arrive, StopThread, Connect, ReadData, ReadEnd
  <2>8. CASE SocketTasks
    BY <2>1, <2>8 DEF SocketTasks, RunListening, RunSent, on_connection, on_message, on_connect,
       on_connect_error, on_socket_data, on_socket_end, RunSocketError, on_socket_close, Closed
  <2>9. CASE ChildCalls \/ (\E c \in Live : Reap(c)) \/ ChildTasks
    BY <2>1, <2>3, <2>9 DEF ChildCalls, fork, cluster_fork, spawn, Quiet, Reap, ChildTasks, on_child_exit,
       dispatch_exit, dispatch_online, Release, child_events
  <2>10. CASE ChannelCalls
    BY <2>1, <2>10 DEF ChannelCalls, channel_post, start_channel_port, ClosePort, receive_message_on_port,
       construct_broadcast_channel, BroadcastPost, BroadcastClose, BroadcastRef, BroadcastUnref,
       Quiet, Schedule
  <2>11. CASE ChannelTasks
    BY <2>1, <2>11 DEF ChannelTasks, channel_deliver, Delivered, CaughtThrow, broadcast_deliver
  <2> HIDE DEF netVars, childVars, chVars
  <2> QED BY <2>4, <2>5, <2>6, <2>7, <2>8, <2>9, <2>10, <2>11 DEF Next
<1> QED BY <1>1, Invariant, PTL DEF Spec, ClosedMeansSilent
----------------------------------------------------------------------------
(* The order of events.  What was heard last of an emitter, what the       *)
(* function being run has yet to emit, and what is in the channel fit one  *)
(* another.                                                                *)

Fits(o, x, y) == x = y \/ <<x, y>> \in Follows[o]
ArrivalEvent == {"listening", "connection", "message"}
SocketEvent == {"connect", "data", "end"}
WorkerEvent == {"online", "clusterOnline", "exit", "clusterExit"}
ReaderKind == {"data", "end", "broken"}
ProcessKind == {"online", "childExit", "workerExit"}

Plans(o, event) == \E k \in DOMAIN task : task[k].do = "emit" /\ task[k].of = o /\ task[k].event = event
Finishes(s) == \E k \in DOMAIN task :
                 task[k].of = s /\ (task[k].do = "close" \/ (task[k].do = "emit" /\ task[k].event = "end"))
Mentions(c) == \E k \in DOMAIN task : task[k].do \in {"emit", "release"} /\ task[k].of = c
Comes(w) == \E i \in DOMAIN io_rx : io_rx[i].kind = "online" /\ io_rx[i].of = w
Drops(c) == \E k \in DOMAIN task : task[k].do = "release" /\ task[k].of = c

\* All that is yet to be emitted is of one emitter, and in order.
InLine(i) ==
  /\ i = 1 => Fits(task[i].of, heard[task[i].of], task[i].event)
  /\ i > 1 => /\ task[i - 1].do = "emit" /\ task[i].of = task[1].of
              /\ Fits(task[i].of, task[i - 1].event, task[i].event)

\* What is emitted to JavaScript that runs already, of whom, and what is done after it.
InPlace(i) ==
  LET o == task[i].of  event == task[i].event IN
  /\ running \/ o \in Worker => heard[o] # "nothing"
  /\ o \in Socket \cup Endpoint \/ event = "online" => i = 1 /\ ~running
  /\ o \in Endpoint => event \in ArrivalEvent
  /\ o \in Socket => /\ o \in used /\ event \in SocketEvent \cup {"error", "close"}
                     /\ o \in sockets <=> event \in SocketEvent
  /\ o \in Worker => event \in WorkerEvent
  /\ o \in Child \/ (o \in Worker /\ event \in {"exit", "clusterExit"}) => Drops(o)

Planned == \A i \in DOMAIN task : task[i].do = "emit" => InLine(i) /\ InPlace(i)

\* A reader's socket has a record and has not ended; what the reader posts is of it.
Readers ==
  /\ \A s \in reading : s \in sockets /\ heard[s] # "end" /\ ~Finishes(s)
  /\ \A i \in DOMAIN io_rx : io_rx[i].kind \in ReaderKind =>
       /\ io_rx[i].of \in sockets /\ heard[io_rx[i].of] # "end" /\ ~Finishes(io_rx[i].of)
       /\ io_rx[i].kind # "data" => io_rx[i].of \notin reading

\* The end is the last that it posts.
EndsLast ==
  \A i, j \in DOMAIN io_rx :
    io_rx[i].kind \in ReaderKind /\ io_rx[j].kind \in ReaderKind
      /\ io_rx[i].of = io_rx[j].of /\ io_rx[i].kind # "data" => j <= i

\* Of a socket with a record no failure and no close was heard, or 'connect' is due.
SocketsHeard ==
  \A s \in Socket :
    /\ s \notin used => heard[s] = "nothing"
    /\ s \in sockets => heard[s] \in SocketEvent \cup {"nothing"} \/ Plans(s, "connect")
    /\ s \notin sockets => heard[s] \in {"nothing", "error", "close"} \/ Plans(s, "close")

Exits ==
  \A i \in DOMAIN io_rx : /\ io_rx[i].kind = "childExit" => io_rx[i].of \in Child
                          /\ io_rx[i].kind = "workerExit" => io_rx[i].of \in Worker

ChildrenHeard ==
  \A c \in Child : heard[c] # "nothing" => process[c] = "reaped" /\ Ending(c) = 0

WorkersHeard ==
  \A w \in Worker :
    /\ process[w] = "none" <=> heard[w] = "nothing"
    /\ heard[w] \in WorkerEvent \cup {"nothing", "fork"}
    /\ heard[w] = "fork" => Plans(w, "online") \/ Comes(w)
    /\ heard[w] \in {"exit", "clusterExit"} => process[w] = "reaped" /\ Ending(w) = 0

\* Until 'online' is served only 'fork' was heard of the worker, and its record is there.
OnlineDue ==
  \A i \in DOMAIN io_rx : io_rx[i].kind = "online" =>
    /\ io_rx[i].of \in Worker /\ heard[io_rx[i].of] = "fork" /\ io_rx[i].of \in CHILDREN
    /\ ~Mentions(io_rx[i].of)

\* It is posted once, and before the worker's end.
OnlineFirst ==
  \A i, j \in DOMAIN io_rx :
    io_rx[i].kind = "online" /\ io_rx[j].kind \in {"online", "workerExit"} /\ io_rx[i].of = io_rx[j].of
      => i <= j

\* The events of a spawned process are all yet to come, or begun.
SpawnedHeard ==
  /\ \A i, j \in DOMAIN immediates : immediates[i] = immediates[j] => i = j
  /\ \A i \in DOMAIN immediates :
       /\ heard[immediates[i]] = "nothing"
       /\ \A k \in DOMAIN task : task[k].do = "emit" => task[k].of # immediates[i]

EndpointsHeard == \A e \in Endpoint : heard[e] \in ArrivalEvent \cup {"nothing", "close"}

Told ==
  /\ Planned /\ Readers /\ EndsLast /\ SocketsHeard /\ Exits /\ ChildrenHeard /\ WorkersHeard
  /\ OnlineDue /\ OnlineFirst /\ SpawnedHeard /\ EndpointsHeard

LEMMA FollowsSocket ==
  ASSUME NEW s \in Socket
  PROVE  /\ \A x \in {"nothing", "error", "close"} : Fits(s, x, "connect") /\ Fits(s, x, "error")
         /\ \A x \in {"nothing", "connect", "data"} : Fits(s, x, "data") /\ Fits(s, x, "end")
         /\ \A x \in {"nothing", "connect", "data", "end"} : Fits(s, x, "close")
<1>1. Follows[s] =
        {<<"nothing", "connect">>, <<"nothing", "error">>, <<"error", "connect">>,
         <<"close", "connect">>, <<"close", "error">>, <<"connect", "close">>,
         <<"data", "close">>, <<"end", "close">>, <<"nothing", "close">>}
        \cup {"nothing", "connect"} \X {"data", "end"} \cup {<<"data", "end">>}
  BY EmitterAssumption DEF Follows
<1> QED BY <1>1 DEF Fits

LEMMA FollowsEndpoint ==
  ASSUME NEW e \in Endpoint
  PROVE  \A x \in ArrivalEvent \cup {"nothing", "close"}, y \in ArrivalEvent \cup {"close"} : <<x, y>> \in Follows[e]
<1>1. Follows[e] = {"nothing", "listening", "connection", "message", "close"}
                     \X {"listening", "connection", "message", "close"}
  BY EmitterAssumption, EndpointAssumption DEF Follows, Live
<1> QED BY <1>1 DEF ArrivalEvent

LEMMA FollowsChild ==
  ASSUME NEW c \in Child
  PROVE  Fits(c, "nothing", "exit") /\ Fits(c, "exit", "close")
<1>1. Follows[c] = {<<"nothing", "exit">>, <<"exit", "close">>}
  BY EmitterAssumption DEF Follows, Live
<1> QED BY <1>1 DEF Fits

LEMMA FollowsWorker ==
  ASSUME NEW w \in Worker
  PROVE  /\ <<"nothing", "fork">> \in Follows[w]
         /\ Fits(w, "fork", "online") /\ Fits(w, "online", "clusterOnline")
         /\ Fits(w, "online", "exit") /\ Fits(w, "clusterOnline", "exit") /\ Fits(w, "exit", "clusterExit")
<1>1. Follows[w] = {<<"nothing", "fork">>, <<"fork", "online">>, <<"online", "clusterOnline">>,
                    <<"online", "exit">>, <<"clusterOnline", "exit">>, <<"exit", "clusterExit">>}
  BY EmitterAssumption DEF Follows, Live
<1> QED BY <1>1 DEF Fits

LEMMA FollowsSpawned ==
  ASSUME NEW s \in Spawned
  PROVE  /\ Fits(s, "nothing", "error") /\ Fits(s, "error", "close")
         /\ Fits(s, "nothing", "spawn") /\ Fits(s, "spawn", "data") /\ Fits(s, "spawn", "end")
         /\ Fits(s, "data", "end") /\ Fits(s, "end", "exit") /\ Fits(s, "exit", "close")
<1>1. Follows[s] = {<<"nothing", "error">>, <<"error", "close">>, <<"nothing", "spawn">>,
                    <<"spawn", "data">>, <<"spawn", "end">>, <<"data", "end">>, <<"end", "exit">>,
                    <<"exit", "close">>}
  BY EmitterAssumption DEF Follows, Live
<1> QED BY <1>1 DEF Fits

----------------------------------------------------------------------------
(* What a step does to the tasks of some kinds that are in the channel. *)

\* None of them is new, and no two change places.
Ordered(K) ==
  \A i, j \in DOMAIN io_rx' : io_rx'[i].kind \in K /\ io_rx'[j].kind \in K =>
    \E k, l \in DOMAIN io_rx : io_rx[k] = io_rx'[i] /\ io_rx[l] = io_rx'[j] /\ (k <= l => i <= j)

\* None that says a worker is online has gone.
OnlineKept ==
  \A k \in DOMAIN io_rx : io_rx[k].kind = "online" => \E i \in DOMAIN io_rx' : io_rx'[i] = io_rx[k]

LEMMA OrderedSame == UNCHANGED io_rx => OnlineKept /\ \A K : Ordered(K)
  BY DEF Ordered, OnlineKept

LEMMA OrderedAppend ==
  ASSUME TypeOK, NEW t \in Task, io_rx' = Append(io_rx, t)
  PROVE  OnlineKept /\ \A K : t.kind \notin K => Ordered(K)
<1>1. /\ DOMAIN io_rx = 1 .. Len(io_rx) /\ Len(io_rx) \in Nat /\ DOMAIN io_rx' = 1 .. Len(io_rx) + 1
      /\ (\A i \in DOMAIN io_rx : io_rx'[i] = io_rx[i]) /\ io_rx'[Len(io_rx) + 1] = t
  BY DEF TypeOK, HostType
<1>2. ASSUME NEW K, t.kind \notin K PROVE Ordered(K)
  <2>1. \A i \in DOMAIN io_rx' : io_rx'[i].kind \in K => i \in DOMAIN io_rx
    BY <1>1, <1>2
  <2> QED BY <1>1, <2>1 DEF Ordered
<1> QED BY <1>1, <1>2 DEF OnlineKept

LEMMA OrderedTail ==
  ASSUME TypeOK, io_rx # <<>>, io_rx' = Tail(io_rx)
  PROVE  (Head(io_rx).kind # "online" => OnlineKept) /\ \A K : Ordered(K)
<1>1. /\ DOMAIN io_rx = 1 .. Len(io_rx) /\ Len(io_rx) \in Nat \ {0} /\ DOMAIN io_rx' = 1 .. Len(io_rx) - 1
      /\ (\A i \in DOMAIN io_rx' : io_rx'[i] = io_rx[i + 1]) /\ Head(io_rx) = io_rx[1]
  BY DEF TypeOK, HostType
<1>2. ASSUME NEW K PROVE Ordered(K)
  <2> SUFFICES ASSUME NEW i \in DOMAIN io_rx', NEW j \in DOMAIN io_rx'
               PROVE  \E k, l \in DOMAIN io_rx : io_rx[k] = io_rx'[i] /\ io_rx[l] = io_rx'[j] /\ (k <= l => i <= j)
    BY DEF Ordered
  <2>1. i + 1 \in DOMAIN io_rx /\ j + 1 \in DOMAIN io_rx /\ (i + 1 <= j + 1 => i <= j)
    BY <1>1
  <2> QED BY <1>1, <2>1
<1>3. ASSUME Head(io_rx).kind # "online" PROVE OnlineKept
  <2> SUFFICES ASSUME NEW k \in DOMAIN io_rx, io_rx[k].kind = "online"
               PROVE  \E i \in DOMAIN io_rx' : io_rx'[i] = io_rx[k]
    BY DEF OnlineKept
  <2>1. k # 1
    BY <1>1, <1>3
  <2>2. k - 1 \in DOMAIN io_rx' /\ (k - 1) + 1 = k
    BY <1>1, <2>1
  <2> QED BY <1>1, <2>2
<1> QED BY <1>2, <1>3

LEMMA OrderedConcat ==
  ASSUME TypeOK, NEW r \in Seq(Task), io_rx' = io_rx \o r
  PROVE  OnlineKept /\ \A K : (\A i \in DOMAIN r : r[i].kind \notin K) => Ordered(K)
<1>1. /\ DOMAIN io_rx = 1 .. Len(io_rx) /\ Len(io_rx) \in Nat
      /\ DOMAIN r = 1 .. Len(r) /\ Len(r) \in Nat
      /\ DOMAIN io_rx' = 1 .. Len(io_rx) + Len(r)
      /\ \A i \in DOMAIN io_rx : io_rx'[i] = io_rx[i]
      /\ \A i \in DOMAIN io_rx' : i \notin DOMAIN io_rx => i - Len(io_rx) \in DOMAIN r /\ io_rx'[i] = r[i - Len(io_rx)]
  BY DEF TypeOK, HostType
<1>2. ASSUME NEW K, \A i \in DOMAIN r : r[i].kind \notin K PROVE Ordered(K)
  <2>1. \A i \in DOMAIN io_rx' : io_rx'[i].kind \in K => i \in DOMAIN io_rx
    BY <1>1, <1>2
  <2> QED BY <1>1, <2>1 DEF Ordered
<1> QED BY <1>1, <1>2 DEF OnlineKept
----------------------------------------------------------------------------
(* Each part is kept by a step that plans nothing and drops nothing but    *)
(* what JavaScript was being run for.                                      *)

Calm ==
  \/ UNCHANGED task /\ (running' => running)
  \/ /\ \A k \in DOMAIN task' : task'[k].do \notin {"emit", "close", "release"}
     /\ \A k \in DOMAIN task : task[k].do = "emit" => running

LEMMA CalmPlans ==
  ASSUME Calm, Planned
  PROVE  /\ \A o : ~Finishes(o) => ~Finishes(o)'
         /\ \A c : ~Mentions(c) => ~Mentions(c)'
         /\ \A o, e : o \in Socket \/ e = "online" => (Plans(o, e) => Plans(o, e)')
  BY DEF Calm, Planned, InPlace, Plans, Finishes, Mentions

LEMMA CalmPlanned ==
  ASSUME Planned, Calm, UNCHANGED <<heard, sockets>>, used \subseteq used'
  PROVE  Planned'
<1>1. CASE UNCHANGED task /\ (running' => running)
  <2> SUFFICES ASSUME NEW i \in DOMAIN task, task[i].do = "emit"
               PROVE  InLine(i)' /\ InPlace(i)'
    BY <1>1 DEF Planned
  <2>1. InLine(i) /\ InPlace(i)
    BY DEF Planned
  <2> QED BY <1>1, <2>1 DEF InLine, InPlace, Fits, Drops
<1>2. CASE \A k \in DOMAIN task' : task'[k].do \notin {"emit", "close", "release"}
  BY <1>2 DEF Planned
<1> QED BY <1>1, <1>2 DEF Calm

LEMMA CalmReaders ==
  ASSUME Planned, Readers, Calm, UNCHANGED <<heard, sockets, reading>>, Ordered(ReaderKind)
  PROVE  Readers'
<1>1. \A o : ~Finishes(o) => ~Finishes(o)'
  BY CalmPlans
<1>2. \A i \in DOMAIN io_rx' : io_rx'[i].kind \in ReaderKind => \E k \in DOMAIN io_rx : io_rx[k] = io_rx'[i]
  BY DEF Ordered
<1> QED BY <1>1, <1>2 DEF Readers

LEMMA OrderedEnds ==
  ASSUME EndsLast, Ordered(ReaderKind)
  PROVE  EndsLast'
<1> SUFFICES ASSUME NEW i \in DOMAIN io_rx', NEW j \in DOMAIN io_rx',
                    io_rx'[i].kind \in ReaderKind, io_rx'[j].kind \in ReaderKind,
                    io_rx'[i].of = io_rx'[j].of, io_rx'[i].kind # "data"
             PROVE  j <= i
  BY DEF EndsLast
<1>1. PICK k \in DOMAIN io_rx, l \in DOMAIN io_rx :
        io_rx[k] = io_rx'[j] /\ io_rx[l] = io_rx'[i] /\ (k <= l => j <= i)
  BY DEF Ordered
<1> QED BY <1>1 DEF EndsLast

LEMMA CalmSockets ==
  ASSUME Planned, SocketsHeard, Calm, UNCHANGED <<heard, sockets>>, used \subseteq used'
  PROVE  SocketsHeard'
  BY CalmPlans DEF SocketsHeard

LEMMA OrderedExits ==
  ASSUME Exits, Ordered(ProcessKind)
  PROVE  Exits'
<1>1. \A i \in DOMAIN io_rx' : io_rx'[i].kind \in {"childExit", "workerExit"} =>
         \E k \in DOMAIN io_rx : io_rx[k] = io_rx'[i]
  BY DEF Ordered, ProcessKind
<1> QED BY <1>1 DEF Exits

LEMMA CalmChildren ==
  ASSUME ChildrenHeard, UNCHANGED heard,
         \A c \in Child : heard[c] # "nothing" => process'[c] = process[c] /\ Ending(c)' = Ending(c)
  PROVE  ChildrenHeard'
  BY DEF ChildrenHeard

LEMMA CalmWorkers ==
  ASSUME Planned, WorkersHeard, Calm, UNCHANGED heard, OnlineKept,
         \A w \in Worker : process'[w] = process[w] /\ Ending(w)' = Ending(w)
  PROVE  WorkersHeard'
<1>1. \A w : Plans(w, "online") => Plans(w, "online")'
  BY CalmPlans
<1>2. \A w : Comes(w) => Comes(w)'
  BY DEF Comes, OnlineKept
<1> QED BY <1>1, <1>2 DEF WorkersHeard

LEMMA OrderedOnline ==
  ASSUME OnlineFirst, Ordered(ProcessKind)
  PROVE  OnlineFirst'
<1> SUFFICES ASSUME NEW i \in DOMAIN io_rx', NEW j \in DOMAIN io_rx', io_rx'[i].kind = "online",
                    io_rx'[j].kind \in {"online", "workerExit"}, io_rx'[i].of = io_rx'[j].of
             PROVE  i <= j
  BY DEF OnlineFirst
<1>1. PICK k \in DOMAIN io_rx, l \in DOMAIN io_rx :
        io_rx[k] = io_rx'[i] /\ io_rx[l] = io_rx'[j] /\ (k <= l => i <= j)
  BY DEF Ordered, ProcessKind
<1> QED BY <1>1 DEF OnlineFirst

LEMMA OrderedDue ==
  ASSUME Ordered(ProcessKind)
  PROVE  \A i \in DOMAIN io_rx' : io_rx'[i].kind = "online" => \E k \in DOMAIN io_rx : io_rx[k] = io_rx'[i]
  BY DEF Ordered, ProcessKind

LEMMA CalmOnline ==
  ASSUME Planned, OnlineDue, Calm, UNCHANGED heard, Ordered(ProcessKind),
         \A w \in Worker : w \in CHILDREN \ CHILDREN' => Mentions(w)
  PROVE  OnlineDue'
<1>1. \A c : ~Mentions(c) => ~Mentions(c)'
  BY CalmPlans
<1>2. ASSUME NEW i \in DOMAIN io_rx', io_rx'[i].kind = "online"
      PROVE  /\ io_rx'[i].of \in Worker /\ heard'[io_rx'[i].of] = "fork" /\ io_rx'[i].of \in CHILDREN'
             /\ ~Mentions(io_rx[i].of)'
  <2>1. PICK k \in DOMAIN io_rx : io_rx[k] = io_rx'[i]
    BY <1>2, OrderedDue
  <2> QED BY <1>1, <1>2, <2>1 DEF OnlineDue
<1> QED BY <1>2 DEF OnlineDue

LEMMA CalmSpawned ==
  ASSUME SpawnedHeard, Calm, UNCHANGED <<heard, immediates>>
  PROVE  SpawnedHeard'
  BY DEF SpawnedHeard, Calm

LEMMA SameEndpoints == EndpointsHeard /\ UNCHANGED heard => EndpointsHeard'
  BY DEF EndpointsHeard

\* A step that changes nothing else that the order of events is about.
LEMMA CalmTold ==
  ASSUME Told, Calm, UNCHANGED <<heard, sockets, reading, immediates>>, used \subseteq used',
         OnlineKept, Ordered(ReaderKind), Ordered(ProcessKind),
         \A c \in Live : Ending(c)' = Ending(c),
         \A c \in Child : heard[c] # "nothing" => process'[c] = process[c],
         \A w \in Worker : process'[w] = process[w],
         \A w \in Worker : w \in CHILDREN \ CHILDREN' => Mentions(w)
  PROVE  Told'
<1>1. Child \subseteq Live /\ Worker \subseteq Live
  BY DEF Live
<1> QED BY <1>1, CalmPlanned, CalmReaders, OrderedEnds, CalmSockets, OrderedExits, CalmChildren, CalmWorkers,
           CalmOnline, OrderedOnline, CalmSpawned, SameEndpoints DEF Told

(* A task that is in the channel, or a step to come, counts. *)
LEMMA EndingSome ==
  ASSUME TypeOK, NEW i \in DOMAIN io_rx, io_rx[i].kind \in {"childExit", "workerExit"}
  PROVE  Ending(io_rx[i].of) # 0
<1>1. io_rx[i] \in Task
  BY LenProperties, ElementOfSeq DEF TypeOK, HostType
<1>2. i \in Places(io_rx, Endings(io_rx[i].of))
  BY <1>1 DEF Places, Endings
<1>3. IsFiniteSet(Places(io_rx, Endings(io_rx[i].of)))
  BY PlacesFinite DEF TypeOK, HostType
<1> QED BY <1>2, <1>3, FS_EmptySet DEF Ending, Num

LEMMA DropsSome ==
  ASSUME IInv, NEW c \in Live, Drops(c)
  PROVE  c \in CHILDREN /\ process[c] = "reaped" /\ Ending(c) = 0
<1>1. PICK k \in DOMAIN task : task[k].do = "release" /\ task[k].of = c
  BY DEF Drops
<1>2. task[k] \in TaskStep
  BY LenProperties, ElementOfSeq DEF IInv, TypeOK, HostType
<1>3. k \in Places(task, Releases(c))
  BY <1>1, <1>2 DEF Places, Releases
<1>4. IsFiniteSet(Places(task, Releases(c)))
  BY PlacesFinite DEF IInv, TypeOK, HostType
<1>5. Releasing(c) # 0
  BY <1>3, <1>4, FS_EmptySet DEF Releasing, Num
<1>6. Releasing(c) \in Nat /\ Ending(c) \in Nat
  BY CountTypes DEF IInv
<1>7. Ending(c) + Releasing(c) <= IF c \in CHILDREN /\ process[c] = "reaped" THEN 1 ELSE 0
  BY DEF IInv, Processes
<1> QED BY <1>5, <1>6, <1>7

----------------------------------------------------------------------------
(* The steps that are calm, and post or take only tasks of no concern. *)

Plain ==
  \/ UNCHANGED io_rx
  \/ \E t \in Task : t.kind \notin ReaderKind \cup ProcessKind /\ io_rx' = Append(io_rx, t)
  \/ io_rx # <<>> /\ Head(io_rx).kind \notin ProcessKind /\ io_rx' = Tail(io_rx)
  \/ \E k \in {"deliver", "broadcast"}, r \in Seq(Task) :
       (\A i \in DOMAIN r : r[i].kind = k) /\ io_rx' = io_rx \o r

LEMMA PlainChannel ==
  ASSUME TypeOK, Plain
  PROVE  OnlineKept /\ Ordered(ReaderKind) /\ Ordered(ProcessKind) /\ \A c : Ending(c)' = Ending(c)
<1>1. CASE UNCHANGED io_rx
  BY <1>1, OrderedSame, ChannelSame
<1>2. ASSUME NEW t \in Task, t.kind \notin ReaderKind \cup ProcessKind, io_rx' = Append(io_rx, t)
      PROVE  OnlineKept /\ Ordered(ReaderKind) /\ Ordered(ProcessKind) /\ \A c : Ending(c)' = Ending(c)
  <2>1. OnlineKept /\ Ordered(ReaderKind) /\ Ordered(ProcessKind)
    BY <1>2, OrderedAppend
  <2>2. \A c : Ending(c)' = Ending(c) + 0
    BY <1>2, Posting DEF ProcessKind
  <2> QED BY <2>1, <2>2, CountTypes
<1>3. CASE io_rx # <<>> /\ Head(io_rx).kind \notin ProcessKind /\ io_rx' = Tail(io_rx)
  <2>1. OnlineKept /\ Ordered(ReaderKind) /\ Ordered(ProcessKind)
    BY <1>3, OrderedTail DEF ProcessKind
  <2>2. \A c : Ending(c)' = Ending(c) - 0
    BY <1>3, Removing DEF ProcessKind
  <2> QED BY <2>1, <2>2, CountTypes
<1>4. ASSUME NEW k \in {"deliver", "broadcast"}, NEW r \in Seq(Task), \A i \in DOMAIN r : r[i].kind = k,
             io_rx' = io_rx \o r
      PROVE  OnlineKept /\ Ordered(ReaderKind) /\ Ordered(ProcessKind) /\ \A c : Ending(c)' = Ending(c)
  <2>1. \A i \in DOMAIN r : r[i].kind \notin ReaderKind /\ r[i].kind \notin ProcessKind
    BY <1>4 DEF ReaderKind, ProcessKind
  <2>2. OnlineKept /\ Ordered(ReaderKind) /\ Ordered(ProcessKind)
    BY <1>4, <2>1, OrderedConcat
  <2>3. \A c : Ending(c)' = Ending(c)
    BY <1>4, Scheduling
  <2> QED BY <2>2, <2>3
<1> QED BY <1>1, <1>2, <1>3, <1>4 DEF Plain

LEMMA PlainTold ==
  ASSUME TypeOK, Told, Plain, Calm, UNCHANGED <<heard, sockets, reading, immediates, childVars>>,
         used \subseteq used'
  PROVE  Told'
  BY PlainChannel, CalmTold

(* The channel, when a task is posted or taken. *)
LEMMA PlainPosted ==
  ASSUME NEW t \in Task, Post(t), t.kind \notin ReaderKind \cup ProcessKind
  PROVE  Plain
  BY DEF Plain, Post

LEMMA PlainTaken ==
  ASSUME TypeOK, NEW k, Received(k), k \notin ProcessKind
  PROVE  Plain /\ task = <<>> /\ ~running
  BY Taking DEF Plain, Idle

LEMMA ToldHost ==
  ASSUME IInv, Told, Return \/ Throw \/ RunWake \/ Leave \/ CaughtThrow,
         UNCHANGED <<sockets, reading, used, childVars>>
  PROVE  Told'
<1>1. CASE Return \/ Leave \/ CaughtThrow
  <2>1. Plain /\ Calm /\ UNCHANGED <<heard, immediates>>
    BY <1>1 DEF Return, Leave, CaughtThrow, Plain, Calm
  <2> QED BY <2>1, PlainTold DEF IInv
<1>2. CASE Throw
  <2>1. Plain /\ Calm /\ UNCHANGED <<heard, immediates>>
    BY <1>2 DEF Throw, Plain, Calm
  <2> QED BY <2>1, PlainTold DEF IInv
<1>3. CASE RunWake
  <2>1. Plain
    BY <1>3, PlainTaken DEF RunWake, ProcessKind, IInv
  <2>2. Calm /\ UNCHANGED <<heard, immediates>>
    BY <1>3 DEF RunWake, Received, Calm
  <2> QED BY <2>1, <2>2, PlainTold DEF IInv
<1> QED BY <1>1, <1>2, <1>3

LEMMA CallCalm == ASSUME TypeOK, Call PROVE Calm
  BY Calling DEF Calm

\* The function has nothing more to do than what was reached.
LEMMA LastCalm ==
  ASSUME IInv, NEW w \in {"closed", "release", "delivered"}, Reached(w)
  PROVE  Calm /\ task' = <<>> /\ DOMAIN task = {1} /\ task[1] = Head(task)
<1>1. Len(task) \in Nat /\ DOMAIN task = 1 .. Len(task)
  BY LenProperties DEF IInv, TypeOK, HostType
<1>2. 1 \in DOMAIN task /\ Head(task) = task[1] /\ Head(task).do = w /\ task' = Tail(task) /\ ~running
  BY Reaching DEF IInv
<1>3. Len(task) = 1
  BY <1>2 DEF IInv, Shaped
<1>4. task' = <<>>
  BY <1>2, <1>3, EmptySeq, HeadTailProperties DEF IInv, TypeOK, HostType
<1> QED BY <1>1, <1>2, <1>3, <1>4 DEF Calm

LEMMA ToldSocketCalls ==
  ASSUME IInv, Told, UNCHANGED childVars,
         \/ \E s \in Socket : socket_connect(s)
         \/ \E v \in Server : server_listen(v)
         \/ \E u \in Udp : socket_bind(u) \/ socket_send(u)
  PROVE  Told'
<1>1. ASSUME NEW s \in Socket, socket_connect(s) PROVE Told'
  <2>1. Calm
    BY <1>1, CallCalm DEF socket_connect, IInv
  <2>2. Plain /\ UNCHANGED <<heard, sockets, reading, immediates>> /\ used \subseteq used'
    BY <1>1 DEF socket_connect, Quiet, Plain
  <2> QED BY <2>1, <2>2, PlainTold DEF IInv
<1>2. ASSUME NEW e \in Endpoint, NEW k \in {"listening", "sent"}, Call,
             IF records[e] = 0 THEN Open(e, IoTask(k, e, 0))
             ELSE Post(IoTask(k, e, 0)) /\ UNCHANGED <<open_handles, endpointVars>>,
             UNCHANGED <<immediates, heard, tcpVars>>
      PROVE  Told'
  <2>1. Calm
    BY <1>2, CallCalm DEF IInv
  <2>2. IoTask(k, e, 0) \in Task /\ Post(IoTask(k, e, 0)) /\ IoTask(k, e, 0).kind = k
    BY <1>2, TaskTypes DEF Open, IoTask
  <2>3. Plain
    BY <2>2, PlainPosted DEF ReaderKind, ProcessKind
  <2> QED BY <1>2, <2>1, <2>3, PlainTold DEF IInv
<1>3. ASSUME NEW v \in Server, server_listen(v) PROVE Told'
  BY <1>2, <1>3 DEF server_listen, Endpoint
<1>4. ASSUME NEW u \in Udp, socket_bind(u) \/ socket_send(u) PROVE Told'
  BY <1>2, <1>4 DEF socket_bind, socket_send, Endpoint
<1> QED BY <1>1, <1>3, <1>4

LEMMA ToldThreads ==
  ASSUME IInv, Told, UNCHANGED childVars,
         \/ \E e \in Endpoint, id \in 1 .. MaxCalls : Arrive(e, id) \/ StopThread(e, id)
         \/ \E s \in Socket, kind \in {"connect", "connectError"} : Connect(s, kind)
  PROVE  Told'
<1>1. ASSUME NEW e \in Endpoint, NEW id \in 1 .. MaxCalls, Arrive(e, id) PROVE Told'
  <2>1. PICK t : t = IoTask(IF e \in Server THEN "connection" ELSE "message", e, id)
    OBVIOUS
  <2>2. id \in Nat \ {0}
    BY HostIoBounds
  <2>3. t \in Task /\ t.kind \in {"connection", "message"}
    BY <2>1, <2>2, TaskTypes DEF IoTask
  <2>4. Post(t)
    BY <1>1, <2>1 DEF Arrive
  <2>5. Plain
    BY <2>3, <2>4, PlainPosted DEF ReaderKind, ProcessKind
  <2>6. Calm /\ UNCHANGED <<heard, sockets, reading, immediates, used>>
    BY <1>1 DEF Arrive, Calm
  <2> QED BY <2>5, <2>6, PlainTold DEF IInv
<1>2. ASSUME NEW e \in Endpoint, NEW id \in 1 .. MaxCalls, StopThread(e, id) PROVE Told'
  <2>1. Plain /\ Calm /\ UNCHANGED <<heard, sockets, reading, immediates, used>>
    BY <1>2 DEF StopThread, Plain, Calm
  <2> QED BY <2>1, PlainTold DEF IInv
<1>3. ASSUME NEW s \in Socket, NEW kind \in {"connect", "connectError"}, Connect(s, kind) PROVE Told'
  <2>1. IoTask(kind, s, 0) \in Task /\ IoTask(kind, s, 0).kind = kind
    BY TaskTypes DEF IoTask
  <2>2. Plain
    BY <1>3, <2>1, PlainPosted DEF Connect, ReaderKind, ProcessKind
  <2>3. Calm /\ UNCHANGED <<heard, sockets, reading, immediates, used>>
    BY <1>3 DEF Connect, Calm
  <2> QED BY <2>2, <2>3, PlainTold DEF IInv
<1> QED BY <1>1, <1>2, <1>3

LEMMA ToldSent ==
  ASSUME IInv, Told, UNCHANGED childVars, RunSent \/ Closed
  PROVE  Told'
<1>1. CASE RunSent
  <2>1. Plain /\ task = <<>> /\ UNCHANGED task
    BY <1>1, PlainTaken DEF RunSent, ProcessKind, IInv
  <2>2. Calm
    BY <2>1 DEF Calm
  <2>3. UNCHANGED <<heard, sockets, reading, immediates, used>>
    BY <1>1 DEF RunSent, Received
  <2> QED BY <2>1, <2>2, <2>3, PlainTold DEF IInv
<1>2. CASE Closed
  <2>1. Calm
    BY <1>2, LastCalm DEF Closed
  <2>2. Plain
    BY <1>2, TaskTypes, PlainPosted DEF Closed, Wake, IoTask, ReaderKind, ProcessKind
  <2>3. UNCHANGED <<heard, sockets, reading, immediates, used>>
    BY <1>2 DEF Closed, Reached
  <2> QED BY <2>1, <2>2, <2>3, PlainTold DEF IInv
<1> QED BY <1>1, <1>2

LEMMA ToldScheduled ==
  ASSUME TypeOK, NEW p \in Port, NEW n \in Nat, Schedule(p, n)
  PROVE  Plain /\ UNCHANGED <<heard, immediates>>
<1>1. PICK r \in Seq(Task) : /\ \A i \in DOMAIN r : r[i] = IoTask("deliver", p, 0)
                             /\ r = Copies(IoTask("deliver", p, 0), n)
  BY CopiesTypes
<1>2. \A i \in DOMAIN r : r[i].kind = "deliver"
  BY <1>1 DEF IoTask
<1> QED BY <1>1, <1>2 DEF Schedule, Plain

LEMMA ToldChannels ==
  ASSUME IInv, Told, UNCHANGED <<netVars, childVars>>, ChannelCalls \/ ChannelTasks
  PROVE  Told'
<1>1. ASSUME Call, Plain, UNCHANGED <<heard, immediates>> PROVE Told'
  BY <1>1, CallCalm, PlainTold DEF IInv
<1>2. ASSUME NEW p \in Port, channel_post(p) PROVE Told'
  <2>1. Plain /\ UNCHANGED <<heard, immediates>>
    BY <1>2, PeerAssumption, ToldScheduled DEF channel_post, IInv
  <2> QED BY <1>1, <1>2, <2>1 DEF channel_post
<1>3. ASSUME NEW p \in Port, start_channel_port(p) PROVE Told'
  <2>1. CH_QUEUE[p] \in Nat
    BY DEF IInv, TypeOK, ChannelType
  <2>2. Plain /\ UNCHANGED <<heard, immediates>>
    BY <1>3, <2>1, ToldScheduled DEF start_channel_port, IInv
  <2> QED BY <1>1, <1>3, <2>2 DEF start_channel_port
<1>4. ASSUME NEW b \in Broadcast, BroadcastPost(b) PROVE Told'
  <2>1. PICK r \in Seq(Task) : /\ \A i \in DOMAIN r : r[i].kind = "broadcast"
                               /\ io_rx' = io_rx \o r
    BY <1>4, TargetsTypes DEF BroadcastPost, IoTask, IInv
  <2>2. Plain
    BY <2>1 DEF Plain
  <2> QED BY <1>1, <1>4, <2>2 DEF BroadcastPost
<1>5. ASSUME Call, Quiet PROVE Told'
  BY <1>1, <1>5 DEF Quiet, Plain
<1>6. CASE ChannelCalls
  BY <1>2, <1>3, <1>4, <1>5, <1>6 DEF ChannelCalls, ClosePort, receive_message_on_port,
     construct_broadcast_channel, BroadcastClose, BroadcastRef, BroadcastUnref
<1>7. CASE channel_deliver \/ broadcast_deliver
  <2>1. Plain /\ task = <<>>
    BY <1>7, PlainTaken DEF channel_deliver, broadcast_deliver, ProcessKind, IInv
  <2>2. DOMAIN task' = {1} /\ task'[1].do = "delivered"
    BY <1>7, StepDoes DEF channel_deliver, broadcast_deliver
  <2>3. Calm
    BY <2>1, <2>2 DEF Calm
  <2>4. UNCHANGED <<heard, immediates>>
    BY <1>7 DEF channel_deliver, broadcast_deliver, Received
  <2> QED BY <2>1, <2>3, <2>4, PlainTold DEF IInv
<1>8. CASE Delivered
  <2>1. Calm
    BY <1>8, LastCalm DEF Delivered
  <2>2. Plain /\ UNCHANGED <<heard, immediates>>
    BY <1>8 DEF Delivered, Reached, Plain
  <2> QED BY <2>1, <2>2, PlainTold DEF IInv
<1>9. CASE CaughtThrow
  BY <1>9, ToldHost
<1> QED BY <1>6, <1>7, <1>8, <1>9 DEF ChannelTasks
----------------------------------------------------------------------------
(* The steps that plan an event of a socket or a server. *)

Steady == OnlineKept /\ Ordered(ReaderKind) /\ Ordered(ProcessKind) /\ \A c : Ending(c)' = Ending(c)

LEMMA PlannedEndpoint ==
  ASSUME Told, NEW e \in Endpoint, NEW event \in ArrivalEvent, task' = <<Emit(e, event)>>, ~running', UNCHANGED heard
  PROVE  Planned'
<1>1. DOMAIN task' = {1} /\ task'[1].of = e /\ task'[1].event = event
  BY StepDoes
<1>2. Fits(e, heard[e], event)
  BY FollowsEndpoint DEF Told, EndpointsHeard, Fits
<1>3. InLine(1)'
  BY <1>1, <1>2 DEF InLine, Fits
<1>4. e \notin Socket \cup Worker \cup Child
  BY EmitterAssumption DEF Live
<1>5. InPlace(1)'
  BY <1>1, <1>4 DEF InPlace, ArrivalEvent
<1> QED BY <1>1, <1>3, <1>5 DEF Planned

LEMMA PlannedSocket ==
  ASSUME Told, NEW s \in Socket, NEW event, ~running', UNCHANGED heard,
         task'[1] = Emit(s, event), \A k \in DOMAIN task' : task'[k].do = "emit" => k = 1,
         Fits(s, heard[s], event), s \in used', event \in SocketEvent \cup {"error", "close"},
         s \in sockets' <=> event \in SocketEvent
  PROVE  Planned'
<1>1. task'[1].of = s /\ task'[1].event = event
  BY StepDoes
<1>2. InLine(1)'
  BY <1>1 DEF InLine, Fits
<1>3. s \notin Endpoint \cup Worker \cup Child
  BY EmitterAssumption DEF Live
<1>4. InPlace(1)'
  BY <1>1, <1>3 DEF InPlace
<1> QED BY <1>2, <1>4 DEF Planned

\* Processes and spawned ones have no part in it.
LEMMA ProcessesTold ==
  ASSUME IInv, Told, Steady, UNCHANGED <<heard, immediates, childVars>>,
         \A k \in DOMAIN task : task[k].of \in Socket,
         \A k \in DOMAIN task' : task'[k].of \in Socket \cup Endpoint
  PROVE  /\ Exits' /\ ChildrenHeard' /\ WorkersHeard' /\ OnlineDue' /\ OnlineFirst'
         /\ SpawnedHeard' /\ EndpointsHeard'
<1>1. /\ \A k \in DOMAIN task : task[k].of \notin Live \cup Spawned
      /\ \A k \in DOMAIN task' : task'[k].of \notin Live \cup Spawned
  BY EmitterAssumption
<1>2. Child \subseteq Live /\ Worker \subseteq Live
  BY DEF Live
<1>3. Exits' /\ ChildrenHeard' /\ OnlineFirst' /\ EndpointsHeard'
  BY <1>2, OrderedExits, CalmChildren, OrderedOnline, SameEndpoints DEF Told, Steady
<1>4. WorkersHeard'
  <2>1. \A w \in Worker : ~Plans(w, "online")
    BY <1>1, <1>2 DEF Plans
  <2>2. \A w : Comes(w) => Comes(w)'
    BY DEF Comes, OnlineKept, Steady
  <2> QED BY <2>1, <2>2 DEF WorkersHeard, Told, Steady
<1>5. OnlineDue'
  <2>1. \A w \in Worker : ~Mentions(w)'
    BY <1>1, <1>2 DEF Mentions
  <2> QED BY <2>1, OrderedDue DEF OnlineDue, Told, Steady
<1>6. SpawnedHeard'
  <2>1. \A i \in DOMAIN immediates : immediates[i] \in Spawned
    BY LenProperties, ElementOfSeq DEF IInv, TypeOK, HostType
  <2> QED BY <1>1, <2>1 DEF SpawnedHeard, Told
<1> QED BY <1>3, <1>4, <1>5, <1>6

LEMMA ReadersOn ==
  ASSUME TypeOK, Told, Ordered(ReaderKind), UNCHANGED heard, sockets \subseteq sockets',
         \A s \in reading' : s \in reading \/ (s \in sockets' \ sockets /\ heard[s] # "end"),
         sockets' \subseteq Socket, \A s \in Socket : ~Finishes(s)'
  PROVE  Readers' /\ EndsLast'
<1>1. EndsLast'
  BY OrderedEnds DEF Told
<1>2. \A i \in DOMAIN io_rx' : io_rx'[i].kind \in ReaderKind => \E k \in DOMAIN io_rx : io_rx[k] = io_rx'[i]
  BY DEF Ordered
<1>3. \A s \in reading' : s \in sockets' /\ heard'[s] # "end" /\ ~Finishes(s)'
  BY DEF Readers, Told
<1>4. ASSUME NEW i \in DOMAIN io_rx', io_rx'[i].kind \in ReaderKind
      PROVE  /\ io_rx'[i].of \in sockets' /\ heard'[io_rx'[i].of] # "end" /\ ~Finishes(io_rx[i].of)'
             /\ io_rx'[i].kind # "data" => io_rx'[i].of \notin reading'
  <2>1. PICK k \in DOMAIN io_rx : io_rx[k] = io_rx'[i]
    BY <1>2, <1>4
  <2>2. /\ io_rx'[i].of \in sockets /\ heard[io_rx'[i].of] # "end"
        /\ io_rx'[i].kind # "data" => io_rx'[i].of \notin reading
    BY <1>4, <2>1 DEF Readers, Told
  <2>3. io_rx'[i].of \in Socket /\ io_rx'[i].of \notin sockets' \ sockets
    BY <2>2
  <2> QED BY <2>2, <2>3
<1> QED BY <1>1, <1>3, <1>4 DEF Readers

LEMMA SocketsOn ==
  ASSUME Told, task = <<>>, UNCHANGED heard, used \subseteq used', sockets \subseteq sockets',
         \A s \in sockets' \ sockets : heard[s] = "nothing" \/ Plans(s, "connect")'
  PROVE  SocketsHeard'
<1>1. \A s, e : ~Plans(s, e)
  BY DEF Plans
<1> QED BY <1>1 DEF SocketsHeard, Told

LEMMA OrderedTurn ==
  ASSUME TypeOK, NEW t \in Task, io_rx # <<>>, io_rx' = Append(Tail(io_rx), t)
  PROVE  (Head(io_rx).kind # "online" => OnlineKept) /\ \A K : t.kind \notin K => Ordered(K)
<1>1. /\ DOMAIN io_rx = 1 .. Len(io_rx) /\ Len(io_rx) \in Nat \ {0} /\ DOMAIN io_rx' = 1 .. Len(io_rx)
      /\ (\A i \in 1 .. Len(io_rx) - 1 : io_rx'[i] = io_rx[i + 1])
      /\ io_rx'[Len(io_rx)] = t /\ Head(io_rx) = io_rx[1]
  BY DEF TypeOK, HostType
<1>2. ASSUME NEW K, t.kind \notin K PROVE Ordered(K)
  <2> SUFFICES ASSUME NEW i \in DOMAIN io_rx', NEW j \in DOMAIN io_rx', io_rx'[i].kind \in K, io_rx'[j].kind \in K
               PROVE  \E k, l \in DOMAIN io_rx : io_rx[k] = io_rx'[i] /\ io_rx[l] = io_rx'[j] /\ (k <= l => i <= j)
    BY DEF Ordered
  <2>1. i \in 1 .. Len(io_rx) - 1 /\ j \in 1 .. Len(io_rx) - 1
    BY <1>1, <1>2
  <2>2. i + 1 \in DOMAIN io_rx /\ j + 1 \in DOMAIN io_rx /\ (i + 1 <= j + 1 => i <= j)
    BY <1>1, <2>1
  <2> QED BY <1>1, <2>1, <2>2
<1>3. ASSUME Head(io_rx).kind # "online" PROVE OnlineKept
  <2> SUFFICES ASSUME NEW k \in DOMAIN io_rx, io_rx[k].kind = "online"
               PROVE  \E i \in DOMAIN io_rx' : io_rx'[i] = io_rx[k]
    BY DEF OnlineKept
  <2>1. k # 1
    BY <1>1, <1>3
  <2>2. k - 1 \in DOMAIN io_rx' /\ k - 1 \in 1 .. Len(io_rx) - 1 /\ (k - 1) + 1 = k
    BY <1>1, <2>1
  <2> QED BY <1>1, <2>2
<1> QED BY <1>2, <1>3

\* A task is received that is of no process.
LEMMA TakenSteady ==
  ASSUME IInv, NEW k, k \notin ProcessKind, Received(k)
  PROVE  /\ Steady /\ task = <<>> /\ ~running /\ UNCHANGED immediates
         /\ Head(io_rx) \in Task /\ Head(io_rx).kind = k /\ 1 \in DOMAIN io_rx /\ io_rx[1] = Head(io_rx)
         /\ io_rx' = Tail(io_rx)
<1>1. Plain /\ task = <<>> /\ ~running
  BY PlainTaken DEF IInv
<1>2. Steady
  BY <1>1, PlainChannel DEF Steady, IInv
<1>3. 1 \in DOMAIN io_rx /\ io_rx[1] = Head(io_rx)
  BY Taking, HeadTailProperties, LenProperties, EmptySeq DEF IInv, TypeOK, HostType
<1> QED BY <1>1, <1>2, <1>3, Taking DEF IInv

\* A server or UDP socket is about to report.
LEMMA ToldReport ==
  ASSUME IInv, Told, Steady, task = <<>>, ~running, UNCHANGED <<running, heard, immediates, childVars>>,
         NEW e \in Endpoint, NEW event \in ArrivalEvent, task' = <<Emit(e, event)>>,
         UNCHANGED <<used, sockets, reading>>
           \/ \E s \in Socket \ used : used' = used \cup {s} /\ sockets' = sockets \cup {s} /\ reading' = reading \cup {s}
  PROVE  Told'
<1>1. \A k \in DOMAIN task' : task'[k].of = e
  BY StepDoes
<1>2. e \notin Socket
  BY EmitterAssumption
<1>3. Planned'
  BY PlannedEndpoint
<1>4. \A s \in Socket : ~Finishes(s)'
  BY <1>1, <1>2 DEF Finishes
<1> DEFINE Added == /\ used \subseteq used' /\ sockets \subseteq sockets' /\ sockets' \subseteq Socket
                    /\ \A s \in sockets' \ sockets : heard[s] = "nothing"
                    /\ \A s \in reading' : s \in reading \/ (s \in sockets' \ sockets /\ heard[s] # "end")
<1>5. Added
  <2>1. CASE UNCHANGED <<used, sockets, reading>>
    BY <2>1 DEF IInv, TypeOK, NetType
  <2>2. ASSUME NEW s \in Socket \ used, used' = used \cup {s}, sockets' = sockets \cup {s}, reading' = reading \cup {s}
        PROVE  Added
    <3>1. heard[s] = "nothing" /\ s \notin sockets
      BY DEF Told, SocketsHeard, IInv, Connections
    <3> QED BY <2>2, <3>1 DEF IInv, TypeOK, NetType
  <2> QED BY <2>1, <2>2
<1>6. Readers' /\ EndsLast'
  BY <1>4, <1>5, ReadersOn DEF Steady, IInv
<1>7. SocketsHeard'
  BY <1>5, SocketsOn
<1>8. /\ Exits' /\ ChildrenHeard' /\ WorkersHeard' /\ OnlineDue' /\ OnlineFirst'
      /\ SpawnedHeard' /\ EndpointsHeard'
  BY <1>1, ProcessesTold
<1> QED BY <1>3, <1>6, <1>7, <1>8 DEF Told

LEMMA ToldArrivals ==
  ASSUME IInv, Told, UNCHANGED childVars, RunListening \/ on_connection \/ on_message
  PROVE  Told'
<1>1. CASE RunListening
  <2>1. Received("listening") /\ Steady /\ task = <<>> /\ ~running /\ UNCHANGED immediates /\ Head(io_rx).of \in Endpoint
    BY <1>1, TakenSteady, TaskFields DEF RunListening, ProcessKind
  <2> QED BY <1>1, <2>1, ToldReport DEF RunListening, ArrivalEvent
<1>2. ASSUME Received("connection") \/ Received("message"), UNCHANGED <<task, running, heard, used, sockets, reading>>
      PROVE  Told'
  <2>1. Plain
    BY <1>2, PlainTaken DEF ProcessKind, IInv
  <2>2. Calm /\ UNCHANGED immediates
    BY <1>2 DEF Calm, Received
  <2> QED BY <1>2, <2>1, <2>2, PlainTold DEF IInv
<1>3. CASE on_message
  <2>1. Received("message") /\ Steady /\ task = <<>> /\ ~running /\ UNCHANGED immediates /\ Head(io_rx).of \in Endpoint
    BY <1>3, TakenSteady, TaskFields DEF on_message, ProcessKind
  <2>2. CASE task' = <<Emit(Head(io_rx).of, "message")>>
    BY <1>3, <2>1, <2>2, ToldReport DEF on_message, ArrivalEvent
  <2>3. CASE UNCHANGED task
    BY <1>2, <1>3, <2>3 DEF on_message
  <2> QED BY <1>3, <2>2, <2>3 DEF on_message
<1>4. CASE on_connection
  <2>1. Received("connection") /\ Steady /\ task = <<>> /\ ~running /\ UNCHANGED immediates /\ Head(io_rx).of \in Endpoint
    BY <1>4, TakenSteady, TaskFields DEF on_connection, ProcessKind
  <2>2. ASSUME NEW s \in Socket \ used, used' = used \cup {s}, sockets' = sockets \cup {s}, reading' = reading \cup {s},
               task' = <<Emit(Head(io_rx).of, "connection")>>
        PROVE  Told'
    BY <1>4, <2>1, <2>2, ToldReport DEF on_connection, ArrivalEvent
  <2>3. CASE UNCHANGED <<task, used, sockets, reading>>
    BY <1>2, <1>4, <2>3 DEF on_connection
  <2> QED BY <1>4, <2>2, <2>3 DEF on_connection
<1> QED BY <1>1, <1>3, <1>4

\* A connection attempt is about to be reported.
LEMMA ToldOutcome ==
  ASSUME IInv, Told, Steady, task = <<>>, ~running, UNCHANGED <<running, heard, immediates, used, childVars>>,
         NEW s \in connecting, NEW event, task' = <<Emit(s, event)>>,
         \/ event = "connect" /\ sockets' = sockets \cup {s} /\ reading' = reading \cup {s}
         \/ event = "error" /\ UNCHANGED <<sockets, reading>>
  PROVE  Told'
<1>1. s \in Socket /\ s \in used /\ s \notin sockets /\ heard[s] \in {"nothing", "error", "close"}
  BY DEF IInv, TypeOK, NetType, Connections, Told, SocketsHeard, Plans
<1>2. /\ DOMAIN task' = {1} /\ task'[1] = Emit(s, event)
      /\ task'[1].do = "emit" /\ task'[1].of = s /\ task'[1].event = event
  BY StepDoes
<1>3. Planned'
  <2>1. Fits(s, heard[s], event)
    BY <1>1, FollowsSocket
  <2>2. event \in SocketEvent \cup {"error", "close"} /\ (s \in sockets' <=> event \in SocketEvent)
    BY <1>1 DEF SocketEvent
  <2> QED BY <1>1, <1>2, <2>1, <2>2, PlannedSocket
<1>4. /\ sockets \subseteq sockets' /\ sockets' \subseteq Socket
      /\ \A x \in reading' : x \in reading \/ (x \in sockets' \ sockets /\ heard[x] # "end")
      /\ \A x \in sockets' \ sockets : Plans(x, "connect")'
  BY <1>1, <1>2 DEF IInv, TypeOK, NetType, Plans
<1>5. \A x \in Socket : ~Finishes(x)'
  BY <1>2 DEF Finishes
<1>6. Readers' /\ EndsLast'
  BY <1>4, <1>5, ReadersOn DEF Steady, IInv
<1>7. SocketsHeard'
  BY <1>4, SocketsOn
<1>8. /\ Exits' /\ ChildrenHeard' /\ WorkersHeard' /\ OnlineDue' /\ OnlineFirst'
      /\ SpawnedHeard' /\ EndpointsHeard'
  BY <1>1, <1>2, ProcessesTold
<1> QED BY <1>3, <1>6, <1>7, <1>8 DEF Told

LEMMA ToldConnect ==
  ASSUME IInv, Told, UNCHANGED childVars, on_connect \/ on_connect_error
  PROVE  Told'
<1>1. CASE on_connect
  <2>1. Received("connect") /\ Steady /\ task = <<>> /\ ~running /\ UNCHANGED immediates
    BY <1>1, TakenSteady DEF on_connect, ProcessKind
  <2>2. Head(io_rx).of \in connecting
    BY <2>1, OutcomeTaken DEF Received
  <2>3. CASE task' = <<Emit(Head(io_rx).of, "connect")>>
    BY <1>1, <2>1, <2>2, <2>3, ToldOutcome, SeqOne DEF on_connect
  <2>4. CASE UNCHANGED <<task, sockets, reading>>
    <3>1. Plain
      BY <2>1, PlainTaken DEF ProcessKind, IInv
    <3> QED BY <1>1, <2>1, <2>4, <3>1, PlainTold DEF on_connect, Calm, IInv
  <2> QED BY <1>1, <2>1, <2>2, <2>3, <2>4 DEF on_connect
<1>2. CASE on_connect_error
  <2>1. /\ io_rx # <<>> /\ Head(io_rx).kind = "connectError" /\ io_rx' = Append(Tail(io_rx), Wake)
        /\ task = <<>> /\ ~running /\ UNCHANGED <<running, heard, immediates, used, sockets, reading>>
        /\ task' = <<Emit(Head(io_rx).of, "error")>>
    BY <1>2 DEF on_connect_error, Idle
  <2>2. Head(io_rx).of \in connecting /\ \A c : Ending(c)' = Ending(c)
    BY <2>1, OutcomeTaken
  <2>3. Wake \in Task /\ Wake.kind = "wake"
    BY TaskTypes DEF Wake, IoTask
  <2>4. Steady
    BY <2>1, <2>2, <2>3, OrderedTurn DEF Steady, ReaderKind, ProcessKind, IInv
  <2> QED BY <2>1, <2>2, <2>4, ToldOutcome
<1> QED BY <1>1, <1>2

LEMMA ToldData ==
  ASSUME IInv, Told, UNCHANGED childVars, on_socket_data
  PROVE  Told'
<1>1. /\ Steady /\ task = <<>> /\ ~running /\ UNCHANGED immediates
      /\ Head(io_rx) \in Task /\ Head(io_rx).kind = "data" /\ 1 \in DOMAIN io_rx /\ io_rx[1] = Head(io_rx)
  BY TakenSteady DEF on_socket_data, ProcessKind
<1>2. PICK s \in Socket : s = Head(io_rx).of
  BY <1>1, TaskFields
<1>3. s \in sockets /\ heard[s] # "end"
  BY <1>1, <1>2 DEF Told, Readers, ReaderKind
<1>4. s \in used /\ heard[s] \in {"nothing", "connect", "data"}
  BY <1>1, <1>3 DEF IInv, Connections, Told, SocketsHeard, SocketEvent, Plans
<1>5. task' = <<Emit(s, "data")>> /\ UNCHANGED <<running, heard, used, sockets, reading>>
  BY <1>2, <1>3 DEF on_socket_data
<1>6. /\ DOMAIN task' = {1} /\ task'[1] = Emit(s, "data")
      /\ task'[1].do = "emit" /\ task'[1].of = s /\ task'[1].event = "data"
  BY <1>5, StepDoes
<1>7. Planned'
  <2>1. Fits(s, heard[s], "data")
    BY <1>4, FollowsSocket
  <2> QED BY <1>1, <1>3, <1>4, <1>5, <1>6, <2>1, PlannedSocket DEF SocketEvent
<1>8. Readers' /\ EndsLast'
  <2>1. \A x \in Socket : ~Finishes(x)'
    BY <1>6 DEF Finishes
  <2> QED BY <1>1, <1>5, <2>1, ReadersOn DEF Steady, IInv, TypeOK, NetType
<1>9. SocketsHeard'
  BY <1>1, <1>5, SocketsOn
<1>10. /\ Exits' /\ ChildrenHeard' /\ WorkersHeard' /\ OnlineDue' /\ OnlineFirst'
       /\ SpawnedHeard' /\ EndpointsHeard'
  BY <1>1, <1>5, <1>6, ProcessesTold
<1> QED BY <1>7, <1>8, <1>9, <1>10 DEF Told

\* The last that a reader posted is taken: its socket is about to close.
LEMMA ToldEnd ==
  ASSUME IInv, Told, UNCHANGED childVars, on_socket_end \/ RunSocketError
  PROVE  Told'
<1>1. PICK k \in {"end", "broken"} : Received(k)
  BY DEF on_socket_end, RunSocketError
<1>2. /\ Steady /\ task = <<>> /\ ~running /\ UNCHANGED immediates
      /\ Head(io_rx) \in Task /\ Head(io_rx).kind = k /\ 1 \in DOMAIN io_rx /\ io_rx[1] = Head(io_rx)
      /\ io_rx' = Tail(io_rx)
  BY <1>1, TakenSteady DEF ProcessKind
<1>3. PICK s \in Socket : s = Head(io_rx).of
  BY <1>2, TaskFields
<1>4. s \in sockets /\ heard[s] # "end" /\ s \notin reading
  BY <1>2, <1>3 DEF Told, Readers, ReaderKind
<1>5. s \in used /\ heard[s] \in {"nothing", "connect", "data"}
  BY <1>2, <1>4 DEF IInv, Connections, Told, SocketsHeard, SocketEvent, Plans
<1>6. UNCHANGED <<running, heard, used, sockets, reading>>
  BY DEF on_socket_end, RunSocketError
<1>7. \/ task' = <<Emit(s, "end"), Step("close", s)>>
      \/ task' = <<Step("close", s)>>
  BY <1>3 DEF on_socket_end, RunSocketError
<1>8. \A i \in DOMAIN task' : task'[i].of = s
  BY <1>7, StepDoes
<1>9. Planned'
  <2>1. CASE task' = <<Emit(s, "end"), Step("close", s)>>
    <3>1. Fits(s, heard[s], "end")
      BY <1>5, FollowsSocket
    <3>2. task'[1] = Emit(s, "end") /\ \A i \in DOMAIN task' : task'[i].do = "emit" => i = 1
      BY <2>1, StepDoes
    <3> QED BY <1>2, <1>4, <1>5, <1>6, <3>1, <3>2, PlannedSocket DEF SocketEvent
  <2>2. CASE task' = <<Step("close", s)>>
    BY <2>2, StepDoes DEF Planned
  <2> QED BY <1>7, <2>1, <2>2
<1>10. \A x : x # s => ~Finishes(x)'
  BY <1>8 DEF Finishes
<1>11. EndsLast'
  BY <1>2, OrderedEnds DEF Told, Steady
<1>12. Readers'
  <2>1. \A x \in reading' : x \in sockets' /\ heard'[x] # "end" /\ ~Finishes(x)'
    BY <1>4, <1>6, <1>10 DEF Told, Readers
  <2>2. ASSUME NEW i \in DOMAIN io_rx', NEW x, x = io_rx'[i].of, io_rx'[i].kind \in ReaderKind
        PROVE  x \in sockets' /\ heard'[x] # "end" /\ ~Finishes(x)' /\ (io_rx'[i].kind # "data" => x \notin reading')
    <3>1. i + 1 \in DOMAIN io_rx /\ io_rx'[i] = io_rx[i + 1] /\ i \in Nat \ {0}
      BY <1>2, HeadTailProperties, LenProperties DEF IInv, TypeOK, HostType
    <3>2. x # s
      BY <1>2, <1>3, <2>2, <3>1 DEF Told, EndsLast, ReaderKind
    <3> QED BY <1>6, <1>10, <2>2, <3>1, <3>2 DEF Told, Readers
  <2> QED BY <2>1, <2>2 DEF Readers
<1>13. SocketsHeard'
  BY <1>2, <1>6, SocketsOn
<1>14. /\ Exits' /\ ChildrenHeard' /\ WorkersHeard' /\ OnlineDue' /\ OnlineFirst'
       /\ SpawnedHeard' /\ EndpointsHeard'
  BY <1>2, <1>6, <1>8, ProcessesTold
<1> QED BY <1>9, <1>11, <1>12, <1>13, <1>14 DEF Told

LEMMA ToldClose ==
  ASSUME IInv, Told, UNCHANGED childVars, on_socket_close
  PROVE  Told'
<1>1. /\ task # <<>> /\ Head(task).do = "close" /\ ~running
      /\ UNCHANGED <<io_rx, running, heard, immediates, used, reading>>
  BY DEF on_socket_close
<1>2. DOMAIN task = {1} /\ task[1] = Head(task) /\ Head(task) \in TaskStep
  <2>1. /\ Len(task) \in Nat /\ DOMAIN task = 1 .. Len(task) /\ 1 \in DOMAIN task
        /\ task[1] = Head(task) /\ Head(task) \in TaskStep
    BY <1>1, HeadTailProperties, LenProperties, EmptySeq DEF IInv, TypeOK, HostType
  <2>2. Len(task) = 1
    BY <1>1, <2>1 DEF IInv, Shaped
  <2> QED BY <2>1, <2>2
<1>3. PICK s \in Socket : s = Head(task).of
  BY <1>1, <1>2, StepFields
<1>4. Steady
  BY OrderedSame, ChannelSame, <1>1 DEF Steady
<1>5. CASE s \notin sockets
  <2>1. task' = <<>> /\ UNCHANGED sockets
    BY <1>3, <1>5 DEF on_socket_close
  <2>2. Calm /\ Plain
    BY <1>1, <1>2, <2>1 DEF Calm, Plain
  <2> QED BY <1>1, <2>1, <2>2, PlainTold DEF IInv
<1>6. CASE s \in sockets
  <2>1. task' = <<Emit(s, "close"), Step("closed", s)>> /\ sockets' = sockets \ {s}
    BY <1>3, <1>6 DEF on_socket_close
  <2>2. /\ DOMAIN task' = {1, 2} /\ task'[1] = Emit(s, "close") /\ task'[2] = Step("closed", s)
        /\ task'[1].do = "emit" /\ task'[1].of = s /\ task'[1].event = "close"
        /\ task'[2].do = "closed" /\ task'[2].of = s
    BY <2>1, StepDoes
  <2>3. \A x, e : ~Plans(x, e)
    BY <1>1, <1>2 DEF Plans
  <2>4. Finishes(s) /\ \A x : ~Finishes(x)'
    BY <1>1, <1>2, <1>3, <2>2 DEF Finishes
  <2>5. s \in used /\ heard[s] \in {"nothing", "connect", "data", "end"}
    BY <1>6, <2>3 DEF IInv, Connections, Told, SocketsHeard, SocketEvent
  <2>6. Planned'
    <3>1. Fits(s, heard[s], "close")
      BY <2>5, FollowsSocket
    <3> QED BY <1>1, <2>1, <2>2, <2>5, <3>1, PlannedSocket DEF SocketEvent
  <2>7. Readers' /\ EndsLast'
    BY <1>1, <2>1, <2>4 DEF Told, Readers, EndsLast
  <2>8. SocketsHeard'
    <3>1. Plans(s, "close")'
      BY <2>2 DEF Plans
    <3> QED BY <1>1, <2>1, <2>3, <2>5, <3>1 DEF Told, SocketsHeard
  <2>9. /\ Exits' /\ ChildrenHeard' /\ WorkersHeard' /\ OnlineDue' /\ OnlineFirst'
        /\ SpawnedHeard' /\ EndpointsHeard'
    BY <1>1, <1>2, <1>3, <1>4, <2>2, ProcessesTold
  <2> QED BY <2>6, <2>7, <2>8, <2>9 DEF Told
<1> QED BY <1>5, <1>6
----------------------------------------------------------------------------
(* The readers, and the calls that emit or post for a process. *)

\* A task that is posted is the last.
LEMMA PostedLast ==
  ASSUME TypeOK, NEW t \in Task, io_rx' = Append(io_rx, t)
  PROVE  /\ DOMAIN io_rx \subseteq DOMAIN io_rx' /\ \A i \in DOMAIN io_rx : io_rx'[i] = io_rx[i]
         /\ Len(io_rx) + 1 \in DOMAIN io_rx' /\ io_rx'[Len(io_rx) + 1] = t
         /\ \A i \in DOMAIN io_rx' : i \in Int /\ i <= Len(io_rx) + 1 /\ (i # Len(io_rx) + 1 => i \in DOMAIN io_rx)
  BY DEF TypeOK, HostType

LEMMA ToldRead ==
  ASSUME IInv, Told, UNCHANGED childVars, NEW s \in Socket,
         ReadData(s) \/ \E kind \in {"end", "broken"} : ReadEnd(s, kind)
  PROVE  Told'
<1>1. PICK t \in Task : /\ io_rx' = Append(io_rx, t) /\ t.of = s
                        /\ \/ t.kind = "data" /\ UNCHANGED reading
                           \/ t.kind \in {"end", "broken"} /\ reading' = reading \ {s}
  BY TaskTypes DEF ReadData, ReadEnd, Post, IoTask
<1>2. s \in reading /\ UNCHANGED <<task, running, heard, used, sockets, immediates>>
  BY DEF ReadData, ReadEnd
<1>3. t.kind \notin ProcessKind
  BY <1>1 DEF ProcessKind
<1>4. OnlineKept /\ Ordered(ProcessKind)
  BY <1>1, <1>3, OrderedAppend DEF IInv
<1>5. \A c : Ending(c)' = Ending(c)
  <2>1. \A c : Ending(c)' = Ending(c) + 0
    BY <1>1, <1>3, Posting DEF IInv, ProcessKind
  <2> QED BY <2>1, CountTypes DEF IInv
<1>6. Calm
  BY <1>2 DEF Calm
<1>7. /\ Planned' /\ SocketsHeard' /\ Exits' /\ ChildrenHeard' /\ WorkersHeard' /\ OnlineDue'
      /\ OnlineFirst' /\ SpawnedHeard' /\ EndpointsHeard'
  BY <1>2, <1>4, <1>5, <1>6, CalmPlanned, CalmSockets, OrderedExits, CalmChildren, CalmWorkers, CalmOnline,
     OrderedOnline, CalmSpawned, SameEndpoints DEF Told
<1>8. Readers'
  <2>1. \A x : Finishes(x)' <=> Finishes(x)
    BY <1>2 DEF Finishes
  <2>2. s \in sockets /\ heard[s] # "end" /\ ~Finishes(s)
    BY <1>2 DEF Told, Readers
  <2>3. reading' \subseteq reading /\ (t.kind # "data" => s \notin reading')
    BY <1>1
  <2>4. \A x \in reading' : x \in sockets' /\ heard'[x] # "end" /\ ~Finishes(x)'
    BY <1>2, <2>1, <2>3 DEF Told, Readers
  <2>5. ASSUME NEW i \in DOMAIN io_rx', NEW x, x = io_rx'[i].of, io_rx'[i].kind \in ReaderKind
        PROVE  x \in sockets' /\ heard'[x] # "end" /\ ~Finishes(x)' /\ (io_rx'[i].kind # "data" => x \notin reading')
    <3>1. CASE i \in DOMAIN io_rx
      <4>1. io_rx'[i] = io_rx[i]
        BY <1>1, <3>1, PostedLast DEF IInv
      <4> QED BY <1>2, <2>1, <2>3, <2>5, <3>1, <4>1 DEF Told, Readers
    <3>2. CASE i \notin DOMAIN io_rx
      <4>1. io_rx'[i] = t
        BY <1>1, <3>2, PostedLast DEF IInv
      <4> QED BY <1>1, <1>2, <2>1, <2>2, <2>3, <2>5, <4>1
    <3> QED BY <3>1, <3>2
  <2> QED BY <2>4, <2>5 DEF Readers
<1>9. EndsLast'
  <2> SUFFICES ASSUME NEW i \in DOMAIN io_rx', NEW j \in DOMAIN io_rx',
                      io_rx'[i].kind \in ReaderKind, io_rx'[j].kind \in ReaderKind,
                      io_rx'[i].of = io_rx'[j].of, io_rx'[i].kind # "data"
               PROVE  j <= i
    BY DEF EndsLast
  <2>1. CASE i \in DOMAIN io_rx
    <3>1. io_rx[i] = io_rx'[i]
      BY <1>1, <2>1, PostedLast DEF IInv
    <3>2. io_rx[i].of # s
      BY <1>2, <2>1, <3>1 DEF Told, Readers
    <3>3. j \in DOMAIN io_rx /\ io_rx[j] = io_rx'[j]
      BY <1>1, <3>1, <3>2, PostedLast DEF IInv
    <3> QED BY <2>1, <3>1, <3>3 DEF Told, EndsLast
  <2>2. CASE i \notin DOMAIN io_rx
    BY <1>1, <2>2, PostedLast DEF IInv
  <2> QED BY <2>1, <2>2
<1> QED BY <1>7, <1>8, <1>9 DEF Told

LEMMA ToldCloseEndpoint ==
  ASSUME IInv, Told, UNCHANGED childVars, NEW e \in Endpoint, CloseEndpoint(e)
  PROVE  Told'
<1>1. /\ running /\ UNCHANGED <<task, running, used, sockets, reading, immediates>>
      /\ heard' = [heard EXCEPT ![e] = "close"]
  BY Calling DEF CloseEndpoint, IInv
<1>2. /\ \A o \in Emitter : o # e => heard'[o] = heard[o]
      /\ heard'[e] = "close" /\ \A o : o \notin Endpoint => heard'[o] = heard[o]
  BY <1>1, EndpointAssumption DEF IInv, TypeOK, HostType
<1>3. /\ e \notin Socket \cup Live \cup Spawned /\ Child \subseteq Live /\ Worker \subseteq Live
      /\ Socket \cup Live \cup Spawned \subseteq Emitter /\ Endpoint \subseteq Emitter
  BY EmitterAssumption, EndpointAssumption DEF Live
<1>4. Plain
  BY TaskTypes DEF CloseEndpoint, Post, Plain, Wake, IoTask, ReaderKind, ProcessKind
<1>5. OnlineKept /\ Ordered(ReaderKind) /\ Ordered(ProcessKind) /\ \A c : Ending(c)' = Ending(c)
  BY <1>4, PlainChannel DEF IInv
<1>6. Planned'
  <2> SUFFICES ASSUME NEW i \in DOMAIN task, task[i].do = "emit"
               PROVE  InLine(i)' /\ InPlace(i)'
    BY <1>1 DEF Planned
  <2>1. InLine(i) /\ InPlace(i)
    BY DEF Planned, Told
  <2>2. heard'[task[i].of] = heard[task[i].of]
    BY <1>1, <1>2, <2>1 DEF InPlace
  <2> QED BY <1>1, <2>1, <2>2 DEF InLine, InPlace, Fits, Drops
<1>7. (\A x : Finishes(x)' <=> Finishes(x)) /\ \A o, event : Plans(o, event)' <=> Plans(o, event)
  BY <1>1 DEF Finishes, Plans
<1>8. Readers'
  <2>1. \A i \in DOMAIN io_rx' : io_rx'[i].kind \in ReaderKind => \E k \in DOMAIN io_rx : io_rx[k] = io_rx'[i]
    BY <1>5 DEF Ordered
  <2>2. sockets \subseteq Socket
    BY DEF IInv, TypeOK, NetType
  <2>3. \A s \in Socket : heard'[s] = heard[s]
    BY <1>2, <1>3
  <2> QED BY <1>1, <1>7, <2>1, <2>2, <2>3 DEF Told, Readers
<1>9. SocketsHeard' /\ ChildrenHeard'
  BY <1>1, <1>2, <1>3, <1>5, <1>7 DEF Told, SocketsHeard, ChildrenHeard
<1>10. WorkersHeard'
  <2>1. \A w : Comes(w) => Comes(w)'
    BY <1>5 DEF Comes, OnlineKept
  <2> QED BY <1>2, <1>3, <1>5, <1>7, <2>1 DEF Told, WorkersHeard
<1>11. OnlineDue'
  <2>1. \A c : Mentions(c)' <=> Mentions(c)
    BY <1>1 DEF Mentions
  <2>2. \A w \in Worker : heard'[w] = heard[w]
    BY <1>2, <1>3
  <2> QED BY <1>5, <2>1, <2>2, OrderedDue DEF OnlineDue, Told
<1>12. SpawnedHeard'
  <2>1. \A i \in DOMAIN immediates : immediates[i] \in Spawned
    BY LenProperties, ElementOfSeq DEF IInv, TypeOK, HostType
  <2> QED BY <1>1, <1>2, <1>3, <2>1 DEF SpawnedHeard, Told
<1>13. Exits' /\ EndsLast' /\ OnlineFirst'
  BY <1>5, OrderedExits, OrderedEnds, OrderedOnline DEF Told
<1>14. EndpointsHeard'
  BY <1>2, <1>3 DEF Told, EndpointsHeard
<1> QED BY <1>6, <1>8, <1>9, <1>10, <1>11, <1>12, <1>13, <1>14 DEF Told

LEMMA ToldFork ==
  ASSUME IInv, Told, UNCHANGED netVars, NEW c \in Child, fork(c)
  PROVE  Told'
<1>1. Calm
  BY CallCalm DEF fork, IInv
<1>2. Plain /\ UNCHANGED <<heard, sockets, reading, immediates, used>>
  BY DEF fork, Quiet, Plain
<1>3. OnlineKept /\ Ordered(ReaderKind) /\ Ordered(ProcessKind) /\ \A x : Ending(x)' = Ending(x)
  BY <1>2, PlainChannel DEF IInv
<1>4. /\ process[c] = "none" /\ process' = [process EXCEPT ![c] = "running"] /\ CHILDREN' = CHILDREN \cup {c}
      /\ process \in [Live -> {"none", "running", "reaped"}]
  BY DEF fork, IInv, TypeOK, ChildType
<1>5. \A x \in Child : heard[x] # "nothing" => process'[x] = process[x]
  BY <1>4 DEF Live, Told, ChildrenHeard
<1>6. \A w \in Worker : process'[w] = process[w]
  BY <1>4, EmitterAssumption DEF Live
<1> QED BY <1>1, <1>2, <1>3, <1>4, <1>5, <1>6, CalmTold

LEMMA ToldSpawn ==
  ASSUME IInv, Told, UNCHANGED netVars, NEW s \in Spawned, spawn(s)
  PROVE  Told'
<1>1. Calm /\ running /\ UNCHANGED task
  BY CallCalm, Calling DEF spawn, IInv
<1>2. Plain /\ UNCHANGED <<heard, sockets, reading, used, childVars>>
  BY DEF spawn, Plain
<1>3. OnlineKept /\ Ordered(ReaderKind) /\ Ordered(ProcessKind) /\ \A x : Ending(x)' = Ending(x)
  BY <1>2, PlainChannel DEF IInv
<1>4. /\ Planned' /\ Readers' /\ EndsLast' /\ SocketsHeard' /\ Exits' /\ ChildrenHeard' /\ WorkersHeard'
      /\ OnlineDue' /\ OnlineFirst' /\ EndpointsHeard'
  BY <1>1, <1>2, <1>3, CalmPlanned, CalmReaders, OrderedEnds, CalmSockets, OrderedExits, CalmChildren,
     CalmWorkers, CalmOnline, OrderedOnline, SameEndpoints DEF Told
<1>5. SpawnedHeard'
  <2>1. heard[s] = "nothing" /\ \A i \in DOMAIN immediates : immediates[i] # s
    BY DEF spawn
  <2>2. \A k \in DOMAIN task : task[k].do = "emit" => task[k].of # s
    BY <1>1, <2>1 DEF Told, Planned, InPlace
  <2>3. /\ \A i \in DOMAIN immediates' : i \in Int /\ (i \in DOMAIN immediates \/ i = Len(immediates) + 1)
        /\ \A i \in DOMAIN immediates : immediates'[i] = immediates[i]
        /\ immediates'[Len(immediates) + 1] = s
    BY DEF spawn, IInv, TypeOK, HostType
  <2> QED BY <1>1, <1>2, <2>1, <2>2, <2>3 DEF Told, SpawnedHeard
<1> QED BY <1>4, <1>5 DEF Told

LEMMA ToldReap ==
  ASSUME IInv, Told, UNCHANGED netVars, NEW c \in Live, Reap(c)
  PROVE  Told'
<1>1. PICK t \in Task : /\ io_rx' = Append(io_rx, t) /\ t.of = c
                        /\ t.kind = IF c \in Child THEN "childExit" ELSE "workerExit"
  BY TaskTypes DEF Reap, IoTask
<1>2. /\ process[c] = "running" /\ process' = [process EXCEPT ![c] = "reaped"]
      /\ process \in [Live -> {"none", "running", "reaped"}]
      /\ UNCHANGED <<task, running, heard, immediates, used, sockets, reading, CHILDREN>>
  BY DEF Reap, IInv, TypeOK, ChildType
<1>3. Calm
  BY <1>2 DEF Calm
<1>4. OnlineKept /\ Ordered(ReaderKind)
  BY <1>1, OrderedAppend DEF IInv, ReaderKind
<1>5. \A x : x # c => Ending(x)' = Ending(x)
  <2>1. \A x : x # c => Ending(x)' = Ending(x) + 0
    BY <1>1, Posting DEF IInv
  <2> QED BY <2>1, CountTypes DEF IInv
<1>6. /\ \A x \in Live : x # c => process'[x] = process[x]
      /\ process'[c] = "reaped" /\ Child \subseteq Live /\ Worker \subseteq Live
      /\ c \notin Child => c \in Worker
  BY <1>2 DEF Live
<1>7. Planned' /\ Readers' /\ EndsLast' /\ SocketsHeard' /\ SpawnedHeard' /\ EndpointsHeard'
  BY <1>2, <1>3, <1>4, CalmPlanned, CalmReaders, OrderedEnds, CalmSockets, CalmSpawned, SameEndpoints DEF Told
<1>8. /\ \A i \in DOMAIN io_rx' : i \notin DOMAIN io_rx => io_rx'[i] = t
      /\ \A i \in DOMAIN io_rx : io_rx'[i] = io_rx[i]
  BY <1>1, PostedLast DEF IInv
<1>9. Exits'
  BY <1>1, <1>6, <1>8 DEF Told, Exits
<1>10. ChildrenHeard'
  BY <1>2, <1>5, <1>6 DEF Told, ChildrenHeard
<1>11. WorkersHeard'
  <2>1. \A w : Plans(w, "online")' <=> Plans(w, "online")
    BY <1>2 DEF Plans
  <2>2. \A w : Comes(w) => Comes(w)'
    BY <1>4 DEF Comes, OnlineKept
  <2>3. ASSUME NEW w \in Worker
        PROVE  /\ process'[w] = "none" <=> heard[w] = "nothing"
               /\ heard[w] \in {"exit", "clusterExit"} => process'[w] = "reaped" /\ Ending(w)' = 0
    BY <1>2, <1>5, <1>6 DEF Told, WorkersHeard
  <2> QED BY <1>2, <2>1, <2>2, <2>3 DEF Told, WorkersHeard
<1>12. OnlineDue' /\ OnlineFirst'
  <2>1. \A i \in DOMAIN io_rx' : io_rx'[i].kind = "online" => i \in DOMAIN io_rx
    BY <1>1, <1>8
  <2>2. \A x : Mentions(x)' <=> Mentions(x)
    BY <1>2 DEF Mentions
  <2>3. OnlineDue'
    BY <1>2, <1>8, <2>1, <2>2 DEF Told, OnlineDue
  <2>4. ASSUME NEW i \in DOMAIN io_rx', NEW j \in DOMAIN io_rx', io_rx'[i].kind = "online",
               io_rx'[j].kind \in {"online", "workerExit"}, io_rx'[i].of = io_rx'[j].of
        PROVE  i <= j
    <3>1. i \in DOMAIN io_rx
      BY <2>1, <2>4
    <3>2. CASE j \in DOMAIN io_rx
      BY <1>8, <2>4, <3>1, <3>2 DEF Told, OnlineFirst
    <3>3. CASE j \notin DOMAIN io_rx
      BY <1>1, <3>1, <3>3, PostedLast DEF IInv
    <3> QED BY <3>2, <3>3
  <2> QED BY <2>3, <2>4 DEF OnlineFirst
<1> QED BY <1>7, <1>9, <1>10, <1>11, <1>12 DEF Told

LEMMA ToldClusterFork ==
  ASSUME IInv, Told, UNCHANGED netVars, NEW w \in Worker, cluster_fork(w)
  PROVE  Told'
<1>1. PICK t \in Task : io_rx' = Append(io_rx, t) /\ t.of = w /\ t.kind = "online"
  <2>1. IoTask("online", w, 0) \in Task
    BY TaskTypes DEF Live
  <2> QED BY <2>1 DEF cluster_fork, IoTask
<1>2. /\ running /\ UNCHANGED <<task, running, immediates, used, sockets, reading>>
      /\ process[w] = "none" /\ process' = [process EXCEPT ![w] = "running"] /\ CHILDREN' = CHILDREN \cup {w}
      /\ heard' = [heard EXCEPT ![w] = "fork"]
  BY Calling DEF cluster_fork, IInv
<1>3. /\ w \notin Socket \cup Endpoint \cup Child \cup Spawned /\ w \in Emitter /\ w \in Live
      /\ Child \subseteq Live /\ Worker \subseteq Live /\ Live \subseteq Emitter
  BY EmitterAssumption DEF Live
<1>4. /\ heard[w] = "nothing" /\ heard'[w] = "fork" /\ \A o : o # w => heard'[o] = heard[o]
      /\ process'[w] = "running" /\ \A c \in Live : c # w => process'[c] = process[c]
  <2>1. heard[w] = "nothing"
    BY <1>2 DEF Told, WorkersHeard
  <2>2. DOMAIN heard = Emitter /\ DOMAIN process = Live
    BY DEF IInv, TypeOK, HostType, ChildType
  <2> QED BY <1>2, <1>3, <2>1, <2>2
<1>5. Ending(w) = 0 /\ ~Drops(w)
  <2>1. Ending(w) \in Nat /\ Releasing(w) \in Nat
    BY CountTypes DEF IInv
  <2>2. Ending(w) = 0
    BY <1>2, <1>3, <2>1 DEF IInv, Processes
  <2>3. ~Drops(w)
    BY <1>2, <1>3, DropsSome
  <2> QED BY <2>2, <2>3
<1>6. ~Mentions(w)
  BY <1>2, <1>4, <1>5 DEF Mentions, Drops, Told, Planned, InPlace
<1>7. OnlineKept /\ Ordered(ReaderKind)
  BY <1>1, OrderedAppend DEF IInv, ReaderKind
<1>8. \A c : Ending(c)' = Ending(c)
  <2>1. \A c : Ending(c)' = Ending(c) + 0
    BY <1>1, Posting DEF IInv
  <2> QED BY <2>1, CountTypes DEF IInv
<1>9. /\ \A i \in DOMAIN io_rx' : i \notin DOMAIN io_rx => io_rx'[i] = t
      /\ \A i \in DOMAIN io_rx : io_rx'[i] = io_rx[i]
      /\ Len(io_rx) + 1 \in DOMAIN io_rx'
  BY <1>1, PostedLast DEF IInv
<1>10. Planned'
  <2> SUFFICES ASSUME NEW i \in DOMAIN task, task[i].do = "emit"
               PROVE  InLine(i)' /\ InPlace(i)'
    BY <1>2 DEF Planned
  <2>1. InLine(i) /\ InPlace(i)
    BY DEF Planned, Told
  <2>2. task[i].of # w
    BY <1>6 DEF Mentions
  <2>3. heard'[task[i].of] = heard[task[i].of]
    BY <1>4, <2>2
  <2> QED BY <1>2, <2>1, <2>3 DEF InLine, InPlace, Fits, Drops
<1>11. (\A x : Finishes(x)' <=> Finishes(x)) /\ \A o, event : Plans(o, event)' <=> Plans(o, event)
  BY <1>2 DEF Finishes, Plans
<1>12. Readers' /\ SocketsHeard'
  <2>1. \A s \in Socket : heard'[s] = heard[s]
    BY <1>3, <1>4
  <2>2. \A i \in DOMAIN io_rx' : io_rx'[i].kind \in ReaderKind => i \in DOMAIN io_rx
    BY <1>1, <1>9 DEF ReaderKind
  <2>3. sockets \subseteq Socket
    BY DEF IInv, TypeOK, NetType
  <2>4. Readers'
    BY <1>2, <1>9, <1>11, <2>1, <2>2, <2>3 DEF Told, Readers
  <2>5. SocketsHeard'
    BY <1>2, <1>11, <2>1 DEF Told, SocketsHeard
  <2> QED BY <2>4, <2>5
<1>13. Exits' /\ EndsLast'
  BY <1>1, <1>7, <1>9, OrderedEnds DEF Told, Exits
<1>14. ChildrenHeard'
  BY <1>3, <1>4, <1>8 DEF Told, ChildrenHeard
<1>15. WorkersHeard'
  <2>1. \A x : Comes(x) => Comes(x)'
    BY <1>7 DEF Comes, OnlineKept
  <2>2. Comes(w)'
    BY <1>1, <1>9, PostedLast DEF Comes, IInv
  <2> QED BY <1>3, <1>4, <1>8, <1>11, <2>1, <2>2 DEF Told, WorkersHeard
<1>16. OnlineDue'
  <2>1. \A c : Mentions(c)' <=> Mentions(c)
    BY <1>2 DEF Mentions
  <2>2. ASSUME NEW i \in DOMAIN io_rx', io_rx'[i].kind = "online"
        PROVE  /\ io_rx'[i].of \in Worker /\ heard'[io_rx'[i].of] = "fork" /\ io_rx'[i].of \in CHILDREN'
               /\ ~Mentions(io_rx[i].of)'
    <3>1. CASE i \in DOMAIN io_rx
      BY <1>2, <1>4, <1>9, <2>1, <2>2, <3>1 DEF Told, OnlineDue
    <3>2. CASE i \notin DOMAIN io_rx
      BY <1>1, <1>2, <1>4, <1>6, <1>9, <2>1, <3>2
    <3> QED BY <3>1, <3>2
  <2> QED BY <2>2 DEF OnlineDue
<1>17. OnlineFirst'
  <2> SUFFICES ASSUME NEW i \in DOMAIN io_rx', NEW j \in DOMAIN io_rx', io_rx'[i].kind = "online",
                      io_rx'[j].kind \in {"online", "workerExit"}, io_rx'[i].of = io_rx'[j].of
               PROVE  i <= j
    BY DEF OnlineFirst
  <2>1. CASE j \notin DOMAIN io_rx
    BY <1>1, <2>1, PostedLast DEF IInv
  <2>2. CASE j \in DOMAIN io_rx
    <3>1. io_rx[j] = io_rx'[j] /\ io_rx[j].of # w
      <4>1. io_rx[j] = io_rx'[j]
        BY <1>9, <2>2
      <4>2. io_rx[j].kind = "online" => heard[io_rx[j].of] = "fork"
        BY <2>2 DEF Told, OnlineDue
      <4>3. io_rx[j].kind = "workerExit" => Ending(io_rx[j].of) # 0
        BY <2>2, EndingSome DEF IInv
      <4> QED BY <1>4, <1>5, <4>1, <4>2, <4>3
    <3>2. i \in DOMAIN io_rx /\ io_rx[i] = io_rx'[i]
      BY <1>1, <1>9, <3>1
    <3> QED BY <2>2, <3>1, <3>2 DEF Told, OnlineFirst
  <2> QED BY <2>1, <2>2
<1>18. SpawnedHeard'
  <2>1. \A i \in DOMAIN immediates : immediates[i] \in Spawned
    BY LenProperties, ElementOfSeq DEF IInv, TypeOK, HostType
  <2> QED BY <1>2, <1>3, <1>4, <2>1 DEF Told, SpawnedHeard
<1>19. EndpointsHeard'
  BY <1>3, <1>4 DEF Told, EndpointsHeard
<1> QED BY <1>10, <1>12, <1>13, <1>14, <1>15, <1>16, <1>17, <1>18, <1>19 DEF Told
----------------------------------------------------------------------------
(* The steps that plan the events of a process. *)

LEMMA PlannedProcess ==
  ASSUME NEW o, o \in Live \cup Spawned, ~running', UNCHANGED heard,
         \A k \in DOMAIN task' : task'[k].do = "emit" =>
           /\ task'[k].of = o /\ task'[1].of = o
           /\ k = 1 => Fits(o, heard[o], task'[k].event)
           /\ k > 1 => task'[k - 1].do = "emit" /\ Fits(o, task'[k - 1].event, task'[k].event)
           /\ task'[k].event = "online" => k = 1
           /\ o \in Worker => heard[o] # "nothing" /\ task'[k].event \in WorkerEvent
           /\ o \in Child \/ (o \in Worker /\ task'[k].event \in {"exit", "clusterExit"}) => Drops(o)'
  PROVE  Planned'
<1> SUFFICES ASSUME NEW k \in DOMAIN task', task'[k].do = "emit"
             PROVE  InLine(k)' /\ InPlace(k)'
  BY DEF Planned
<1>1. o \notin Socket \cup Endpoint
  BY EmitterAssumption
<1>2. task'[k].of = o
  OBVIOUS
<1>3. InLine(k)'
  BY <1>2 DEF InLine, Fits
<1>4. Drops(o)' => Drops(task[k].of)'
  BY <1>2
<1>5. InPlace(k)'
  BY <1>1, <1>2, <1>4 DEF InPlace
<1> QED BY <1>3, <1>5

LEMMA SocketsTold ==
  ASSUME IInv, Told, task = <<>>, Ordered(ReaderKind), UNCHANGED <<heard, used, sockets, reading>>,
         \A k \in DOMAIN task' : task'[k].of \in Live \cup Spawned
  PROVE  Readers' /\ EndsLast' /\ SocketsHeard' /\ EndpointsHeard'
<1>1. \A x \in Socket : ~Finishes(x)'
  BY EmitterAssumption DEF Finishes
<1>2. sockets' \subseteq Socket
  BY DEF IInv, TypeOK, NetType
<1> QED BY <1>1, <1>2, ReadersOn, SocketsOn, SameEndpoints DEF Told, IInv

LEMMA EndingTaken ==
  ASSUME IInv, NEW k, Received(k)
  PROVE  \A x : x # Head(io_rx).of => Ending(x)' = Ending(x)
<1>1. \A x : x # Head(io_rx).of => Ending(x)' = Ending(x) - 0
  BY Taking, Removing DEF IInv
<1> QED BY <1>1, CountTypes DEF IInv

LEMMA TailPlaces ==
  ASSUME IInv, NEW k, Received(k)
  PROVE  /\ 1 \in DOMAIN io_rx /\ io_rx[1] = Head(io_rx) /\ Head(io_rx).kind = k
         /\ \A i \in DOMAIN io_rx : i # 1 => i - 1 \in DOMAIN io_rx' /\ io_rx'[i - 1] = io_rx[i]
         /\ \A i \in DOMAIN io_rx' : i \in Nat \ {0} /\ i + 1 \in DOMAIN io_rx /\ io_rx'[i] = io_rx[i + 1]
<1>1. io_rx \in Seq(Task) /\ io_rx # <<>> /\ io_rx' = Tail(io_rx) /\ Head(io_rx).kind = k
  BY Taking DEF IInv, TypeOK, HostType
<1> QED BY <1>1, HeadTailProperties, LenProperties, EmptySeq

LEMMA ComesTaken ==
  ASSUME IInv, NEW k, Received(k), NEW w, w # Head(io_rx).of, Comes(w)
  PROVE  Comes(w)'
<1>1. PICK i \in DOMAIN io_rx : io_rx[i].kind = "online" /\ io_rx[i].of = w
  BY DEF Comes
<1>2. i # 1
  BY <1>1, TailPlaces
<1>3. i - 1 \in DOMAIN io_rx' /\ io_rx'[i - 1] = io_rx[i]
  BY <1>2, TailPlaces
<1> QED BY <1>1, <1>3 DEF Comes

LEMMA NothingPlanned == task = <<>> => \A o, event : ~Plans(o, event)
  BY DEF Plans

LEMMA ToldTaken ==
  ASSUME IInv, Told, NEW k \in ProcessKind, Received(k), NEW o, o = Head(io_rx).of,
         UNCHANGED <<running, heard, used, sockets, reading, childVars>>, Planned',
         \A i \in DOMAIN task' : task'[i].of = o,
         o \in Child => heard[o] = "nothing",
         o \in Worker => heard[o] \in {"fork", "online", "clusterOnline"},
         heard[o] = "fork" => Plans(o, "online")',
         \A i \in DOMAIN io_rx' : io_rx'[i].kind = "online" => io_rx'[i].of # o
  PROVE  Told'
<1>1. /\ io_rx # <<>> /\ Head(io_rx) \in Task /\ Head(io_rx).kind = k /\ io_rx' = Tail(io_rx)
      /\ task = <<>> /\ UNCHANGED immediates
  BY Taking DEF IInv, Idle
<1>2. o \in Live /\ o \notin Spawned
  BY <1>1, TaskFields, EmitterAssumption DEF ProcessKind, Live
<1>3. Ordered(ReaderKind) /\ Ordered(ProcessKind)
  BY <1>1, OrderedTail DEF IInv
<1>4. \A x : x # o => Ending(x)' = Ending(x)
  BY EndingTaken
<1>5. Readers' /\ EndsLast' /\ SocketsHeard' /\ EndpointsHeard'
  BY <1>1, <1>2, <1>3, SocketsTold
<1>6. Exits' /\ OnlineFirst'
  BY <1>3, OrderedExits, OrderedOnline DEF Told
<1>7. ChildrenHeard'
  BY <1>4 DEF Told, ChildrenHeard
<1>8. WorkersHeard'
  <2>1. \A w : ~Plans(w, "online")
    BY <1>1, NothingPlanned
  <2>2. \A w : w # o /\ Comes(w) => Comes(w)'
    BY ComesTaken
  <2>3. \A w \in Worker : w # o =>
          /\ heard[w] = "fork" => Comes(w)'
          /\ heard[w] \in {"exit", "clusterExit"} => process[w] = "reaped" /\ Ending(w)' = 0
    BY <1>4, <2>1, <2>2 DEF Told, WorkersHeard
  <2> QED BY <2>3 DEF Told, WorkersHeard
<1>9. OnlineDue'
  <2>1. \A w : w # o => ~Mentions(w)'
    BY DEF Mentions
  <2>2. ASSUME NEW i \in DOMAIN io_rx', io_rx'[i].kind = "online"
        PROVE  /\ io_rx'[i].of \in Worker /\ heard'[io_rx'[i].of] = "fork" /\ io_rx'[i].of \in CHILDREN'
               /\ ~Mentions(io_rx[i].of)'
    <3>1. PICK j \in DOMAIN io_rx : io_rx[j] = io_rx'[i]
      BY <1>3, <2>2, OrderedDue
    <3> QED BY <2>1, <2>2, <3>1 DEF Told, OnlineDue
  <2> QED BY <2>2 DEF OnlineDue
<1>10. SpawnedHeard'
  <2>1. \A i \in DOMAIN immediates : immediates[i] \in Spawned
    BY LenProperties, ElementOfSeq DEF IInv, TypeOK, HostType
  <2> QED BY <1>1, <1>2, <2>1 DEF Told, SpawnedHeard
<1> QED BY <1>5, <1>6, <1>7, <1>8, <1>9, <1>10 DEF Told

\* The end of a process is received: nothing of it was heard since it went online.
LEMMA EndReceived ==
  ASSUME IInv, Told, NEW k \in {"childExit", "workerExit"}, Received(k)
  PROVE  LET c == Head(io_rx).of IN
         /\ k = "childExit" => c \in Child /\ heard[c] = "nothing"
         /\ k = "workerExit" => c \in Worker /\ heard[c] \in {"online", "clusterOnline"}
         /\ \A i \in DOMAIN io_rx' : io_rx'[i].kind = "online" => io_rx'[i].of # c
<1> DEFINE c == Head(io_rx).of
<1>1. /\ io_rx # <<>> /\ Head(io_rx).kind = k /\ io_rx' = Tail(io_rx) /\ task = <<>>
      /\ 1 \in DOMAIN io_rx /\ io_rx[1] = Head(io_rx) /\ \A i \in DOMAIN io_rx : i \in Nat \ {0}
  BY Taking, HeadTailProperties, LenProperties, EmptySeq DEF IInv, Idle, TypeOK, HostType
<1>2. Ending(c) # 0
  BY <1>1, EndingSome DEF IInv
<1>3. (k = "childExit" => c \in Child) /\ (k = "workerExit" => c \in Worker)
  BY <1>1 DEF Told, Exits
<1>4. Child \subseteq Live /\ Worker \subseteq Live /\ Child \cap Worker = {}
  BY EmitterAssumption DEF Live
<1>5. process[c] = "reaped"
  <2>1. Ending(c) \in Nat /\ Releasing(c) \in Nat
    BY CountTypes DEF IInv
  <2>2. c \in Live
    BY <1>3, <1>4
  <2> QED BY <1>2, <2>1, <2>2 DEF IInv, Processes
<1>6. k = "childExit" => heard[c] = "nothing"
  BY <1>2, <1>3 DEF Told, ChildrenHeard
<1>7. ASSUME k = "workerExit" PROVE heard[c] \in {"online", "clusterOnline"}
  <2>1. c \in Worker
    BY <1>3, <1>7
  <2>2. heard[c] \notin {"nothing", "exit", "clusterExit"} /\ heard[c] \in WorkerEvent \cup {"nothing", "fork"}
    BY <1>2, <1>5, <2>1 DEF Told, WorkersHeard
  <2>3. ~Plans(c, "online")
    BY <1>1 DEF Plans
  <2>4. ~Comes(c)
    <3> SUFFICES ASSUME NEW i \in DOMAIN io_rx, io_rx[i].kind = "online", io_rx[i].of = c PROVE FALSE
      BY DEF Comes
    <3>1. i <= 1
      BY <1>1, <1>7 DEF Told, OnlineFirst
    <3> QED BY <1>1, <1>7, <3>1
  <2>5. heard[c] # "fork"
    BY <2>1, <2>3, <2>4 DEF Told, WorkersHeard
  <2> QED BY <2>2, <2>5 DEF WorkerEvent
<1>8. \A i \in DOMAIN io_rx' : io_rx'[i].kind = "online" => io_rx'[i].of # c
  <2>1. \A i \in DOMAIN io_rx' : \E j \in DOMAIN io_rx : io_rx[j] = io_rx'[i]
    BY <1>1, HeadTailProperties, LenProperties DEF IInv, TypeOK, HostType
  <2>2. \A j \in DOMAIN io_rx : io_rx[j].kind = "online" => io_rx[j].of \in Worker /\ heard[io_rx[j].of] = "fork"
    BY DEF Told, OnlineDue
  <2>3. k = "childExit" \/ k = "workerExit"
    OBVIOUS
  <2> QED BY <1>3, <1>4, <1>7, <2>1, <2>2, <2>3
<1> QED BY <1>3, <1>6, <1>7, <1>8

LEMMA ToldExit ==
  ASSUME IInv, Told, UNCHANGED netVars, on_child_exit \/ dispatch_exit
  PROVE  Told'
<1>1. PICK k \in {"childExit", "workerExit"}, last \in {"close", "clusterExit"}, c \in {Head(io_rx).of} :
        /\ Received(k) /\ UNCHANGED <<running, heard, childVars>>
        /\ task' = <<Emit(c, "exit"), Emit(c, last), Step("release", c)>>
        /\ k = "childExit" <=> last = "close"
  BY DEF on_child_exit, dispatch_exit
<1>2. /\ k = "childExit" => c \in Child /\ heard[c] = "nothing"
      /\ k = "workerExit" => c \in Worker /\ heard[c] \in {"online", "clusterOnline"}
      /\ \A i \in DOMAIN io_rx' : io_rx'[i].kind = "online" => io_rx'[i].of # c
  BY <1>1, EndReceived
<1>3. c \in Live /\ Child \cap Worker = {}
  BY <1>2, EmitterAssumption DEF Live
<1>4. /\ DOMAIN task' = {1, 2, 3} /\ \A i \in DOMAIN task' : task'[i].of = c
      /\ task'[1].do = "emit" /\ task'[1].event = "exit"
      /\ task'[2].do = "emit" /\ task'[2].event = last /\ task'[3].do = "release"
  <2>1. /\ DOMAIN task' = {1, 2, 3} /\ task'[1] = Emit(c, "exit") /\ task'[2] = Emit(c, last)
        /\ task'[3] = Step("release", c)
    BY <1>1
  <2> QED BY <2>1, StepDoes
<1>5. ~running'
  BY <1>1 DEF Received, Idle
<1>6. Fits(c, heard[c], "exit") /\ Fits(c, "exit", last)
  BY <1>1, <1>2, FollowsChild, FollowsWorker
<1>7. Drops(c)'
  BY <1>4 DEF Drops
<1>8. c \in Worker => heard[c] # "nothing" /\ last = "clusterExit"
  BY <1>1, <1>2, <1>3
<1>9. Planned'
  BY <1>1, <1>3, <1>4, <1>5, <1>6, <1>7, <1>8, PlannedProcess DEF WorkerEvent
<1>10. /\ c \in Child => heard[c] = "nothing"
       /\ c \in Worker => heard[c] \in {"fork", "online", "clusterOnline"}
       /\ heard[c] # "fork"
  BY <1>2, <1>3
<1> QED BY <1>1, <1>2, <1>4, <1>9, <1>10, ToldTaken DEF ProcessKind

LEMMA ToldOnline ==
  ASSUME IInv, Told, UNCHANGED netVars, dispatch_online
  PROVE  Told'
<1>1. /\ Received("online") /\ UNCHANGED <<running, heard, childVars>> /\ ~running
      /\ 1 \in DOMAIN io_rx /\ io_rx[1] = Head(io_rx) /\ Head(io_rx).kind = "online"
  BY TailPlaces DEF dispatch_online, Received, Idle
<1>2. PICK w \in Worker : w = Head(io_rx).of /\ heard[w] = "fork" /\ w \in CHILDREN
  BY <1>1 DEF Told, OnlineDue
<1>3. w \in Live /\ w \notin Child
  BY EmitterAssumption DEF Live
<1>4. task' = <<Emit(w, "online"), Emit(w, "clusterOnline")>>
  BY <1>2 DEF dispatch_online
<1>5. /\ DOMAIN task' = {1, 2} /\ \A i \in DOMAIN task' : task'[i].of = w
      /\ task'[1].do = "emit" /\ task'[1].event = "online"
      /\ task'[2].do = "emit" /\ task'[2].event = "clusterOnline"
  <2>1. DOMAIN task' = {1, 2} /\ task'[1] = Emit(w, "online") /\ task'[2] = Emit(w, "clusterOnline")
    BY <1>4
  <2> QED BY <2>1, StepDoes
<1>6. Fits(w, "fork", "online") /\ Fits(w, "online", "clusterOnline")
  BY FollowsWorker
<1>7. Planned'
  BY <1>1, <1>2, <1>3, <1>5, <1>6, PlannedProcess DEF WorkerEvent
<1>8. Plans(w, "online")'
  BY <1>5 DEF Plans
<1>9. ASSUME NEW i \in DOMAIN io_rx', io_rx'[i].kind = "online" PROVE io_rx'[i].of # w
  <2>1. i + 1 \in DOMAIN io_rx /\ io_rx'[i] = io_rx[i + 1] /\ i \in Nat \ {0}
    BY <1>1, TailPlaces
  <2> QED BY <1>1, <1>2, <1>9, <2>1 DEF Told, OnlineFirst
<1> QED BY <1>1, <1>2, <1>3, <1>5, <1>7, <1>8, <1>9, ToldTaken DEF ProcessKind

LEMMA ToldRelease ==
  ASSUME IInv, Told, UNCHANGED netVars, Release
  PROVE  Told'
<1>1. Calm /\ DOMAIN task = {1} /\ task[1] = Head(task)
  BY LastCalm DEF Release
<1>2. Plain
  BY TaskTypes DEF Release, Plain, Wake, IoTask, ReaderKind, ProcessKind
<1>3. OnlineKept /\ Ordered(ReaderKind) /\ Ordered(ProcessKind) /\ \A x : Ending(x)' = Ending(x)
  BY <1>2, PlainChannel DEF IInv
<1>4. UNCHANGED <<heard, immediates, process>> /\ CHILDREN' = CHILDREN \ {Head(task).of} /\ Head(task).do = "release"
  BY DEF Release, Reached
<1>5. Mentions(Head(task).of)
  BY <1>1, <1>4 DEF Mentions
<1> QED BY <1>1, <1>3, <1>4, <1>5, CalmTold

LEMMA ToldSpawned ==
  ASSUME IInv, Told, UNCHANGED netVars, child_events
  PROVE  Told'
<1>1. /\ task = <<>> /\ ~running /\ immediates # <<>> /\ immediates' = Tail(immediates)
      /\ UNCHANGED <<io_rx, running, heard, childVars>> /\ task' \in Events(Head(immediates))
  BY DEF child_events, Idle
<1>2. /\ 1 \in DOMAIN immediates /\ immediates[1] = Head(immediates)
      /\ \A i \in DOMAIN immediates : immediates[i] \in Spawned
      /\ \A i \in DOMAIN immediates' :
           i + 1 \in DOMAIN immediates /\ immediates'[i] = immediates[i + 1] /\ i \in Nat \ {0}
  BY <1>1, HeadTailProperties, LenProperties, EmptySeq, ElementOfSeq DEF IInv, TypeOK, HostType
<1>3. PICK s \in Spawned : s = Head(immediates) /\ heard[s] = "nothing"
  BY <1>2 DEF Told, SpawnedHeard
<1>4. s \notin Live /\ s \notin Child /\ s \notin Worker
  BY EmitterAssumption DEF Live
<1>5. OnlineKept /\ Ordered(ReaderKind) /\ Ordered(ProcessKind) /\ \A x : Ending(x)' = Ending(x)
  BY <1>1, OrderedSame, ChannelSame
<1>6. \A i \in DOMAIN task' : task'[i].of = s /\ task'[i].do = "emit"
  BY <1>1, <1>3, StepDoes DEF Events
<1>7. Planned'
  <2>1. \A k \in DOMAIN task' :
           /\ task'[1].of = s
           /\ k = 1 => Fits(s, "nothing", task'[k].event)
           /\ k > 1 => task'[k - 1].do = "emit" /\ Fits(s, task'[k - 1].event, task'[k].event)
           /\ task'[k].event # "online"
    <3>1. CASE task' = <<Emit(s, "error"), Emit(s, "close")>>
      BY <3>1, FollowsSpawned, StepDoes
    <3>2. CASE task' = <<Emit(s, "spawn"), Emit(s, "end"), Emit(s, "exit"), Emit(s, "close")>>
      BY <3>2, FollowsSpawned, StepDoes
    <3>3. CASE task' = <<Emit(s, "spawn"), Emit(s, "data"), Emit(s, "end"), Emit(s, "exit"), Emit(s, "close")>>
      BY <3>3, FollowsSpawned, StepDoes
    <3> QED BY <1>1, <1>3, <3>1, <3>2, <3>3 DEF Events
  <2> QED BY <1>1, <1>3, <1>4, <1>6, <2>1, PlannedProcess
<1>8. Readers' /\ EndsLast' /\ SocketsHeard' /\ EndpointsHeard'
  BY <1>1, <1>5, <1>6, SocketsTold
<1>9. Exits' /\ OnlineFirst' /\ ChildrenHeard'
  BY <1>1, <1>5, OrderedExits, OrderedOnline, CalmChildren DEF Told
<1>10. WorkersHeard'
  <2>1. \A w : ~Plans(w, "online")
    BY <1>1 DEF Plans
  <2>2. \A w : Comes(w)' <=> Comes(w)
    BY <1>1 DEF Comes
  <2> QED BY <1>1, <1>5, <2>1, <2>2 DEF Told, WorkersHeard
<1>11. OnlineDue'
  <2>1. \A w \in Worker : ~Mentions(w)'
    BY <1>4, <1>6 DEF Mentions
  <2> QED BY <1>1, <2>1 DEF Told, OnlineDue
<1>12. SpawnedHeard'
  <2>1. \A i \in DOMAIN immediates' : immediates'[i] # s
    BY <1>2, <1>3 DEF Told, SpawnedHeard
  <2>2. \A i, j \in DOMAIN immediates' : immediates'[i] = immediates'[j] => i = j
    BY <1>2 DEF Told, SpawnedHeard
  <2> QED BY <1>1, <1>2, <1>6, <2>1, <2>2 DEF Told, SpawnedHeard
<1> QED BY <1>7, <1>8, <1>9, <1>10, <1>11, <1>12 DEF Told

\* The next event is emitted, and its listeners run.
LEMMA ToldEmit ==
  ASSUME IInv, Told, UNCHANGED <<netVars, childVars>>, RunEmit
  PROVE  Told'
<1>1. /\ task # <<>> /\ Head(task).do = "emit" /\ task' = Tail(task) /\ ~running /\ running'
      /\ heard' = [heard EXCEPT ![Head(task).of] = Head(task).event]
      /\ UNCHANGED <<io_rx, immediates>>
  BY DEF RunEmit, Reached
<1>2. PICK o, event : o = Head(task).of /\ event = Head(task).event
  OBVIOUS
<1>3. /\ 1 \in DOMAIN task /\ task[1] = Head(task) /\ task[1] \in TaskStep
      /\ \A i \in DOMAIN task' : i \in Nat \ {0} /\ i + 1 \in DOMAIN task /\ task'[i] = task[i + 1]
      /\ \A i \in DOMAIN task : i \in Nat \ {0} /\ (i # 1 => i - 1 \in DOMAIN task' /\ task'[i - 1] = task[i])
      /\ \A i \in DOMAIN task : task[i].do # "emit" => \A j \in DOMAIN task : j <= i
      /\ Len(task) \in Nat /\ DOMAIN task = 1 .. Len(task)
  <2>1. /\ task \in Seq(TaskStep) /\ DOMAIN task = 1 .. Len(task) /\ Len(task) \in Nat
    BY LenProperties DEF IInv, TypeOK, HostType
  <2>2. \A i \in DOMAIN task : task[i].do # "emit" => i = Len(task)
    BY DEF IInv, Shaped
  <2> QED BY <1>1, <2>1, <2>2, HeadTailProperties, EmptySeq, LenProperties, ElementOfSeq
<1>4. /\ task[1].do = "emit" /\ task[1].of = o /\ task[1].event = event /\ o \in Emitter
      /\ heard'[o] = event /\ \A x : x # o => heard'[x] = heard[x]
  <2>1. task[1].do = "emit" /\ task[1].of = o /\ task[1].event = event
    BY <1>1, <1>2, <1>3
  <2>2. o \in Socket \cup Endpoint \cup Live \cup Spawned
    BY <1>3, <2>1 DEF TaskStep
  <2>3. o \in Emitter
    BY <2>2, EmitterAssumption, EndpointAssumption
  <2>4. DOMAIN heard = Emitter
    BY DEF IInv, TypeOK, HostType
  <2> QED BY <1>1, <1>2, <2>1, <2>3, <2>4
<1>5. InPlace(1)
  BY <1>3, <1>4 DEF Told, Planned
<1>6. \A i \in DOMAIN task : task[i].do = "emit" => task[i].of = o
  <2> SUFFICES ASSUME NEW i \in DOMAIN task, task[i].do = "emit", i # 1 PROVE task[i].of = o
    BY <1>4
  <2>1. i > 1
    BY <1>3
  <2> QED BY <1>4, <2>1 DEF Told, Planned, InLine
<1>7. event # "nothing" /\ event # "none"
  BY <1>3, <1>4, StepFields DEF Event
<1>8. Planned'
  <2> SUFFICES ASSUME NEW i \in DOMAIN task', task'[i].do = "emit"
               PROVE  InLine(i)' /\ InPlace(i)'
    BY DEF Planned
  <2>1. /\ i \in Nat \ {0} /\ i + 1 \in DOMAIN task /\ task'[i] = task[i + 1] /\ task[i + 1].do = "emit"
        /\ task[i + 1].of = o
    BY <1>3, <1>6
  <2>2. InLine(i + 1) /\ InPlace(i + 1)
    BY <2>1 DEF Told, Planned
  <2>3. task[i].do = "emit" /\ Fits(o, task[i].event, task[i + 1].event)
    BY <2>1, <2>2 DEF InLine
  <2>4. InLine(i)'
    <3>1. CASE i = 1
      BY <1>4, <2>1, <2>3, <3>1 DEF InLine, Fits
    <3>2. CASE i # 1
      <4>1. i \in DOMAIN task /\ i > 1 /\ i - 1 \in DOMAIN task' /\ task'[i - 1] = task[i]
        <5>1. i \in Nat /\ i > 1 /\ i + 1 \in 1 .. Len(task)
          BY <1>3, <2>1, <3>2
        <5>2. i \in 1 .. Len(task)
          BY <1>3, <5>1
        <5> QED BY <1>3, <3>2, <5>1, <5>2
      <4>2. 2 \in DOMAIN task /\ 1 \in DOMAIN task' /\ task'[1] = task[2]
        <5>1. i \in Nat /\ i > 1 /\ i \in 1 .. Len(task)
          BY <1>3, <2>1, <4>1
        <5>2. 2 \in 1 .. Len(task)
          BY <1>3, <5>1
        <5>3. 2 \in DOMAIN task /\ 2 # 1 /\ 2 - 1 = 1
          BY <1>3, <5>2
        <5>4. 2 - 1 \in DOMAIN task' /\ task'[2 - 1] = task[2]
          BY <1>3, <5>3
        <5> QED BY <5>3, <5>4
      <4>3. task[2].do = "emit"
        <5>1. ~(i + 1 <= 2)
          BY <2>1, <4>1
        <5> QED BY <1>3, <2>1, <4>2, <5>1
      <4>4. task'[1].of = o
        BY <1>6, <4>2, <4>3
      <4> QED BY <2>1, <2>3, <3>2, <4>1, <4>4 DEF InLine, Fits
    <3> QED BY <3>1, <3>2
  <2>5. o \notin Socket \cup Endpoint /\ task[i + 1].event # "online"
    <3>1. i + 1 # 1
      BY <2>1
    <3> QED BY <2>1, <2>2, <3>1 DEF InPlace
  <2>6. Drops(o) => Drops(o)'
    <3> SUFFICES ASSUME NEW k \in DOMAIN task, task[k].do = "release", task[k].of = o PROVE Drops(o)'
      BY DEF Drops
    <3>1. k # 1
      BY <1>4
    <3>2. k - 1 \in DOMAIN task' /\ task'[k - 1] = task[k]
      BY <1>3, <3>1
    <3> QED BY <3>2 DEF Drops
  <2>7. InPlace(i)'
    <3>1. Drops(o)' => Drops(task[i].of)'
      BY <2>1
    <3> QED BY <1>4, <1>7, <2>1, <2>2, <2>5, <2>6, <3>1 DEF InPlace
  <2> QED BY <2>4, <2>7
<1>9. /\ \A x : ~Finishes(x) => ~Finishes(x)'
      /\ \A c : ~Mentions(c) => ~Mentions(c)'
  BY <1>3 DEF Finishes, Mentions
<1>10. Readers'
  <2>1. ASSUME NEW x, ~Finishes(x), heard[x] # "end" PROVE heard'[x] # "end"
    <3>1. x = o => event # "end"
      BY <1>3, <1>4, <2>1 DEF Finishes
    <3> QED BY <1>4, <2>1, <3>1
  <2> QED BY <1>1, <1>9, <2>1 DEF Told, Readers
<1>11. EndsLast' /\ Exits' /\ OnlineFirst'
  BY <1>1 DEF Told, EndsLast, Exits, OnlineFirst
<1>12. \A x, e : x # o => ~Plans(x, e)
  BY <1>6 DEF Plans
<1>13. SocketsHeard'
  <2>1. ASSUME NEW s \in Socket, s # o
        PROVE  /\ s \notin used => heard'[s] = "nothing"
               /\ s \in sockets => heard'[s] \in SocketEvent \cup {"nothing"}
               /\ s \notin sockets => heard'[s] \in {"nothing", "error", "close"}
    BY <1>4, <1>12, <2>1 DEF Told, SocketsHeard
  <2>2. ASSUME o \in Socket
        PROVE  /\ o \in used
               /\ o \in sockets => heard'[o] \in SocketEvent
               /\ o \notin sockets => heard'[o] \in {"error", "close"}
    BY <1>4, <1>5, <2>2 DEF InPlace
  <2> QED BY <2>1, <2>2 DEF SocketsHeard
<1>14. \A c \in Live : Drops(c) => process[c] = "reaped" /\ Ending(c) = 0
  BY DropsSome
<1>15. \A c : Ending(c)' = Ending(c)
  BY <1>1, ChannelSame
<1>16. ChildrenHeard'
  <2>1. o \in Child => Drops(o)
    BY <1>4, <1>5 DEF InPlace
  <2> QED BY <1>4, <1>14, <1>15, <2>1 DEF Told, ChildrenHeard, Live
<1>17. WorkersHeard'
  <2>1. \A w : Comes(w)' <=> Comes(w)
    BY <1>1 DEF Comes
  <2>2. ASSUME NEW w \in Worker, w # o
        PROVE  /\ process'[w] = "none" <=> heard'[w] = "nothing"
               /\ heard'[w] \in WorkerEvent \cup {"nothing", "fork"}
               /\ heard'[w] = "fork" => Comes(w)'
               /\ heard'[w] \in {"exit", "clusterExit"} => process'[w] = "reaped" /\ Ending(w)' = 0
    BY <1>4, <1>12, <1>15, <2>1, <2>2 DEF Told, WorkersHeard
  <2>3. ASSUME o \in Worker
        PROVE  /\ process'[o] # "none" /\ heard'[o] \in WorkerEvent /\ heard'[o] # "fork" /\ heard'[o] # "nothing"
               /\ heard'[o] \in {"exit", "clusterExit"} => process'[o] = "reaped" /\ Ending(o)' = 0
    <3>1. heard[o] # "nothing" /\ event \in WorkerEvent /\ (event \in {"exit", "clusterExit"} => Drops(o))
      BY <1>4, <1>5, <2>3 DEF InPlace
    <3>2. process[o] # "none"
      BY <2>3, <3>1 DEF Told, WorkersHeard
    <3> QED BY <1>4, <1>14, <1>15, <2>3, <3>1, <3>2 DEF WorkerEvent, Live
  <2> QED BY <2>2, <2>3 DEF WorkersHeard
<1>18. OnlineDue'
  <2>1. Mentions(o)
    BY <1>3, <1>4 DEF Mentions
  <2>2. \A i \in DOMAIN io_rx : io_rx[i].kind = "online" => io_rx[i].of # o
    BY <2>1 DEF Told, OnlineDue
  <2> QED BY <1>1, <1>4, <1>9, <2>2 DEF Told, OnlineDue
<1>19. SpawnedHeard'
  <2>1. \A i \in DOMAIN immediates : immediates[i] # o
    BY <1>3, <1>4 DEF Told, SpawnedHeard
  <2>2. \A k \in DOMAIN task' : task'[k].do = "emit" => task'[k].of = o
    BY <1>3, <1>6
  <2> QED BY <1>1, <1>4, <2>1, <2>2 DEF Told, SpawnedHeard
<1>20. EndpointsHeard'
  <2>1. o \in Endpoint => event \in ArrivalEvent
    BY <1>4, <1>5 DEF InPlace
  <2> QED BY <1>4, <2>1 DEF Told, EndpointsHeard
<1> QED BY <1>8, <1>10, <1>11, <1>13, <1>16, <1>17, <1>18, <1>19, <1>20 DEF Told

LEMMA ToldInit == Init => Told
<1> SUFFICES ASSUME Init PROVE Told
  OBVIOUS
<1>1. /\ io_rx = <<>> /\ task = <<>> /\ immediates = <<>> /\ heard = [o \in Emitter |-> "nothing"]
      /\ reading = {} /\ sockets = {} /\ process = [c \in Live |-> "none"]
  BY DEF Init, HostInit, SocketsInit, ChildrenInit
<1>2. /\ Child \subseteq Live /\ Worker \subseteq Live
      /\ \A o \in Socket \cup Endpoint \cup Live : heard[o] = "nothing"
  BY <1>1, EmitterAssumption, EndpointAssumption DEF Live
<1>3. Planned /\ Readers /\ EndsLast /\ Exits /\ OnlineDue /\ OnlineFirst /\ SpawnedHeard
  BY <1>1 DEF Planned, Readers, EndsLast, Exits, OnlineDue, OnlineFirst, SpawnedHeard
<1>4. SocketsHeard /\ ChildrenHeard /\ WorkersHeard /\ EndpointsHeard
  BY <1>1, <1>2 DEF SocketsHeard, ChildrenHeard, WorkersHeard, EndpointsHeard
<1> QED BY <1>3, <1>4 DEF Told

LEMMA ToldSocketTasks == IInv /\ Told /\ SocketTasks /\ UNCHANGED childVars => Told'
  BY ToldArrivals, ToldSent, ToldConnect, ToldData, ToldEnd, ToldClose DEF SocketTasks

LEMMA ToldChildTasks == IInv /\ Told /\ ChildTasks /\ UNCHANGED netVars => Told'
  BY ToldExit, ToldOnline, ToldRelease, ToldSpawned DEF ChildTasks

LEMMA ToldStep == IInv /\ Told /\ [Next]_vars => Told'
<1> SUFFICES ASSUME IInv, Told, [Next]_vars PROVE Told'
  OBVIOUS
<1>1. CASE UNCHANGED vars
  <2>1. Plain /\ Calm /\ UNCHANGED <<heard, sockets, reading, immediates, childVars, used>>
    BY <1>1 DEF vars, Plain, Calm
  <2> QED BY <2>1, PlainTold DEF IInv
<1>2. CASE (Return \/ RunWake \/ RunEmit \/ Leave) /\ UNCHANGED <<netVars, childVars, chVars>>
  BY <1>2, ToldHost, ToldEmit
<1>3. CASE Throw /\ LoseHandle /\ UNCHANGED <<childVars, chVars>>
  BY <1>3, ToldHost DEF LoseHandle
<1>4. CASE SocketCalls /\ UNCHANGED <<childVars, chVars>>
  BY <1>4, ToldSocketCalls, ToldCloseEndpoint DEF SocketCalls
<1>5. CASE SocketThreads /\ UNCHANGED <<childVars, chVars>>
  BY <1>5, ToldThreads, ToldRead DEF SocketThreads
<1>6. CASE SocketTasks /\ UNCHANGED <<childVars, chVars>>
  BY <1>6, ToldSocketTasks
<1>7. CASE ChildCalls /\ UNCHANGED <<netVars, chVars>>
  BY <1>7, ToldFork, ToldClusterFork, ToldSpawn DEF ChildCalls
<1>8. CASE (\E c \in Live : Reap(c)) /\ UNCHANGED <<netVars, chVars>>
  BY <1>8, ToldReap
<1>9. CASE ChildTasks /\ UNCHANGED <<netVars, chVars>>
  BY <1>9, ToldChildTasks
<1>10. CASE (ChannelCalls \/ ChannelTasks) /\ UNCHANGED <<netVars, childVars>>
  BY <1>10, ToldChannels
<1> HIDE DEF netVars, childVars, chVars
<1> QED BY <1>1, <1>2, <1>3, <1>4, <1>5, <1>6, <1>7, <1>8, <1>9, <1>10 DEF Next

(* The events of a socket, a server, a process or a cluster worker are     *)
(* heard in the order of Follows, whichever threads post them and when.    *)
THEOREM EventsInOrderCorrect == Spec => EventsInOrder
<1> DEFINE InOrder == \A o \in Emitter : heard'[o] # heard[o] => <<heard[o], heard'[o]>> \in Follows[o]
<1>1. IInv /\ Told /\ [Next]_vars => [InOrder]_vars
  <2> SUFFICES ASSUME IInv, Told, Next PROVE InOrder
    OBVIOUS
  <2>1. ASSUME UNCHANGED heard PROVE InOrder
    BY <2>1
  <2>2. heard \in [Emitter -> Event \cup {"nothing"}]
    BY DEF IInv, TypeOK, HostType
  <2>3. ASSUME NEW o, NEW v, heard' = [heard EXCEPT ![o] = v], Fits(o, heard[o], v) PROVE InOrder
    BY <2>2, <2>3 DEF Fits
  <2> HIDE DEF InOrder
  <2>4. ASSUME RunEmit PROVE InOrder
    <3>1. Reached("emit") /\ heard' = [heard EXCEPT ![Head(task).of] = Head(task).event]
      BY <2>4 DEF RunEmit
    <3>2. 1 \in DOMAIN task /\ Head(task) = task[1] /\ task[1].do = "emit"
      BY <3>1, Reaching DEF IInv
    <3>3. Fits(task[1].of, heard[task[1].of], task[1].event)
      BY <3>2 DEF Told, Planned, InLine
    <3> QED BY <2>3, <3>1, <3>2, <3>3
  <2>5. ASSUME NEW e \in Endpoint, CloseEndpoint(e) PROVE InOrder
    <3>1. Fits(e, heard[e], "close")
      BY FollowsEndpoint DEF Told, EndpointsHeard, Fits
    <3> QED BY <2>3, <2>5, <3>1 DEF CloseEndpoint
  <2>6. ASSUME NEW w \in Worker, cluster_fork(w) PROVE InOrder
    <3>1. Fits(w, heard[w], "fork")
      BY <2>6, FollowsWorker DEF cluster_fork, Told, WorkersHeard, Fits
    <3> QED BY <2>3, <2>6, <3>1 DEF cluster_fork
  <2>7. CASE Return \/ RunWake \/ Leave \/ Throw
    BY <2>1, <2>7 DEF Return, RunWake, Leave, Throw
  <2>8. CASE SocketCalls
    BY <2>1, <2>5, <2>8 DEF SocketCalls, socket_connect, server_listen, socket_bind, socket_send, Quiet
  <2>9. CASE SocketThreads
    BY <2>1, <2>9 DEF SocketThreads, Arrive, StopThread, Connect, ReadData, ReadEnd
  <2>10. CASE SocketTasks
    BY <2>1, <2>10 DEF SocketTasks, RunListening, RunSent, on_connection, on_message, on_connect,
       on_connect_error, on_socket_data, on_socket_end, RunSocketError, on_socket_close, Closed
  <2>11. CASE ChildCalls \/ (\E c \in Live : Reap(c)) \/ ChildTasks
    BY <2>1, <2>6, <2>11 DEF ChildCalls, fork, spawn, Quiet, Reap, ChildTasks, on_child_exit,
       dispatch_exit, dispatch_online, Release, child_events
  <2>12. CASE ChannelCalls
    BY <2>1, <2>12 DEF ChannelCalls, channel_post, start_channel_port, ClosePort, receive_message_on_port,
       construct_broadcast_channel, BroadcastPost, BroadcastClose, BroadcastRef, BroadcastUnref,
       Quiet, Schedule
  <2>13. CASE ChannelTasks
    BY <2>1, <2>13 DEF ChannelTasks, channel_deliver, Delivered, CaughtThrow, broadcast_deliver
  <2> HIDE DEF netVars, childVars, chVars
  <2> QED BY <2>4, <2>7, <2>8, <2>9, <2>10, <2>11, <2>12, <2>13 DEF Next
<1>2. Spec => [](IInv /\ Told)
  BY InvInit, InvStep, ToldInit, ToldStep, PTL DEF Spec
<1> QED BY <1>1, <1>2, PTL DEF Spec, EventsInOrder
=============================================================================
