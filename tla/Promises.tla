------------------------------ MODULE Promises ------------------------------
(***************************************************************************)
(* The promises of src/src/host.rs and the combinators of                  *)
(* src/src/builtins.rs: cells settled once, reactions scheduled as         *)
(* microtasks, adoption of one promise by another, async functions resumed *)
(* by the promise they await, and the checkpoint that reports rejections   *)
(* nobody handles.  The queue here holds the native microtasks of promises *)
(* only; EventLoop has the other queues and the loop itself.               *)
(*                                                                         *)
(* A promise is its index.  What resolving functions are called with is a  *)
(* resolution: a plain value, a promise, a thenable, or a reason.          *)
(***************************************************************************)
EXTENDS Integers, Sequences, FiniteSets

CONSTANTS
  Value,          \* plain values and reasons
  Undefined, ChainingCycle, Results, AggregateError,  \* values the code makes
  Calls,          \* bound: the calls the program makes
  MaxPromises,    \* bound: promises the program creates, await's own included
  MaxCalls,       \* bound: calls of one promise's resolving functions
  Listens,        \* which process listeners are registered
  Throws          \* whether activations outside promise jobs throw

Call == {"new", "fulfil", "follow", "thenable", "reject", "then", "async", "await value",
         "all", "allSettled", "race", "any"}
Mode == {"all", "allSettled", "race", "any"}

ASSUME PromiseAssumption ==
  /\ Calls \subseteq Call /\ MaxPromises \in Nat /\ MaxCalls \in Nat
  /\ Listens \subseteq {"unhandledRejection", "uncaughtException"} /\ Throws \in BOOLEAN

VARIABLES
  host,           \* the promises, microtasks and pending_rejections of JsHost
  combinators,    \* what the closures of each combinator's reactions share
  phase,          \* where drive_event_loop is
  running,        \* the activation on the stack, and the promise it settles
  reporting,      \* what check_unhandled_rejections has taken and not reported
  calls,          \* history: what was asked of each promise, in order
  reported        \* history: promises a listener was called for

vars == <<host, combinators, phase, running, reporting, calls, reported>>

AnyValue == Value \cup {Undefined, ChainingCycle, Results, AggregateError}
Index == 1 .. MaxPromises
State == {"pending", "fulfilled", "rejected"}

Plain(v) == [is |-> "plain", value |-> v, promise |-> 0]
Promise(q) == [is |-> "promise", value |-> Undefined, promise |-> q]
Thenable == [is |-> "thenable", value |-> Undefined, promise |-> 0]
Reason(v) == [is |-> "reason", value |-> v, promise |-> 0]
Resolution == [is : {"plain", "promise", "thenable", "reason"}, value : AnyValue, promise : Nat]

\* A reaction of promise from; it settles, or resumes the owner of, promise to.
\* Once scheduled it carries the outcome of from.
Reaction == [kind : {"then", "await", "subscribe", "adopt", "thenable", "element"},
             from : Nat, to : Nat, at : Nat, ful : BOOLEAN, rej : BOOLEAN,
             state : State, value : AnyValue]
Continue(kind, from, to) ==
  [kind |-> kind, from |-> from, to |-> to, at |-> 0, ful |-> FALSE, rej |-> FALSE,
   state |-> "pending", value |-> Undefined]
Then(from, to, f, r) == [Continue("then", from, to) EXCEPT !.ful = f, !.rej = r]
Element(from, to, i) == [Continue("element", from, to) EXCEPT !.at = i]

Cell == [state : State, value : AnyValue, reactions : Seq(Reaction), handled : BOOLEAN,
         exposed : BOOLEAN]

----------------------------------------------------------------------------
(* The host's own operations, as functions of its state. *)

\* exposed: the program holds the promise's resolving functions.
new_promise(h, exposed) ==
  [h EXCEPT !.promises = Append(@, [state |-> "pending", value |-> Undefined, reactions |-> <<>>,
                                    handled |-> FALSE, exposed |-> exposed])]
Newest(h) == Len(h.promises)

queue_micro(h, job) == [h EXCEPT !.microtasks = Append(@, job)]
promise_state(h, p) == h.promises[p].state
Delivered(r, cell) == [r EXCEPT !.state = cell.state, !.value = cell.value]

settle_promise(h, p, state, v) ==
  IF promise_state(h, p) = "pending"
  THEN [h EXCEPT !.promises[p].state = state, !.promises[p].value = v]
  ELSE h

\* Mutant of schedule_reactions: the reactions are copied, not taken.
schedule_reactions_copied(h, p) ==
  LET cell == h.promises[p]
  IN  [h EXCEPT !.microtasks = @ \o [i \in DOMAIN cell.reactions |-> Delivered(cell.reactions[i], cell)]]

schedule_reactions(h, p) ==
  LET cell == h.promises[p]
  IN  [h EXCEPT !.microtasks = @ \o [i \in DOMAIN cell.reactions |-> Delivered(cell.reactions[i], cell)],
                !.promises[p].reactions = <<>>]

\* Mutant of subscribe: a new reaction goes before the others.
subscribe_first(h, p, r) ==
  LET cell == h.promises[p]
      g == [h EXCEPT !.promises[p].handled = TRUE]
  IN  IF cell.state = "pending"
      THEN [g EXCEPT !.promises[p].reactions = <<r>> \o @]
      ELSE queue_micro(g, Delivered(r, cell))

\* subscribe_native and promise_then.
subscribe(h, p, r) ==
  LET cell == h.promises[p]
      g == [h EXCEPT !.promises[p].handled = TRUE]
  IN  IF cell.state = "pending"
      THEN [g EXCEPT !.promises[p].reactions = Append(@, r)]
      ELSE queue_micro(g, Delivered(r, cell))

reject_promise_val(h, p, v) ==
  IF promise_state(h, p) # "pending" THEN h
  ELSE schedule_reactions([settle_promise(h, p, "rejected", v)
                             EXCEPT !.pending_rejections = Append(@, p)], p)

\* Mutant of resolve_promise_val: a promise resolved with itself waits for itself.
resolve_promise_val_of_itself(h, p, x) ==
  IF promise_state(h, p) # "pending" THEN h
  ELSE CASE x.is = "plain" -> schedule_reactions(settle_promise(h, p, "fulfilled", x.value), p)
         [] x.is = "promise" -> queue_micro(h, Continue("subscribe", x.promise, p))
         [] x.is = "thenable" -> queue_micro(h, Continue("thenable", 0, p))

resolve_promise_val(h, p, x) ==
  IF promise_state(h, p) # "pending" THEN h
  ELSE CASE x.is = "plain" -> schedule_reactions(settle_promise(h, p, "fulfilled", x.value), p)
         [] x.is = "promise" /\ x.promise = p -> reject_promise_val(h, p, ChainingCycle)
         [] x.is = "promise" /\ x.promise # p -> queue_micro(h, Continue("subscribe", x.promise, p))
         [] x.is = "thenable" -> queue_micro(h, Continue("thenable", 0, p))

\* Either resolving function.
Resolve(h, p, x) ==
  IF x.is = "reason" THEN reject_promise_val(h, p, x.value) ELSE resolve_promise_val(h, p, x)

Asked(cs, p, x) == [cs EXCEPT ![p] = Append(@, x)]

----------------------------------------------------------------------------
Nobody == [kind |-> "nobody", to |-> 0]
Activation == [kind : {"nobody", "main", "listener", "then", "async", "thenable"}, to : Nat]

Init ==
  /\ host = [promises |-> <<>>, microtasks |-> <<>>, pending_rejections |-> <<>>]
  /\ combinators = <<>> /\ calls = <<>> /\ reporting = <<>> /\ reported = {}
  /\ phase = "drain" /\ running = [kind |-> "main", to |-> 0]

InJS == running.kind # "nobody"
Ids == DOMAIN host.promises
Room(n) == Len(host.promises) + n <= MaxPromises
PlainValues == {Plain(v) : v \in Value}

(* The calls a program makes. *)

NewPromise ==
  /\ InJS /\ "new" \in Calls /\ Room(1)
  /\ host' = new_promise(host, TRUE)
  /\ calls' = Append(calls, <<>>)
  /\ UNCHANGED <<combinators, phase, running, reporting, reported>>

\* A resolving function of p, or its executor throwing.
CallResolver(p, x) ==
  /\ InJS /\ host.promises[p].exposed /\ Len(calls[p]) < MaxCalls
  /\ host' = Resolve(host, p, x)
  /\ calls' = Asked(calls, p, x)
  /\ UNCHANGED <<combinators, phase, running, reporting, reported>>

\* then, catch and finally, with or without each handler.
PromiseThen(p, f, r) ==
  /\ InJS /\ "then" \in Calls /\ Room(1)
  /\ LET q == Newest(host) + 1
     IN  host' = subscribe(new_promise(host, FALSE), p, Then(p, q, f, r))
  /\ calls' = Append(calls, <<>>)
  /\ UNCHANGED <<combinators, phase, running, reporting, reported>>

\* A body that suspends in `await p`, or in the await of a plain value.
\* drive_async subscribes its continuation to promise_of what is awaited.
Await(h, q, x) ==
  IF x.is = "promise" THEN subscribe(h, x.promise, Continue("await", x.promise, q))
  ELSE LET g == new_promise(h, FALSE)
           p == Newest(g)
       IN  subscribe(resolve_promise_val(g, p, x), p, Continue("await", p, q))
AwaitCalls(cs, x) == IF x.is = "promise" THEN cs ELSE Append(cs, <<x>>)
AwaitRoom(x) == IF x.is = "promise" THEN 0 ELSE 1
Awaitable == (IF "async" \in Calls THEN {Promise(p) : p \in Ids} ELSE {})
               \cup (IF "await value" \in Calls THEN PlainValues ELSE {})

\* A call of an async function, up to its first await.
CallAsync(x) ==
  /\ InJS /\ Room(1 + AwaitRoom(x))
  /\ LET g == new_promise(host, FALSE) IN host' = Await(g, Newest(g), x)
  /\ calls' = AwaitCalls(Append(calls, <<>>), x)
  /\ UNCHANGED <<combinators, phase, running, reporting, reported>>

\* Promise.all, allSettled, race and any of two promises.
Subscribed(h, c, items) ==
  subscribe(subscribe(h, items[1], Element(items[1], c, 1)), items[2], Element(items[2], c, 2))
Combine(mode, items) ==
  /\ InJS /\ mode \in Calls /\ Room(1)
  /\ LET g == new_promise(host, FALSE)
     IN  /\ host' = Subscribed(g, Len(combinators) + 1, items)
         /\ combinators' = Append(combinators,
              [mode |-> mode, result |-> Newest(g), items |-> items, remaining |-> 2,
               slots |-> [i \in 1 .. 2 |-> [state |-> "pending", value |-> Undefined]]])
  /\ calls' = Append(calls, <<>>)
  /\ UNCHANGED <<phase, running, reporting, reported>>

(* The end of an activation. *)

\* run_js_reaction settles with what the handler did, drive_async with what the
\* body did; an async body may also await again.
FinishJob(x) ==
  /\ running.kind \in {"then", "async"}
  /\ host' = Resolve(host, running.to, x)
  /\ calls' = Asked(calls, running.to, x)
  /\ running' = Nobody
  /\ UNCHANGED <<combinators, phase, reporting, reported>>

AwaitAgain(x) ==
  /\ running.kind = "async" /\ Room(AwaitRoom(x))
  /\ host' = Await(host, running.to, x)
  /\ calls' = AwaitCalls(calls, x)
  /\ running' = Nobody
  /\ UNCHANGED <<combinators, phase, reporting, reported>>

\* A thenable's then, the top level or a listener returns.
Return ==
  /\ running.kind \in {"thenable", "main", "listener"}
  /\ running' = Nobody
  /\ UNCHANGED <<host, combinators, phase, reporting, calls, reported>>

ThenableThrows(v) ==
  /\ running.kind = "thenable" /\ Len(calls[running.to]) < MaxCalls
  /\ host' = reject_promise_val(host, running.to, v)
  /\ calls' = Asked(calls, running.to, Reason(v))
  /\ running' = Nobody
  /\ UNCHANGED <<combinators, phase, reporting, reported>>

\* An exception outside a promise job leaves the loop; an uncaughtException
\* listener is called and the loop starts again.  What the checkpoint had taken
\* is lost with its stack frame.
Throw ==
  /\ running.kind \in {"main", "listener"} /\ Throws
  /\ IF "uncaughtException" \in Listens /\ (running.kind = "main" \/ phase = "report")
     THEN running' = [kind |-> "listener", to |-> 0] /\ phase' = "drain"
     ELSE running' = Nobody /\ phase' = "dead"
  /\ reporting' = <<>>
  /\ UNCHANGED <<host, combinators, calls, reported>>

Resolutions(p) ==
  (IF "fulfil" \in Calls THEN PlainValues ELSE {})
    \cup (IF "follow" \in Calls THEN {Promise(q) : q \in Ids} ELSE {})
    \cup (IF "thenable" \in Calls THEN {Thenable} ELSE {})
    \cup (IF "reject" \in Calls THEN {Reason(v) : v \in Value} ELSE {})

JS ==
  \/ NewPromise
  \/ \E p \in Ids : \E x \in Resolutions(p) : CallResolver(p, x)
  \/ \E p \in Ids, f, r \in BOOLEAN : PromiseThen(p, f, r)
  \/ \E x \in Awaitable : CallAsync(x) \/ AwaitAgain(x)
  \/ \E m \in Mode, p, q \in Ids : Combine(m, <<p, q>>)
  \/ \E x \in Resolutions(running.to) : FinishJob(x)
  \/ \E v \in Value : ThenableThrows(v)
  \/ Return \/ Throw

----------------------------------------------------------------------------
(* drive_event_loop: the drain, one native microtask at a time. *)

At(p) == ~InJS /\ phase = p

Job == Head(host.microtasks)
Popped == [host EXCEPT !.microtasks = Tail(@)]
Take(kind) == At("drain") /\ host.microtasks # <<>> /\ Job.kind = kind
Run(kind, to) == running' = [kind |-> kind, to |-> to]

\* Mutant of RunSubscribe: only a pending promise is adopted.
RunSubscribePending ==
  /\ Take("subscribe")
  /\ host' = IF promise_state(host, Job.from) = "pending"
             THEN subscribe(Popped, Job.from, Continue("adopt", Job.from, Job.to)) ELSE Popped
  /\ UNCHANGED <<combinators, phase, running, reporting, calls, reported>>

\* NewPromiseResolveThenableJob of a native promise: the adoption is registered.
RunSubscribe ==
  /\ Take("subscribe")
  /\ host' = subscribe(Popped, Job.from, Continue("adopt", Job.from, Job.to))
  /\ UNCHANGED <<combinators, phase, running, reporting, calls, reported>>

\* The adopting promise settles as the adopted one did.
RunAdopt ==
  /\ Take("adopt")
  /\ host' = schedule_reactions(settle_promise(Popped, Job.to, Job.state, Job.value), Job.to)
  /\ UNCHANGED <<combinators, phase, running, reporting, calls, reported>>

\* The thenable's then is called with resolving functions of the promise.
RunThenable ==
  /\ Take("thenable")
  /\ Run("thenable", Job.to)
  /\ host' = [Popped EXCEPT !.promises[Job.to].exposed = TRUE]
  /\ calls' = [calls EXCEPT ![Job.to] = <<>>]
  /\ UNCHANGED <<combinators, phase, reporting, reported>>

\* run_js_reaction: the handler runs, or the outcome passes through.
Handled(job) == IF job.state = "rejected" THEN job.rej ELSE job.ful
RunHandler ==
  /\ Take("then") /\ Handled(Job)
  /\ Run("then", Job.to)
  /\ host' = Popped
  /\ UNCHANGED <<combinators, phase, reporting, calls, reported>>

PassThrough ==
  /\ Take("then") /\ ~Handled(Job)
  /\ LET x == IF Job.state = "rejected" THEN Reason(Job.value) ELSE Plain(Job.value)
     IN  /\ host' = Resolve(Popped, Job.to, x)
         /\ calls' = Asked(calls, Job.to, x)
  /\ UNCHANGED <<combinators, phase, running, reporting, reported>>

RunAwait ==
  /\ Take("await")
  /\ Run("async", Job.to)
  /\ host' = Popped
  /\ UNCHANGED <<combinators, phase, reporting, calls, reported>>

\* One item of a combinator has settled.
\* Mutants of Completes: one item too early, and one too late.
CompletesEarly(c) == c.remaining = 2
CompletesLate(c) == c.remaining = 0

Completes(c) == c.remaining = 1
Settles(c, x) ==
  /\ host' = Resolve(Popped, c.result, x)
  /\ calls' = Asked(calls, c.result, x)
Waits == host' = Popped /\ UNCHANGED calls
Fill(c, job) ==
  [c EXCEPT !.slots[job.at] = [state |-> job.state, value |-> job.value], !.remaining = @ - 1]

RunElement ==
  /\ Take("element")
  /\ LET c == combinators[Job.to]
         x == IF Job.state = "rejected" THEN Reason(Job.value) ELSE Plain(Job.value)
         last == CASE c.mode \in {"all", "allSettled"} -> Plain(Results)
                   [] c.mode = "any" -> Reason(AggregateError)
                   [] c.mode = "race" -> x
         early == \/ c.mode = "race"
                  \/ c.mode = "all" /\ Job.state = "rejected"
                  \/ c.mode = "any" /\ Job.state = "fulfilled"
     IN  \/ early /\ Settles(c, x) /\ UNCHANGED combinators
         \/ /\ ~early
            /\ combinators' = [combinators EXCEPT ![Job.to] = Fill(c, Job)]
            /\ IF Completes(c) THEN Settles(c, last) ELSE Waits
  /\ UNCHANGED <<phase, running, reporting, reported>>

Drained ==
  /\ At("drain") /\ host.microtasks = <<>>
  /\ phase' = "report"
  /\ UNCHANGED <<host, combinators, running, reporting, calls, reported>>

(* check_unhandled_rejections *)

TakeRejections ==
  /\ At("report") /\ reporting = <<>> /\ host.pending_rejections # <<>>
  /\ reporting' = host.pending_rejections
  /\ host' = [host EXCEPT !.pending_rejections = <<>>]
  /\ UNCHANGED <<combinators, phase, running, calls, reported>>

Unhandled(p) == promise_state(host, p) = "rejected" /\ ~host.promises[p].handled

Report ==
  /\ At("report") /\ reporting # <<>>
  /\ reporting' = Tail(reporting)
  /\ LET p == Head(reporting)
     IN  \/ ~Unhandled(p) /\ UNCHANGED <<host, phase, running, reported>>
         \/ /\ Unhandled(p)
            /\ host' = [host EXCEPT !.promises[p].handled = TRUE]
            /\ reported' = reported \cup {p}
            /\ IF Listens # {} THEN Run("listener", 0) /\ UNCHANGED phase
               ELSE phase' = "dead" /\ UNCHANGED running
  /\ UNCHANGED <<combinators, calls>>

\* Mutant of Reported: one round only, whatever the listeners rejected.
ReportedOnce ==
  /\ At("report") /\ reporting = <<>>
  /\ phase' = "turn"
  /\ UNCHANGED <<host, combinators, running, reporting, calls, reported>>

Reported ==
  /\ At("report") /\ reporting = <<>> /\ host.pending_rejections = <<>>
  /\ phase' = "turn"
  /\ UNCHANGED <<host, combinators, running, reporting, calls, reported>>

\* The rest of the turn: a timer, a completion or an IoTask runs.
Macrotask ==
  /\ At("turn")
  /\ Run("main", 0) /\ phase' = "drain"
  /\ UNCHANGED <<host, combinators, reporting, calls, reported>>

Loop ==
  \/ RunSubscribe \/ RunAdopt \/ RunThenable \/ RunHandler \/ PassThrough \/ RunAwait
  \/ RunElement \/ Drained \/ TakeRejections \/ Report \/ Reported \/ Macrotask

Next == JS \/ Loop

Spec == Init /\ [][Next]_vars

(* The loop is never paused, and callbacks end. *)
Ends == Return \/ (\E x \in Resolutions(running.to) : FinishJob(x))
Fairness == WF_vars(Loop) /\ WF_vars(Ends)

FairSpec == Spec /\ Fairness

----------------------------------------------------------------------------
(* Correctness. *)

TypeOK ==
  /\ host \in [promises : Seq(Cell), microtasks : Seq(Reaction), pending_rejections : Seq(Nat)]
  /\ combinators \in Seq([mode : Mode, result : Nat, items : Seq(Nat), remaining : Nat,
                          slots : Seq([state : State, value : AnyValue])])
  /\ phase \in {"drain", "report", "turn", "dead"}
  /\ running \in Activation
  /\ reporting \in Seq(Nat)
  /\ calls \in Seq(Seq(Resolution))
  /\ reported \subseteq Nat

Over == phase = "dead"

Cells == host.promises
SettledIds == {p \in Ids : Cells[p].state # "pending"}

\* "already settled - resolve/reject are one-shot": the first call of a promise's
\* resolving functions decides what becomes of it.
FirstCallWins ==
  \A p \in SettledIds : calls[p] # <<>> =>
    LET x == Head(calls[p])
    IN  CASE x.is = "plain" -> Cells[p].state = "fulfilled" /\ Cells[p].value = x.value
          [] x.is = "reason" -> Cells[p].state = "rejected" /\ Cells[p].value = x.value
          [] x.is = "promise" /\ x.promise # p ->
               /\ x.promise \in SettledIds
               /\ Cells[p].state = Cells[x.promise].state
               /\ Cells[p].value = Cells[x.promise].value
          [] x.is = "promise" /\ x.promise = p -> Cells[p].state = "rejected"
          [] x.is = "thenable" -> FALSE

\* Where the continuation that is to settle promise p is kept.
Settling(rs, p) == {i \in DOMAIN rs : rs[i].kind \in {"then", "await"} /\ rs[i].to = p}
Awaiting(p) == UNION {{q} \X Settling(Cells[q].reactions, p) : q \in Ids}
Scheduled(p) == Settling(host.microtasks, p)
Resumed(p) == {k \in {"then", "async"} : running = [kind |-> k, to |-> p]}
ResultIds == {combinators[c].result : c \in DOMAIN combinators}

\* A promise made by then or by an async call waits for one continuation: in the
\* reactions of a pending promise, in the queue or on the stack, never in two of
\* them, and never in none before it was resolved.
OneContinuation ==
  \A p \in Ids : ~Cells[p].exposed /\ p \notin ResultIds =>
    Cardinality(Awaiting(p)) + Cardinality(Scheduled(p)) + Cardinality(Resumed(p))
      = IF calls[p] = <<>> THEN 1 ELSE 0

\* Reactions wait on pending promises only; scheduled, they carry the outcome of
\* their promise, and those of one promise keep the order they were registered in.
ReactionsInOrder ==
  /\ TypeOK
  /\ \A p \in SettledIds : Cells[p].reactions = <<>>
  /\ \A i \in DOMAIN host.microtasks :
       LET job == host.microtasks[i]
       IN  /\ job.kind \notin {"subscribe", "thenable"} =>
                job.state = Cells[job.from].state /\ job.value = Cells[job.from].value
           /\ \A j \in 1 .. i - 1 :
                LET first == host.microtasks[j]
                IN  job.kind = "then" /\ first.kind = "then" /\ job.from = first.from
                      => first.to < job.to

\* "Report every promise that settled rejected since the last checkpoint and
\* still has no handler": none is left when the loop goes on to its turn.
UnhandledRejectionsReported == At("turn") => \A p \in Ids : ~Unhandled(p)

\* What a combinator settles with is what its items settled with.
ItemsOf(c, state) == {i \in 1 .. 2 : Cells[c.items[i]].state = state}
CombinatorsAgree ==
  \A k \in DOMAIN combinators :
    LET c == combinators[k]
        r == Cells[c.result]
        Copies(i) == r.state = Cells[c.items[i]].state /\ r.value = Cells[c.items[i]].value
    IN  /\ c.mode = "all" => /\ r.state = "fulfilled" => ItemsOf(c, "fulfilled") = 1 .. 2
                             /\ r.state = "rejected" => \E i \in 1 .. 2 : Copies(i)
        /\ c.mode = "allSettled" => /\ r.state # "rejected"
                                    /\ r.state = "fulfilled" => ItemsOf(c, "pending") = {}
        /\ c.mode = "race" /\ r.state # "pending" => \E i \in 1 .. 2 : Copies(i)
        /\ c.mode = "any" => /\ r.state = "fulfilled" => \E i \in 1 .. 2 : Copies(i)
                             /\ r.state = "rejected" => ItemsOf(c, "rejected") = 1 .. 2
        /\ \/ c.mode \in {"all", "allSettled"} /\ r.state = "fulfilled"
           \/ c.mode = "any" /\ r.state = "rejected"
           =>
             \A i \in 1 .. 2 : c.slots[i] = [state |-> Cells[c.items[i]].state,
                                             value |-> Cells[c.items[i]].value]

Fates ==
  [p \in Index |->
    IF p \notin Ids THEN [is |-> "unborn"]
    ELSE IF Cells[p].state # "pending"
         THEN [is |-> "settled", outcome |-> <<Cells[p].state, Cells[p].value>>]
    ELSE IF calls[p] # <<>> /\ Head(calls[p]).is = "promise"
         THEN [is |-> "following", promise |-> Head(calls[p]).promise]
    ELSE [is |-> "open"]]

Contract == INSTANCE PromiseContract
  WITH Id <- Index, Outcome <- {"fulfilled", "rejected"} \X AnyValue, fate <- Fates

\* Promises keep the contract: a promise that was resolved with another one comes
\* to the outcome of that one and to no other.
ImplementsContract == Contract!ContractSpec

\* Unless the process dies, a promise that follows a settled one settles too, and
\* a combinator settles once all its items have.
FollowersSettle ==
  \A p, q \in Index :
    (/\ p \in Ids /\ q \in SettledIds /\ calls[p] # <<>> /\ Head(calls[p]) = Promise(q))
      ~> (p \in SettledIds \/ Over)
CombinatorsSettle ==
  \A k \in Index :
    (k \in DOMAIN combinators /\ ItemsOf(combinators[k], "pending") = {})
      ~> (Over \/ (k \in DOMAIN combinators /\ combinators[k].result \in SettledIds))
=============================================================================
