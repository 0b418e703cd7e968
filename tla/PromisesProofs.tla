---------------------------- MODULE PromisesProofs ----------------------------
(***************************************************************************)
(* Proofs about Promises, for every set of values, every program and every *)
(* bound.  The places a reaction can be in, the queue and the cells, are   *)
(* lines; a continuation or an element of a combinator is out when it is   *)
(* in one of them.  Shape, the invariant of the state, has its parts where *)
(* their operations are; Noted, Cont, Agree and Follow are added to it for *)
(* the rejections, the continuations, the combinators and the contract.    *)
(***************************************************************************)
EXTENDS Promises, FiniteSetTheorems, SequenceTheorems, TLAPS

----------------------------------------------------------------------------
(* Sequences of reactions. *)

\* Those of one promise that then() registered, in the order of the promises
\* then() returned.
Ascending(s) ==
  \A i, j \in DOMAIN s :
    i < j /\ s[i].kind = "then" /\ s[j].kind = "then" /\ s[i].from = s[j].from => s[i].to < s[j].to

LEMMA AscendingAppend ==
  ASSUME NEW s \in Seq(Reaction), NEW r \in Reaction, Ascending(s),
         \A i \in DOMAIN s : s[i].kind = "then" /\ r.kind = "then" /\ s[i].from = r.from => s[i].to < r.to
  PROVE  Ascending(Append(s, r))
<1>1. /\ Len(s) \in Nat /\ DOMAIN s = 1 .. Len(s) /\ DOMAIN Append(s, r) = 1 .. Len(s) + 1
      /\ \A i \in 1 .. Len(s) : Append(s, r)[i] = s[i]
      /\ Append(s, r)[Len(s) + 1] = r
  BY LenProperties, AppendProperties
<1>2. \A i, j \in 1 .. Len(s) + 1 : i < j => i \in 1 .. Len(s) /\ (j \in 1 .. Len(s) \/ j = Len(s) + 1)
  BY <1>1
<1> QED BY <1>1, <1>2 DEF Ascending

LEMMA AscendingTail ==
  ASSUME NEW s \in Seq(Reaction), s # <<>>, Ascending(s)
  PROVE  Ascending(Tail(s))
<1>1. /\ Len(s) \in Nat /\ DOMAIN s = 1 .. Len(s) /\ DOMAIN Tail(s) = 1 .. Len(s) - 1
      /\ \A i \in 1 .. Len(s) - 1 : Tail(s)[i] = s[i + 1]
  BY LenProperties, HeadTailProperties
<1>2. \A i, j \in 1 .. Len(s) - 1 : i < j => i + 1 \in 1 .. Len(s) /\ j + 1 \in 1 .. Len(s) /\ i + 1 < j + 1
  BY <1>1
<1> QED BY <1>1, <1>2 DEF Ascending

LEMMA AscendingConcat ==
  ASSUME NEW s \in Seq(Reaction), NEW t \in Seq(Reaction), Ascending(s), Ascending(t),
         \A i \in DOMAIN s, j \in DOMAIN t :
            ~(s[i].kind = "then" /\ t[j].kind = "then" /\ s[i].from = t[j].from)
  PROVE  Ascending(s \o t)
<1> DEFINE n == Len(s)
           m == Len(t)
<1>1. /\ n \in Nat /\ m \in Nat /\ DOMAIN s = 1 .. n /\ DOMAIN t = 1 .. m /\ DOMAIN (s \o t) = 1 .. n + m
      /\ \A i \in 1 .. n + m : (s \o t)[i] = IF i <= n THEN s[i] ELSE t[i - n]
  BY LenProperties, ConcatProperties
<1> HIDE DEF n, m
<1> SUFFICES ASSUME NEW i \in 1 .. n + m, NEW j \in 1 .. n + m, i < j,
                    (s \o t)[i].kind = "then", (s \o t)[j].kind = "then",
                    (s \o t)[i].from = (s \o t)[j].from
             PROVE  (s \o t)[i].to < (s \o t)[j].to
  BY <1>1 DEF Ascending
<1>2. CASE j <= n
  <2>1. i \in 1 .. n /\ j \in 1 .. n /\ (s \o t)[i] = s[i] /\ (s \o t)[j] = s[j]
    BY <1>1, <1>2
  <2> QED BY <1>1, <2>1 DEF Ascending
<1>3. CASE i <= n /\ ~(j <= n)
  <2>1. i \in 1 .. n /\ j - n \in 1 .. m /\ (s \o t)[i] = s[i] /\ (s \o t)[j] = t[j - n]
    BY <1>1, <1>3
  <2> QED BY <1>1, <2>1
<1>4. CASE ~(i <= n)
  <2>1. /\ i - n \in 1 .. m /\ j - n \in 1 .. m /\ i - n < j - n
        /\ (s \o t)[i] = t[i - n] /\ (s \o t)[j] = t[j - n]
    BY <1>1, <1>4
  <2> QED BY <1>1, <2>1 DEF Ascending
<1> QED BY <1>1, <1>2, <1>3, <1>4

(* What is delivered differs in the outcome only. *)
LEMMA DeliveredFields ==
  ASSUME NEW r \in Reaction, NEW cell \in Cell
  PROVE  LET d == Delivered(r, cell)
         IN  /\ d \in Reaction /\ d.kind = r.kind /\ d.from = r.from /\ d.to = r.to /\ d.at = r.at
             /\ d.ful = r.ful /\ d.rej = r.rej /\ d.state = cell.state /\ d.value = cell.value
  BY DEF Delivered, Reaction, Cell

Deliveries(cell) == [i \in DOMAIN cell.reactions |-> Delivered(cell.reactions[i], cell)]

LEMMA DeliveriesType ==
  ASSUME NEW cell \in Cell
  PROVE  /\ Deliveries(cell) \in Seq(Reaction) /\ DOMAIN Deliveries(cell) = DOMAIN cell.reactions
         /\ cell.reactions \in Seq(Reaction)
         /\ \A i \in DOMAIN cell.reactions : /\ cell.reactions[i] \in Reaction
                                             /\ Deliveries(cell)[i] = Delivered(cell.reactions[i], cell)
<1>1. cell.reactions \in Seq(Reaction)
  BY DEF Cell
<1>2. /\ Len(cell.reactions) \in Nat /\ DOMAIN cell.reactions = 1 .. Len(cell.reactions)
      /\ \A i \in DOMAIN cell.reactions : cell.reactions[i] \in Reaction
  BY <1>1, LenProperties
<1>3. \A i \in DOMAIN cell.reactions : Delivered(cell.reactions[i], cell) \in Reaction
  BY <1>2, DeliveredFields
<1>4. Deliveries(cell) \in [1 .. Len(cell.reactions) -> Reaction]
  BY <1>2, <1>3 DEF Deliveries
<1>5. Deliveries(cell) \in Seq(Reaction)
  BY <1>2, <1>4
<1> QED BY <1>1, <1>2, <1>5 DEF Deliveries

LEMMA DeliveriesAscend ==
  ASSUME NEW cell \in Cell, Ascending(cell.reactions)
  PROVE  Ascending(Deliveries(cell))
<1>1. \A i \in DOMAIN cell.reactions :
        /\ Deliveries(cell)[i].kind = cell.reactions[i].kind
        /\ Deliveries(cell)[i].from = cell.reactions[i].from
        /\ Deliveries(cell)[i].to = cell.reactions[i].to
  BY DeliveriesType, DeliveredFields
<1> QED BY <1>1, DeliveriesType DEF Ascending

----------------------------------------------------------------------------
(* The host: its cells ps and jobs ms, with combinators of its items. *)

\* What a reaction is about exists; adoptions come from resolving with a promise.
Names(r, m, its) ==
  /\ r.kind # "thenable" => r.from \in 1 .. m
  /\ r.kind # "element" => r.to \in 1 .. m
  /\ r.kind = "element" => r.to \in DOMAIN its /\ r.at \in 1 .. 2 /\ r.from = its[r.to][r.at]
  /\ r.kind \in {"subscribe", "adopt"} => "follow" \in Calls

\* Only a pending promise has reactions.
CellOK(c, p, m, its) ==
  /\ c \in Cell
  /\ c.state # "pending" => c.reactions = <<>>
  /\ \A i \in DOMAIN c.reactions : /\ Names(c.reactions[i], m, its) /\ c.reactions[i].from = p
                                   /\ c.reactions[i].kind \notin {"subscribe", "thenable"}
  /\ Ascending(c.reactions)

CellsOK(ps, its) == ps \in Seq(Cell) /\ \A p \in DOMAIN ps : CellOK(ps[p], p, Len(ps), its)

\* A scheduled reaction carries the outcome of its promise.
Carries(job, ps) ==
  job.kind \notin {"subscribe", "thenable"} =>
    ps[job.from].state # "pending" /\ job.state = ps[job.from].state /\ job.value = ps[job.from].value

JobsOK(ms, ps, its) ==
  /\ ms \in Seq(Reaction) /\ Ascending(ms)
  /\ \A i \in DOMAIN ms : Names(ms[i], Len(ps), its) /\ Carries(ms[i], ps)

\* Nothing that was settled changes.
Keeps(ps, qs) ==
  /\ Len(ps) <= Len(qs)
  /\ \A p \in DOMAIN ps : ps[p].state # "pending" => qs[p].state = ps[p].state /\ qs[p].value = ps[p].value

\* There are more combinators.
Longer(its, jts) == DOMAIN its \subseteq DOMAIN jts /\ \A t \in DOMAIN its : jts[t] = its[t]

LEMMA NamesStay ==
  ASSUME NEW r \in Reaction, NEW m \in Nat, NEW its, NEW k \in Nat, NEW jts,
         m <= k, Longer(its, jts), Names(r, m, its)
  PROVE  Names(r, k, jts)
<1>1. 1 .. m \subseteq 1 .. k
  OBVIOUS
<1> QED BY <1>1 DEF Names, Longer

LEMMA CellStays ==
  ASSUME NEW c, NEW p, NEW m \in Nat, NEW its, NEW k \in Nat, NEW jts,
         m <= k, Longer(its, jts), CellOK(c, p, m, its)
  PROVE  CellOK(c, p, k, jts)
<1>1. \A i \in DOMAIN c.reactions : c.reactions[i] \in Reaction
  BY DeliveriesType DEF CellOK
<1>2. \A i \in DOMAIN c.reactions : Names(c.reactions[i], k, jts)
  BY <1>1, NamesStay DEF CellOK
<1> QED BY <1>2 DEF CellOK

LEMMA CellsStay ==
  ASSUME NEW ps, NEW its, NEW jts, Longer(its, jts), CellsOK(ps, its)
  PROVE  CellsOK(ps, jts)
<1>1. Len(ps) \in Nat /\ Len(ps) <= Len(ps)
  BY LenProperties DEF CellsOK
<1> QED BY <1>1, CellStays DEF CellsOK

LEMMA CellsNew ==
  ASSUME NEW ps, NEW its, CellsOK(ps, its), NEW c, CellOK(c, Len(ps) + 1, Len(ps) + 1, its)
  PROVE  CellsOK(Append(ps, c), its) /\ Keeps(ps, Append(ps, c))
<1> DEFINE m == Len(ps)
           k == m + 1
           qs == Append(ps, c)
<1>1. /\ m \in Nat /\ k \in Nat /\ m <= k /\ DOMAIN ps = 1 .. m
      /\ qs \in Seq(Cell) /\ Len(qs) = k /\ DOMAIN qs = 1 .. k
      /\ \A p \in 1 .. m : qs[p] = ps[p]
      /\ qs[k] = c
  BY LenProperties, AppendProperties DEF CellsOK, CellOK
<1>2. ASSUME NEW p \in 1 .. k PROVE CellOK(qs[p], p, k, its)
  <2>1. CASE p = k
    BY <1>1, <2>1
  <2>2. CASE p # k
    <3>1. p \in 1 .. m /\ qs[p] = ps[p] /\ CellOK(ps[p], p, m, its)
      BY <1>1, <1>2, <2>2 DEF CellsOK
    <3> HIDE DEF m, k, qs
    <3>2. CellOK(ps[p], p, k, its)
      BY <1>1, <3>1, CellStays DEF Longer
    <3> QED BY <3>1, <3>2
  <2> QED BY <2>1, <2>2
<1> HIDE DEF m, k, qs
<1> QED BY <1>1, <1>2 DEF CellsOK, Keeps, m, qs

LEMMA CellChanges ==
  ASSUME NEW ps, NEW its, CellsOK(ps, its), NEW p \in DOMAIN ps,
         NEW qs \in Seq(Cell), Len(qs) = Len(ps), \A q \in DOMAIN ps : q # p => qs[q] = ps[q],
         CellOK(qs[p], p, Len(ps), its),
         ps[p].state # "pending" => qs[p].state = ps[p].state /\ qs[p].value = ps[p].value
  PROVE  CellsOK(qs, its) /\ Keeps(ps, qs)
<1>1. Len(ps) \in Nat /\ DOMAIN ps = 1 .. Len(ps) /\ DOMAIN qs = DOMAIN ps
  BY LenProperties DEF CellsOK
<1>2. \A q \in DOMAIN ps : CellOK(qs[q], q, Len(ps), its)
  BY DEF CellsOK
<1>3. CellsOK(qs, its)
  BY <1>1, <1>2 DEF CellsOK
<1>4. Keeps(ps, qs)
  BY <1>1 DEF Keeps
<1> QED BY <1>3, <1>4

LEMMA JobsStay ==
  ASSUME NEW ms, NEW ps \in Seq(Cell), NEW qs \in Seq(Cell), NEW its, NEW jts, Longer(its, jts),
         Keeps(ps, qs), JobsOK(ms, ps, its)
  PROVE  JobsOK(ms, qs, jts)
<1>1. /\ Len(ps) \in Nat /\ Len(qs) \in Nat /\ Len(ps) <= Len(qs) /\ DOMAIN ps = 1 .. Len(ps)
  BY LenProperties DEF Keeps
<1>2. ASSUME NEW i \in DOMAIN ms PROVE Names(ms[i], Len(qs), jts) /\ Carries(ms[i], qs)
  <2>1. ms[i] \in Reaction /\ Names(ms[i], Len(ps), its) /\ Carries(ms[i], ps)
    BY LenProperties DEF JobsOK
  <2>2. Names(ms[i], Len(qs), jts)
    BY <1>1, <2>1, NamesStay
  <2>3. ms[i].kind # "thenable" => ms[i].from \in DOMAIN ps
    BY <1>1, <2>1 DEF Names
  <2>4. Carries(ms[i], qs)
    BY <2>1, <2>3 DEF Carries, Keeps
  <2> QED BY <2>2, <2>4
<1> QED BY <1>2 DEF JobsOK

LEMMA JobAdded ==
  ASSUME NEW ms, NEW ps, NEW its, JobsOK(ms, ps, its), NEW job \in Reaction,
         Names(job, Len(ps), its), Carries(job, ps),
         \A i \in DOMAIN ms : ms[i].kind = "then" /\ job.kind = "then" /\ ms[i].from = job.from => ms[i].to < job.to
  PROVE  JobsOK(Append(ms, job), ps, its)
<1>1. /\ ms \in Seq(Reaction)
      /\ Len(ms) \in Nat /\ DOMAIN ms = 1 .. Len(ms) /\ DOMAIN Append(ms, job) = 1 .. Len(ms) + 1
      /\ \A i \in 1 .. Len(ms) : Append(ms, job)[i] = ms[i]
      /\ Append(ms, job)[Len(ms) + 1] = job
      /\ Append(ms, job) \in Seq(Reaction)
  BY LenProperties, AppendProperties DEF JobsOK
<1>2. \A i \in 1 .. Len(ms) + 1 : i \in 1 .. Len(ms) \/ i = Len(ms) + 1
  BY <1>1
<1>3. Ascending(Append(ms, job))
  BY <1>1, AscendingAppend DEF JobsOK
<1>4. \A i \in 1 .. Len(ms) : Names(ms[i], Len(ps), its) /\ Carries(ms[i], ps)
  BY <1>1 DEF JobsOK
<1> QED BY <1>1, <1>2, <1>3, <1>4 DEF JobsOK

LEMMA JobTaken ==
  ASSUME NEW ms, NEW ps, NEW its, JobsOK(ms, ps, its), ms # <<>>
  PROVE  /\ JobsOK(Tail(ms), ps, its)
         /\ Head(ms) \in Reaction /\ Names(Head(ms), Len(ps), its) /\ Carries(Head(ms), ps)
<1>1. /\ ms \in Seq(Reaction) /\ Len(ms) \in Nat \ {0} /\ DOMAIN ms = 1 .. Len(ms)
      /\ Tail(ms) \in Seq(Reaction) /\ DOMAIN Tail(ms) = 1 .. Len(ms) - 1
      /\ \A i \in 1 .. Len(ms) - 1 : Tail(ms)[i] = ms[i + 1] /\ i + 1 \in 1 .. Len(ms)
      /\ Head(ms) = ms[1] /\ Head(ms) \in Reaction /\ 1 \in DOMAIN ms
  BY LenProperties, HeadTailProperties, EmptySeq DEF JobsOK
<1>2. Ascending(Tail(ms))
  BY <1>1, AscendingTail DEF JobsOK
<1> QED BY <1>1, <1>2 DEF JobsOK

(* The reactions of a promise that has just settled. *)
LEMMA JobsDelivered ==
  ASSUME NEW ms, NEW ps \in Seq(Cell), NEW qs \in Seq(Cell), NEW its, NEW p \in DOMAIN ps,
         JobsOK(ms, ps, its), CellOK(ps[p], p, Len(ps), its), ps[p].state = "pending",
         Keeps(ps, qs), Len(qs) = Len(ps), NEW cell \in Cell, cell.reactions = ps[p].reactions,
         cell.state # "pending", cell.state = qs[p].state, cell.value = qs[p].value
  PROVE  JobsOK(ms \o Deliveries(cell), qs, its)
<1> DEFINE t == Deliveries(cell)
<1>1. JobsOK(ms, qs, its) /\ Len(qs) \in Nat
  BY JobsStay, LenProperties DEF Longer
<1>2. /\ t \in Seq(Reaction) /\ DOMAIN t = DOMAIN cell.reactions
      /\ \A j \in DOMAIN t : cell.reactions[j] \in Reaction /\ t[j] = Delivered(cell.reactions[j], cell)
  BY DeliveriesType
<1>3. \A j \in DOMAIN t : /\ t[j].kind = cell.reactions[j].kind /\ t[j].from = cell.reactions[j].from
                          /\ t[j].to = cell.reactions[j].to /\ t[j].at = cell.reactions[j].at
                          /\ t[j].state = cell.state /\ t[j].value = cell.value
  <2>1. ASSUME NEW r \in Reaction, NEW d, d = Delivered(r, cell)
        PROVE  /\ d.kind = r.kind /\ d.from = r.from /\ d.to = r.to /\ d.at = r.at
               /\ d.state = cell.state /\ d.value = cell.value
    BY <2>1, DeliveredFields
  <2> HIDE DEF t
  <2> QED BY <1>2, <2>1
<1>4. Ascending(t)
  BY DeliveriesAscend DEF CellOK
<1> HIDE DEF t
<1>5. \A j \in DOMAIN t : /\ Names(cell.reactions[j], Len(qs), its)
                          /\ cell.reactions[j].from = p /\ cell.reactions[j].kind \notin {"subscribe", "thenable"}
  BY <1>2 DEF CellOK
<1>6. \A j \in DOMAIN t : Names(t[j], Len(qs), its) /\ Carries(t[j], qs)
  BY <1>3, <1>5 DEF Names, Carries
<1>7. \A i \in DOMAIN ms, j \in DOMAIN t : ~(ms[i].kind = "then" /\ t[j].kind = "then" /\ ms[i].from = t[j].from)
  <2>1. \A i \in DOMAIN ms : ms[i].kind = "then" => ms[i].from # p
    BY DEF JobsOK, Carries
  <2> QED BY <1>3, <1>5, <2>1
<1>8. Ascending(ms \o t)
  BY <1>2, <1>4, <1>7, AscendingConcat DEF JobsOK
<1>9. /\ Len(ms) \in Nat /\ Len(t) \in Nat /\ DOMAIN ms = 1 .. Len(ms) /\ DOMAIN t = 1 .. Len(t)
      /\ DOMAIN (ms \o t) = 1 .. Len(ms) + Len(t) /\ ms \o t \in Seq(Reaction)
      /\ \A i \in 1 .. Len(ms) + Len(t) : (ms \o t)[i] = IF i <= Len(ms) THEN ms[i] ELSE t[i - Len(ms)]
  BY <1>2, LenProperties, ConcatProperties DEF JobsOK
<1>10. ASSUME NEW i \in 1 .. Len(ms) + Len(t)
       PROVE  Names((ms \o t)[i], Len(qs), its) /\ Carries((ms \o t)[i], qs)
  <2>1. CASE i <= Len(ms)
    <3>1. i \in DOMAIN ms /\ (ms \o t)[i] = ms[i]
      BY <1>9, <2>1
    <3> QED BY <1>1, <3>1 DEF JobsOK
  <2>2. CASE ~(i <= Len(ms))
    <3>1. i - Len(ms) \in DOMAIN t /\ (ms \o t)[i] = t[i - Len(ms)]
      BY <1>9, <2>2
    <3> QED BY <1>6, <3>1
  <2> QED BY <2>1, <2>2
<1>11. JobsOK(ms \o t, qs, its)
  BY <1>8, <1>9, <1>10 DEF JobsOK
<1> QED BY <1>11 DEF t

----------------------------------------------------------------------------
(* What the host's operations keep, and what they change. *)

Host == [promises : Seq(Cell), microtasks : Seq(Reaction), pending_rejections : Seq(Nat)]
Made(h) == DOMAIN h.promises
Listed(h) == {h.pending_rejections[i] : i \in DOMAIN h.pending_rejections}

HostOK(h, its) ==
  /\ h \in Host
  /\ CellsOK(h.promises, its)
  /\ JobsOK(h.microtasks, h.promises, its)
  /\ Listed(h) \subseteq Made(h)

\* Nothing but the promises of S settles, and nothing that was settled changes.
Alike(h, g, S) ==
  /\ Newest(h) <= Newest(g)
  /\ \A p \in Made(h) : /\ g.promises[p].exposed = h.promises[p].exposed
                        /\ h.promises[p].handled => g.promises[p].handled
                        /\ p \notin S \/ h.promises[p].state # "pending" =>
                             g.promises[p].state = h.promises[p].state /\ g.promises[p].value = h.promises[p].value

\* then() returned no promise from q on.
Before(rs, q) == \A i \in DOMAIN rs : rs[i].kind = "then" => rs[i].to < q
Newer(h, q) == Before(h.microtasks, q) /\ \A p \in Made(h) : Before(h.promises[p].reactions, q)

LEMMA HostFields ==
  ASSUME NEW h, NEW its, HostOK(h, its)
  PROVE  /\ h.promises \in Seq(Cell) /\ h.microtasks \in Seq(Reaction) /\ h.pending_rejections \in Seq(Nat)
         /\ h \in Host
         /\ Newest(h) \in Nat /\ Made(h) = 1 .. Newest(h) /\ Newest(h) = Len(h.promises)
         /\ \A p \in Made(h) : h.promises[p] \in Cell /\ CellOK(h.promises[p], p, Newest(h), its)
<1>1. h \in Host /\ CellsOK(h.promises, its)
  BY DEF HostOK
<1>2. h.promises \in Seq(Cell) /\ h.microtasks \in Seq(Reaction) /\ h.pending_rejections \in Seq(Nat)
  BY <1>1 DEF Host
<1>3. Newest(h) \in Nat /\ Made(h) = 1 .. Newest(h) /\ Newest(h) = Len(h.promises)
  BY <1>2, LenProperties DEF Newest, Made
<1>5. \A p \in Made(h) : h.promises[p] \in Cell /\ CellOK(h.promises[p], p, Newest(h), its)
  BY <1>1, <1>3 DEF CellsOK, CellOK, Made
<1> QED BY <1>1, <1>2, <1>3, <1>5

LEMMA AlikeTransitive ==
  ASSUME NEW a, NEW b, NEW c, NEW its, HostOK(a, its), HostOK(b, its), HostOK(c, its),
         NEW S, Alike(a, b, S), Alike(b, c, S)
  PROVE  Alike(a, c, S)
<1>1. /\ Newest(a) \in Nat /\ Newest(b) \in Nat /\ Newest(c) \in Nat
      /\ Made(a) = 1 .. Newest(a) /\ Made(b) = 1 .. Newest(b)
      /\ Newest(a) <= Newest(b) /\ Newest(b) <= Newest(c)
  BY HostFields DEF Alike
<1>2. Made(a) \subseteq Made(b)
  BY <1>1
<1> QED BY <1>1, <1>2 DEF Alike

LEMMA MoreCombinators ==
  ASSUME NEW h, NEW its, NEW jts, HostOK(h, its), Longer(its, jts)
  PROVE  HostOK(h, jts)
<1>1. h.promises \in Seq(Cell)
  BY HostFields
<1>2. Keeps(h.promises, h.promises)
  BY <1>1, LenProperties DEF Keeps
<1>3. CellsOK(h.promises, jts) /\ JobsOK(h.microtasks, h.promises, jts)
  BY <1>1, <1>2, CellsStay, JobsStay DEF HostOK
<1> QED BY <1>3 DEF HostOK

(* new_promise *)
LEMMA NewPromises ==
  ASSUME NEW h, NEW its, HostOK(h, its), NEW e \in BOOLEAN
  PROVE  LET g == new_promise(h, e)
         IN  /\ HostOK(g, its) /\ Alike(h, g, {}) /\ Newest(g) = Newest(h) + 1
             /\ Newest(g) \in Made(g) /\ Made(g) = Made(h) \cup {Newest(g)}
             /\ \A p \in Made(h) : g.promises[p] = h.promises[p]
             /\ g.promises[Newest(g)] = [state |-> "pending", value |-> Undefined, reactions |-> <<>>,
                                         handled |-> FALSE, exposed |-> e]
             /\ g.microtasks = h.microtasks /\ g.pending_rejections = h.pending_rejections
             /\ Newer(g, Newest(g))
<1> DEFINE g == new_promise(h, e)
           c == [state |-> "pending", value |-> Undefined, reactions |-> <<>>, handled |-> FALSE, exposed |-> e]
<1>1. /\ h.promises \in Seq(Cell) /\ h.microtasks \in Seq(Reaction) /\ h.pending_rejections \in Seq(Nat)
      /\ h \in Host
      /\ Newest(h) \in Nat /\ Made(h) = 1 .. Newest(h) /\ Newest(h) = Len(h.promises)
  BY HostFields
<1>2. c \in Cell
  BY DEF Cell, State, AnyValue
<1>3. CellOK(c, Len(h.promises) + 1, Len(h.promises) + 1, its)
  <2>1. Ascending(<<>>)
    BY DEF Ascending
  <2> QED BY <1>2, <2>1 DEF CellOK
<1>4. /\ g.promises = Append(h.promises, c) /\ g.microtasks = h.microtasks
      /\ g.pending_rejections = h.pending_rejections
      /\ (g.promises \in Seq(Cell) => g \in Host)
  BY <1>1 DEF new_promise, Host
<1> HIDE DEF g, c
<1>5. CellsOK(g.promises, its) /\ Keeps(h.promises, g.promises)
  BY <1>3, <1>4, CellsNew DEF HostOK
<1>6. /\ g.promises \in Seq(Cell) /\ Len(g.promises) = Newest(h) + 1
      /\ \A p \in Made(h) : g.promises[p] = h.promises[p]
      /\ g.promises[Newest(h) + 1] = c
  BY <1>1, <1>2, <1>4, AppendProperties
<1>7. JobsOK(g.microtasks, g.promises, its)
  <2>1. Longer(its, its) /\ JobsOK(h.microtasks, h.promises, its)
    BY DEF HostOK, Longer
  <2>2. JobsOK(h.microtasks, g.promises, its)
    BY <1>1, <1>5, <1>6, <2>1, JobsStay
  <2> QED BY <1>4, <2>2
<1>8. Newest(g) = Newest(h) + 1 /\ Made(g) = 1 .. Newest(h) + 1
  BY <1>6, LenProperties DEF Newest, Made
<1>9. HostOK(g, its)
  <2>1. Listed(g) \subseteq Made(g)
    <3>1. Listed(g) = Listed(h) /\ Listed(h) \subseteq Made(h)
      BY <1>4 DEF HostOK, Listed
    <3>2. Made(h) \subseteq Made(g)
      BY <1>1, <1>8
    <3> QED BY <3>1, <3>2
  <2>2. g \in Host
    BY <1>4, <1>6
  <2> QED BY <1>5, <1>7, <2>1, <2>2 DEF HostOK
<1>10. Alike(h, g, {})
  BY <1>1, <1>6, <1>8 DEF Alike
<1>11. Newer(g, Newest(g))
  <2>1. Before(g.microtasks, Newest(g))
    <3>1. \A i \in DOMAIN h.microtasks : Names(h.microtasks[i], Newest(h), its)
      BY <1>1 DEF HostOK, JobsOK
    <3> QED BY <1>1, <1>4, <1>8, <3>1 DEF Before, Names
  <2>2. ASSUME NEW p \in Made(g) PROVE Before(g.promises[p].reactions, Newest(g))
    <3>1. CASE p = Newest(g)
      BY <1>6, <1>8, <3>1 DEF Before, c
    <3>2. CASE p # Newest(g)
      <4>1. p \in Made(h) /\ g.promises[p] = h.promises[p]
        BY <1>1, <1>6, <1>8, <3>2
      <4>2. \A i \in DOMAIN h.promises[p].reactions : Names(h.promises[p].reactions[i], Newest(h), its)
        BY <4>1, HostFields DEF CellOK
      <4>3. \A i \in DOMAIN h.promises[p].reactions :
              h.promises[p].reactions[i].kind = "then" => h.promises[p].reactions[i].to \in 1 .. Newest(h)
        BY <4>2 DEF Names
      <4>4. Before(h.promises[p].reactions, Newest(g))
        BY <1>1, <1>8, <4>3 DEF Before
      <4> QED BY <4>1, <4>4
    <3> QED BY <3>1, <3>2
  <2> QED BY <2>1, <2>2 DEF Newer
<1>12. Newest(g) \in Made(g) /\ Made(g) = Made(h) \cup {Newest(g)}
  BY <1>1, <1>8
<1> QED BY <1>4, <1>6, <1>8, <1>9, <1>10, <1>11, <1>12 DEF g, c

(* The jobs change and the cells stay. *)
LEMMA JobsChange ==
  ASSUME NEW h, NEW its, HostOK(h, its), NEW g \in Host, g.promises = h.promises,
         g.pending_rejections = h.pending_rejections, JobsOK(g.microtasks, h.promises, its)
  PROVE  HostOK(g, its) /\ Alike(h, g, {})
<1>1. HostOK(g, its)
  BY DEF HostOK, Listed, Made
<1>2. Alike(h, g, {})
  BY HostFields DEF Alike, Newest, Made
<1> QED BY <1>1, <1>2

LEMMA Continuations ==
  ASSUME NEW kind \in {"then", "await", "subscribe", "adopt", "thenable", "element"},
         NEW from \in Nat, NEW to \in Nat
  PROVE  LET r == Continue(kind, from, to)
         IN  /\ r \in Reaction /\ r.kind = kind /\ r.from = from /\ r.to = to
  BY DEF Continue, Reaction, State, AnyValue

(* queue_micro, as resolving uses it *)
LEMMA Queueing ==
  ASSUME NEW h, NEW its, HostOK(h, its), NEW job \in Reaction, Names(job, Newest(h), its),
         job.kind \in {"subscribe", "thenable"}, NEW g, g = queue_micro(h, job)
  PROVE  /\ HostOK(g, its) /\ Alike(h, g, {}) /\ g.promises = h.promises
         /\ g.microtasks = Append(h.microtasks, job) /\ g.pending_rejections = h.pending_rejections
<1>1. JobsOK(Append(h.microtasks, job), h.promises, its)
  BY JobAdded DEF HostOK, Carries, Newest
<1>2. /\ g \in Host /\ g.promises = h.promises /\ g.microtasks = Append(h.microtasks, job)
      /\ g.pending_rejections = h.pending_rejections
  <2>1. h \in Host /\ Append(h.microtasks, job) \in Seq(Reaction)
    BY <1>1 DEF HostOK, JobsOK
  <2> QED BY ONLY <2>1, g = queue_micro(h, job) DEF queue_micro, Host
<1> HIDE DEF queue_micro
<1> QED BY <1>1, <1>2, JobsChange

LEMMA Popping ==
  ASSUME NEW h, NEW its, HostOK(h, its), h.microtasks # <<>>,
         NEW g, g = [h EXCEPT !.microtasks = Tail(h.microtasks)], NEW job, job = Head(h.microtasks)
  PROVE  /\ HostOK(g, its) /\ Alike(h, g, {}) /\ g.promises = h.promises
         /\ g.microtasks = Tail(h.microtasks) /\ g.pending_rejections = h.pending_rejections
         /\ job \in Reaction /\ Names(job, Newest(h), its) /\ Carries(job, h.promises)
<1>1. /\ JobsOK(Tail(h.microtasks), h.promises, its)
      /\ Head(h.microtasks) \in Reaction /\ Names(Head(h.microtasks), Newest(h), its)
      /\ Carries(Head(h.microtasks), h.promises)
  BY JobTaken DEF HostOK, Newest
<1>2. /\ g \in Host /\ g.promises = h.promises /\ g.microtasks = Tail(h.microtasks)
      /\ g.pending_rejections = h.pending_rejections
  <2>1. h \in Host /\ Tail(h.microtasks) \in Seq(Reaction)
    BY <1>1 DEF HostOK, JobsOK
  <2> QED BY ONLY <2>1, g = [h EXCEPT !.microtasks = Tail(h.microtasks)] DEF Host
<1> QED BY <1>1, <1>2, JobsChange

(* A cell changes, and the jobs may be told. *)
Becomes(c, d) ==
  /\ c.state # "pending" => d.state = c.state /\ d.value = c.value
  /\ d.exposed = c.exposed /\ (c.handled => d.handled)

LEMMA CellChange ==
  ASSUME NEW h, NEW its, HostOK(h, its), NEW p \in Made(h), NEW g \in Host,
         Newest(g) = Newest(h), \A q \in Made(h) : q # p => g.promises[q] = h.promises[q],
         CellOK(g.promises[p], p, Newest(h), its), Becomes(h.promises[p], g.promises[p]),
         g.microtasks = h.microtasks \/ JobsOK(g.microtasks, g.promises, its),
         Listed(g) \subseteq Made(h)
  PROVE  /\ HostOK(g, its) /\ Alike(h, g, {p}) /\ Made(g) = Made(h)
         /\ (g.promises[p].state = h.promises[p].state /\ g.promises[p].value = h.promises[p].value
               => Alike(h, g, {}))
<1> DEFINE ps == h.promises
           qs == g.promises
<1>1. /\ CellsOK(ps, its) /\ p \in DOMAIN ps /\ ps \in Seq(Cell) /\ qs \in Seq(Cell)
      /\ Newest(h) \in Nat /\ Newest(h) = Len(ps) /\ Newest(g) = Len(qs) /\ Made(h) = DOMAIN ps
  BY HostFields DEF HostOK, Made, Newest, Host
<1>2. CellsOK(qs, its) /\ Keeps(ps, qs)
  <2> HIDE DEF ps, qs
  <2>1. /\ Len(qs) = Len(ps) /\ \A q \in DOMAIN ps : q # p => qs[q] = ps[q]
        /\ CellOK(qs[p], p, Len(ps), its)
        /\ ps[p].state # "pending" => qs[p].state = ps[p].state /\ qs[p].value = ps[p].value
    BY <1>1 DEF Becomes, ps, qs
  <2> QED BY <1>1, <2>1, CellChanges
<1>3. JobsOK(g.microtasks, qs, its)
  <2>1. CASE g.microtasks = h.microtasks
    <3>1. Longer(its, its) /\ JobsOK(h.microtasks, ps, its)
      BY DEF HostOK, Longer
    <3>2. JobsOK(h.microtasks, qs, its)
      BY <1>1, <1>2, <3>1, JobsStay
    <3> QED BY <2>1, <3>2
  <2> QED BY <2>1
<1>4. Made(g) = Made(h)
  BY <1>1, LenProperties DEF Made
<1>5. HostOK(g, its)
  BY <1>2, <1>3, <1>4 DEF HostOK
<1>6. Alike(h, g, {p})
  BY <1>1 DEF Alike, Becomes
<1>7. g.promises[p].state = h.promises[p].state /\ g.promises[p].value = h.promises[p].value => Alike(h, g, {})
  BY <1>1 DEF Alike, Becomes
<1> QED BY <1>4, <1>5, <1>6, <1>7

(* subscribe *)
LEMMA Subscribing ==
  ASSUME NEW h, NEW its, HostOK(h, its), NEW p \in Made(h), NEW r \in Reaction,
         Names(r, Newest(h), its), r.from = p, r.kind \notin {"subscribe", "thenable"},
         r.kind = "then" => Newer(h, r.to), NEW g, g = subscribe(h, p, r)
  PROVE  /\ HostOK(g, its) /\ Alike(h, g, {}) /\ Newest(g) = Newest(h) /\ Made(g) = Made(h)
         /\ g.pending_rejections = h.pending_rejections
         /\ \A q \in Made(h) : q # p => g.promises[q] = h.promises[q]
         /\ g.promises[p].handled
         /\ IF h.promises[p].state = "pending"
            THEN /\ g.promises[p].reactions = Append(h.promises[p].reactions, r)
                 /\ g.microtasks = h.microtasks
            ELSE /\ g.promises[p].reactions = h.promises[p].reactions
                 /\ g.microtasks = Append(h.microtasks, Delivered(r, h.promises[p]))
<1> DEFINE cell == h.promises[p]
           rs == IF cell.state = "pending" THEN Append(cell.reactions, r) ELSE cell.reactions
           ms == IF cell.state = "pending" THEN h.microtasks ELSE Append(h.microtasks, Delivered(r, cell))
           c == [cell EXCEPT !.handled = TRUE, !.reactions = rs]
<1>1. /\ cell \in Cell /\ CellOK(cell, p, Newest(h), its) /\ h \in Host /\ p \in DOMAIN h.promises
      /\ h.promises \in Seq(Cell) /\ h.microtasks \in Seq(Reaction)
  BY HostFields DEF Made
<1>2. /\ cell.reactions \in Seq(Reaction) /\ rs \in Seq(Reaction)
      /\ Delivered(r, cell) \in Reaction /\ ms \in Seq(Reaction)
  BY <1>1, DeliveriesType, DeliveredFields, AppendProperties
<1>3. /\ c \in Cell /\ c.state = cell.state /\ c.value = cell.value /\ c.exposed = cell.exposed
      /\ c.handled = TRUE /\ c.reactions = rs
  BY <1>1, <1>2 DEF Cell
<1>4. /\ g.promises = [h.promises EXCEPT ![p] = c] /\ g.microtasks = ms
      /\ g.pending_rejections = h.pending_rejections
  BY <1>1 DEF subscribe, queue_micro, Host, Cell
<1>5. [h.promises EXCEPT ![p] = c] \in Seq(Cell)
  BY <1>1, <1>3
<1>6. g \in Host
  BY <1>1, <1>2, <1>4, <1>5 DEF subscribe, queue_micro, Host
<1> HIDE DEF c
<1>7. CellOK(c, p, Newest(h), its)
  <2>1. CASE cell.state = "pending"
    <3>1. /\ Len(cell.reactions) \in Nat /\ DOMAIN cell.reactions = 1 .. Len(cell.reactions)
          /\ DOMAIN rs = 1 .. Len(cell.reactions) + 1
          /\ \A i \in 1 .. Len(cell.reactions) : rs[i] = cell.reactions[i]
          /\ rs[Len(cell.reactions) + 1] = r
      BY <1>2, <2>1, LenProperties, AppendProperties
    <3>2. Ascending(rs)
      <4>1. \A i \in DOMAIN cell.reactions :
              cell.reactions[i].kind = "then" /\ r.kind = "then" => cell.reactions[i].to < r.to
        BY DEF Newer, Before
      <4>2. Ascending(cell.reactions)
        BY <1>1 DEF CellOK
      <4> QED BY <1>2, <2>1, <4>1, <4>2, AscendingAppend
    <3>3. \A i \in 1 .. Len(cell.reactions) + 1 : i \in 1 .. Len(cell.reactions) \/ i = Len(cell.reactions) + 1
      <4>1. \A k \in Nat : \A i \in 1 .. k + 1 : i \in 1 .. k \/ i = k + 1
        BY ONLY TRUE
      <4> QED BY ONLY <3>1, <4>1
    <3>4. \A i \in 1 .. Len(cell.reactions) :
            /\ Names(cell.reactions[i], Newest(h), its) /\ cell.reactions[i].from = p
            /\ cell.reactions[i].kind \notin {"subscribe", "thenable"}
      BY <1>1, <3>1 DEF CellOK
    <3> HIDE DEF rs
    <3>5. \A i \in DOMAIN rs : /\ Names(rs[i], Newest(h), its) /\ rs[i].from = p
                               /\ rs[i].kind \notin {"subscribe", "thenable"}
      BY <3>1, <3>3, <3>4
    <3> QED BY <1>3, <2>1, <3>2, <3>5 DEF CellOK
  <2>2. CASE cell.state # "pending"
    BY <1>1, <1>3, <2>2 DEF CellOK
  <2> QED BY <2>1, <2>2
<1>8. g.microtasks = h.microtasks \/ JobsOK(g.microtasks, g.promises, its)
  <2>1. CASE cell.state # "pending"
    <3> DEFINE job == Delivered(r, cell)
    <3>1. /\ job \in Reaction /\ job.kind = r.kind /\ job.from = p /\ job.to = r.to /\ job.at = r.at
          /\ job.state = cell.state /\ job.value = cell.value
      BY <1>1, DeliveredFields
    <3> HIDE DEF job
    <3>2. Names(job, Newest(h), its)
      BY <3>1 DEF Names
    <3>3. Carries(job, h.promises)
      BY <2>1, <3>1 DEF Carries
    <3>4. \A i \in DOMAIN h.microtasks :
            h.microtasks[i].kind = "then" /\ job.kind = "then" => h.microtasks[i].to < job.to
      BY <3>1 DEF Newer, Before
    <3>5. JobsOK(Append(h.microtasks, job), h.promises, its)
      BY <3>1, <3>2, <3>3, <3>4, JobAdded DEF HostOK, Newest
    <3>6. Keeps(h.promises, g.promises)
      <4>1. \A q \in DOMAIN h.promises : g.promises[q] = IF q = p THEN c ELSE h.promises[q]
        BY <1>1, <1>4
      <4>2. Len(g.promises) = Len(h.promises) /\ Len(h.promises) \in Nat
        BY <1>1, <1>4, LenProperties
      <4> QED BY <1>3, <4>1, <4>2 DEF Keeps
    <3>7. JobsOK(Append(h.microtasks, job), g.promises, its)
      <4>1. Longer(its, its) /\ g.promises \in Seq(Cell)
        BY <1>4, <1>5 DEF Longer
      <4> QED BY <1>1, <3>5, <3>6, <4>1, JobsStay
    <3> QED BY <1>4, <2>1, <3>7 DEF job
  <2> QED BY <1>4, <2>1
<1>9. Listed(g) \subseteq Made(h)
  BY <1>4 DEF HostOK, Listed
<1>10. /\ Newest(g) = Newest(h) /\ g.promises[p] = c /\ Newest(h) = Len(h.promises)
       /\ \A q \in Made(h) : q # p => g.promises[q] = h.promises[q]
  <2>1. Len(g.promises) = Len(h.promises)
    BY <1>1, <1>3, <1>4
  <2> QED BY <1>1, <1>4, <2>1 DEF Newest, Made
<1>11. Becomes(h.promises[p], g.promises[p])
  BY <1>3, <1>10 DEF Becomes
<1>12. HostOK(g, its) /\ Alike(h, g, {}) /\ Made(g) = Made(h)
  <2>1. CellOK(g.promises[p], p, Newest(h), its)
    BY <1>7, <1>10
  <2>2. /\ HostOK(g, its) /\ Alike(h, g, {p}) /\ Made(g) = Made(h)
        /\ (g.promises[p].state = h.promises[p].state /\ g.promises[p].value = h.promises[p].value
              => Alike(h, g, {}))
    BY <1>6, <1>8, <1>9, <1>10, <1>11, <2>1, CellChange
  <2> QED BY <1>3, <1>10, <2>2
<1> QED BY <1>3, <1>4, <1>10, <1>12

(* A pending promise settles, and its reactions are scheduled. *)
SettlesAs(h, g, p, c) ==
  /\ c \in Cell /\ c.reactions = h.promises[p].reactions
  /\ c.exposed = h.promises[p].exposed /\ c.handled = h.promises[p].handled
  /\ Newest(g) = Newest(h) /\ \A q \in Made(h) : q # p => g.promises[q] = h.promises[q]
  /\ g.promises[p] = [c EXCEPT !.reactions = <<>>]
  /\ g.microtasks = h.microtasks \o Deliveries(c)

SettledTo(h, g, p, state, v) == \E c : SettlesAs(h, g, p, c) /\ c.state = state /\ c.value = v

LEMMA CellSettles ==
  ASSUME NEW h, NEW its, HostOK(h, its), NEW p \in Made(h), h.promises[p].state = "pending",
         NEW g \in Host, NEW c, SettlesAs(h, g, p, c), c.state # "pending", Listed(g) \subseteq Made(h)
  PROVE  HostOK(g, its) /\ Alike(h, g, {p}) /\ Made(g) = Made(h)
<1> DEFINE d == g.promises[p]
<1>1. /\ c \in Cell /\ c.reactions = h.promises[p].reactions
      /\ c.exposed = h.promises[p].exposed /\ c.handled = h.promises[p].handled
      /\ Newest(g) = Newest(h) /\ \A q \in Made(h) : q # p => g.promises[q] = h.promises[q]
      /\ d = [c EXCEPT !.reactions = <<>>]
      /\ g.microtasks = h.microtasks \o Deliveries(c)
  BY DEF SettlesAs
<1>2. /\ d \in Cell /\ d.state = c.state /\ d.value = c.value /\ d.exposed = c.exposed
      /\ d.handled = c.handled /\ d.reactions = <<>>
  <2> HIDE DEF d
  <2>1. c \in Cell /\ d = [c EXCEPT !.reactions = <<>>]
    BY <1>1
  <2>2. <<>> \in Seq(Reaction)
    OBVIOUS
  <2> QED BY ONLY <2>1, <2>2 DEF Cell
<1>3. CellOK(d, p, Newest(h), its)
  <2>1. Ascending(<<>>)
    BY DEF Ascending
  <2> HIDE DEF d
  <2> QED BY <1>2, <2>1 DEF CellOK
<1>4. Becomes(h.promises[p], d)
  BY <1>1, <1>2 DEF Becomes
<1>5. /\ h.promises \in Seq(Cell) /\ g.promises \in Seq(Cell) /\ Len(g.promises) = Len(h.promises)
      /\ p \in DOMAIN h.promises /\ CellOK(h.promises[p], p, Len(h.promises), its)
      /\ CellsOK(h.promises, its) /\ JobsOK(h.microtasks, h.promises, its)
  BY <1>1, HostFields DEF HostOK, Host, Newest, Made
<1>6. Keeps(h.promises, g.promises)
  <2>1. \A q \in DOMAIN h.promises : q # p => g.promises[q] = h.promises[q]
    BY <1>1 DEF Made
  <2>2. Len(h.promises) \in Nat
    BY <1>5, LenProperties
  <2> QED BY <1>5, <2>1, <2>2 DEF Keeps
<1>7. JobsOK(g.microtasks, g.promises, its)
  <2>1. JobsOK(h.microtasks \o Deliveries(c), g.promises, its)
    BY <1>1, <1>2, <1>5, <1>6, JobsDelivered
  <2> QED BY <1>1, <2>1
<1> HIDE DEF d
<1>8. HostOK(g, its) /\ Alike(h, g, {p}) /\ Made(g) = Made(h)
  <2>1. /\ CellOK(g.promises[p], p, Newest(h), its) /\ Becomes(h.promises[p], g.promises[p])
        /\ g.microtasks = h.microtasks \/ JobsOK(g.microtasks, g.promises, its)
    BY <1>3, <1>4, <1>7 DEF d
  <2> QED BY <1>1, <2>1, CellChange
<1> QED BY <1>8

(* settle_promise and schedule_reactions, as adopting and resolving use them. *)
LEMMA Settlement ==
  ASSUME NEW h, NEW its, HostOK(h, its), NEW p \in Made(h), h.promises[p].state = "pending",
         NEW state \in {"fulfilled", "rejected"}, NEW v \in AnyValue,
         NEW k, k = settle_promise(h, p, state, v), NEW g, g = schedule_reactions(k, p)
  PROVE  /\ HostOK(g, its) /\ Alike(h, g, {p}) /\ Made(g) = Made(h)
         /\ g.pending_rejections = h.pending_rejections
         /\ SettledTo(h, g, p, state, v)
<1> DEFINE c == [h.promises[p] EXCEPT !.state = state, !.value = v]
           d == [c EXCEPT !.reactions = <<>>]
<1>1. /\ h \in Host /\ h.promises \in Seq(Cell) /\ h.microtasks \in Seq(Reaction) /\ p \in DOMAIN h.promises
      /\ h.promises[p] \in Cell /\ Listed(h) \subseteq Made(h)
  BY HostFields DEF HostOK, Made
<1>2. /\ c \in Cell /\ c.state = state /\ c.value = v /\ c.reactions = h.promises[p].reactions
      /\ c.exposed = h.promises[p].exposed /\ c.handled = h.promises[p].handled /\ c.state # "pending"
      /\ d \in Cell
  <2>1. h.promises[p] \in Cell /\ state \in State /\ state # "pending" /\ v \in AnyValue
    BY <1>1 DEF State
  <2>2. /\ c \in Cell /\ c.state = state /\ c.value = v /\ c.reactions = h.promises[p].reactions
        /\ c.exposed = h.promises[p].exposed /\ c.handled = h.promises[p].handled
    BY ONLY <2>1 DEF Cell
  <2>3. <<>> \in Seq(Reaction)
    OBVIOUS
  <2> HIDE DEF c
  <2>4. d \in Cell
    BY ONLY <2>2, <2>3 DEF Cell
  <2> QED BY <2>1, <2>2, <2>4
<1>3. /\ k = [h EXCEPT !.promises = [h.promises EXCEPT ![p] = c]]
  BY ONLY <1>1, h.promises[p].state = "pending", k = settle_promise(h, p, state, v)
     DEF settle_promise, promise_state, Host, Cell
<1> HIDE DEF c
<1>4. [h.promises EXCEPT ![p] = c] \in Seq(Cell) /\ [h.promises EXCEPT ![p] = d] \in Seq(Cell)
  BY ONLY <1>1, <1>2
<1>5. /\ k \in Host /\ k.promises = [h.promises EXCEPT ![p] = c] /\ k.microtasks = h.microtasks
      /\ k.pending_rejections = h.pending_rejections
  BY ONLY <1>1, <1>3, <1>4 DEF Host
<1>6. k.promises[p] = c
  BY ONLY <1>1, <1>5
<1>7. g = [k EXCEPT !.microtasks = @ \o Deliveries(c), !.promises[p].reactions = <<>>]
  BY ONLY <1>6, g = schedule_reactions(k, p) DEF schedule_reactions, Deliveries
<1>8. [k.promises EXCEPT ![p] = d] = [h.promises EXCEPT ![p] = d]
  BY ONLY <1>1, <1>5
<1>9. g = [k EXCEPT !.microtasks = h.microtasks \o Deliveries(c), !.promises = [h.promises EXCEPT ![p] = d]]
  BY ONLY <1>5, <1>6, <1>7, <1>8
<1>10. h.microtasks \o Deliveries(c) \in Seq(Reaction)
  BY <1>1, <1>2, DeliveriesType, ConcatProperties
<1>11. /\ g \in Host /\ g.microtasks = h.microtasks \o Deliveries(c)
       /\ g.promises = [h.promises EXCEPT ![p] = d] /\ g.pending_rejections = h.pending_rejections
  <2> DEFINE ms == h.microtasks \o Deliveries(c)
             qs == [h.promises EXCEPT ![p] = d]
  <2>1. k \in Host /\ ms \in Seq(Reaction) /\ qs \in Seq(Cell) /\ g = [k EXCEPT !.microtasks = ms, !.promises = qs]
    BY ONLY <1>4, <1>5, <1>9, <1>10
  <2> HIDE DEF ms, qs
  <2>2. g \in Host /\ g.microtasks = ms /\ g.promises = qs /\ g.pending_rejections = k.pending_rejections
    BY ONLY <2>1 DEF Host
  <2> QED BY <1>5, <2>2 DEF ms, qs
<1>12. /\ Len(g.promises) = Len(h.promises) /\ g.promises[p] = d
       /\ \A q \in DOMAIN h.promises : q # p => g.promises[q] = h.promises[q]
  BY ONLY <1>1, <1>2, <1>11
<1>13. SettlesAs(h, g, p, c)
  BY <1>2, <1>11, <1>12 DEF SettlesAs, Newest, Made
<1>14. Listed(g) \subseteq Made(h)
  BY <1>1, <1>11 DEF Listed
<1>15. HostOK(g, its) /\ Alike(h, g, {p}) /\ Made(g) = Made(h)
  <2>1. c.state # "pending" /\ g \in Host
    BY <1>2, <1>11
  <2> QED BY ONLY <2>1, <1>13, <1>14, HostOK(h, its), p \in Made(h), h.promises[p].state = "pending", CellSettles
<1> QED BY <1>2, <1>11, <1>13, <1>15 DEF SettledTo

LEMMA SettledCell ==
  ASSUME NEW h, NEW g, NEW p, NEW c, SettlesAs(h, g, p, c)
  PROVE  /\ g.promises[p].state = c.state /\ g.promises[p].value = c.value
         /\ g.promises[p].handled = c.handled /\ g.promises[p].exposed = c.exposed
         /\ g.promises[p].reactions = <<>>
<1>1. c \in Cell /\ g.promises[p] = [c EXCEPT !.reactions = <<>>]
  BY DEF SettlesAs
<1> QED BY ONLY <1>1 DEF Cell

LEMMA SettledFields ==
  ASSUME NEW h, NEW g, NEW p, NEW state, NEW v, SettledTo(h, g, p, state, v)
  PROVE  /\ g.promises[p].state = state /\ g.promises[p].value = v /\ g.promises[p].reactions = <<>>
         /\ g.promises[p].handled = h.promises[p].handled /\ g.promises[p].exposed = h.promises[p].exposed
         /\ Newest(g) = Newest(h) /\ \A q \in Made(h) : q # p => g.promises[q] = h.promises[q]
<1>1. PICK c : SettlesAs(h, g, p, c) /\ c.state = state /\ c.value = v
  BY DEF SettledTo
<1> QED BY <1>1, SettledCell DEF SettlesAs

(* What becomes of a pending promise that is resolved with x. *)
Outcome(h, g, p, x) ==
  /\ x.is = "plain" => SettledTo(h, g, p, "fulfilled", x.value)
  /\ x.is = "reason" => SettledTo(h, g, p, "rejected", x.value)
  /\ x.is = "promise" /\ x.promise = p =>
       SettledTo(h, g, p, "rejected", ChainingCycle)
  /\ x.is = "promise" /\ x.promise # p =>
       /\ g.promises = h.promises /\ g.pending_rejections = h.pending_rejections
       /\ g.microtasks = Append(h.microtasks, Continue("subscribe", x.promise, p))
  /\ x.is = "thenable" =>
       /\ g.promises = h.promises /\ g.pending_rejections = h.pending_rejections
       /\ g.microtasks = Append(h.microtasks, Continue("thenable", 0, p))

\* A rejection is listed for the checkpoint.
Lists(h, g) ==
  /\ Listed(h) \subseteq Listed(g)
  /\ \A q \in Made(h) : g.promises[q].state = "rejected" => h.promises[q].state = "rejected" \/ q \in Listed(g)
  /\ \A q \in Made(h) : g.promises[q].handled = h.promises[q].handled

(* reject_promise_val *)
LEMMA Rejecting ==
  ASSUME NEW h, NEW its, HostOK(h, its), NEW p \in Made(h), h.promises[p].state = "pending",
         NEW v \in AnyValue, NEW g, g = reject_promise_val(h, p, v)
  PROVE  /\ HostOK(g, its) /\ Alike(h, g, {p}) /\ Made(g) = Made(h) /\ Lists(h, g)
         /\ SettledTo(h, g, p, "rejected", v)
<1> DEFINE k == [h EXCEPT !.pending_rejections = Append(h.pending_rejections, p)]
<1>1. /\ h \in Host /\ h.pending_rejections \in Seq(Nat) /\ p \in Nat /\ Listed(h) \subseteq Made(h)
      /\ Made(h) \subseteq Nat
  <2>1. Newest(h) \in Nat /\ Made(h) = 1 .. Newest(h) /\ h \in Host /\ h.pending_rejections \in Seq(Nat)
    BY HostFields
  <2>2. Made(h) \subseteq Nat
    BY ONLY <2>1
  <2> QED BY <2>1, <2>2 DEF HostOK
<1>2. /\ k \in Host /\ k.promises = h.promises /\ k.microtasks = h.microtasks
      /\ k.pending_rejections = Append(h.pending_rejections, p)
  <2>1. Append(h.pending_rejections, p) \in Seq(Nat)
    BY <1>1
  <2> QED BY ONLY <1>1, <2>1 DEF Host
<1>3. Listed(k) = Listed(h) \cup {p}
  <2> DEFINE s == h.pending_rejections
  <2>1. /\ Len(s) \in Nat /\ DOMAIN s = 1 .. Len(s) /\ DOMAIN Append(s, p) = 1 .. Len(s) + 1
        /\ \A i \in 1 .. Len(s) : Append(s, p)[i] = s[i]
        /\ Append(s, p)[Len(s) + 1] = p
    BY <1>1, LenProperties, AppendProperties
  <2>2. \A m \in Nat : 1 .. m + 1 = (1 .. m) \cup {m + 1}
    BY ONLY TRUE
  <2> HIDE DEF s, k
  <2>3. DOMAIN Append(s, p) = DOMAIN s \cup {Len(s) + 1}
    BY <2>1, <2>2
  <2> QED BY <1>2, <2>1, <2>3 DEF Listed, s
<1>4. settle_promise(h, p, "rejected", v).pending_rejections = h.pending_rejections
  BY <1>1 DEF settle_promise, promise_state, Host
<1>5. [settle_promise(h, p, "rejected", v) EXCEPT !.pending_rejections = Append(@, p)]
        = settle_promise(k, p, "rejected", v)
  <2>1. promise_state(k, p) = "pending" /\ promise_state(h, p) = "pending"
    BY <1>2 DEF promise_state
  <2> QED BY ONLY <1>1, <2>1 DEF settle_promise, Host
<1>6. g = schedule_reactions(settle_promise(k, p, "rejected", v), p)
  <2>1. promise_state(h, p) = "pending"
    BY DEF promise_state
  <2> HIDE DEF k
  <2> QED BY ONLY <1>5, <2>1, g = reject_promise_val(h, p, v) DEF reject_promise_val
<1> HIDE DEF k
<1>7. HostOK(k, its) /\ p \in Made(k) /\ Made(k) = Made(h)
  BY <1>1, <1>2, <1>3 DEF HostOK, Made
<1>8. /\ HostOK(g, its) /\ Alike(k, g, {p}) /\ Made(g) = Made(k)
      /\ g.pending_rejections = k.pending_rejections
      /\ SettledTo(k, g, p, "rejected", v)
  <2>1. k.promises[p].state = "pending" /\ "rejected" \in {"fulfilled", "rejected"}
    BY <1>2
  <2> DEFINE l == settle_promise(k, p, "rejected", v)
  <2>2. l = settle_promise(k, p, "rejected", v) /\ g = schedule_reactions(l, p)
    BY <1>6
  <2> HIDE DEF l
  <2> QED BY ONLY <1>7, <2>1, <2>2, v \in AnyValue, Settlement
<1>9. Alike(h, g, {p})
  BY <1>2, <1>7, <1>8 DEF Alike, Newest
<1>10. PICK c : SettlesAs(k, g, p, c) /\ c.state = "rejected" /\ c.value = v
  BY <1>8 DEF SettledTo
<1>11. SettlesAs(h, g, p, c)
  BY <1>2, <1>7, <1>10 DEF SettlesAs, Newest
<1>12. Lists(h, g)
  <2>1. Listed(g) = Listed(h) \cup {p}
    BY <1>3, <1>8 DEF Listed
  <2>2. g.promises[p].handled = h.promises[p].handled
    BY <1>11, SettledCell DEF SettlesAs
  <2>3. \A q \in Made(h) : q # p => g.promises[q] = h.promises[q]
    BY <1>11 DEF SettlesAs
  <2> QED BY <2>1, <2>2, <2>3 DEF Lists
<1> QED BY <1>7, <1>8, <1>9, <1>10, <1>11, <1>12 DEF SettledTo

(* Either resolving function. *)
Resolvable(x, m) ==
  x \in Resolution /\ (x.is = "promise" => "follow" \in Calls /\ x.promise \in 1 .. m)

LEMMA SettledOnce ==
  ASSUME NEW h, NEW p, h.promises[p].state # "pending", NEW x
  PROVE  Resolve(h, p, x) = h
BY DEF Resolve, reject_promise_val, resolve_promise_val, promise_state

LEMMA Resolving ==
  ASSUME NEW h, NEW its, HostOK(h, its), NEW p \in Made(h), NEW x, Resolvable(x, Newest(h)),
         NEW g, g = Resolve(h, p, x)
  PROVE  /\ HostOK(g, its) /\ Alike(h, g, {p}) /\ Made(g) = Made(h) /\ Lists(h, g)
         /\ (h.promises[p].state = "pending" => Outcome(h, g, p, x))
<1>1. /\ x.is \in {"plain", "promise", "thenable", "reason"} /\ x.value \in AnyValue /\ x.promise \in Nat
      /\ x.is = "promise" => "follow" \in Calls /\ x.promise \in 1 .. Newest(h)
  BY DEF Resolvable, Resolution
<1>2. Newest(h) \in Nat /\ p \in 1 .. Newest(h) /\ promise_state(h, p) = h.promises[p].state
  BY HostFields DEF promise_state
<1>3. CASE h.promises[p].state # "pending"
  <2>1. g = h
    BY <1>3, SettledOnce
  <2>2. Alike(h, h, {p}) /\ Lists(h, h)
    BY <1>2 DEF Alike, Lists
  <2> QED BY <1>3, <2>1, <2>2
<1>4. CASE h.promises[p].state = "pending" /\ x.is = "reason"
  <2>1. g = reject_promise_val(h, p, x.value)
    BY <1>4 DEF Resolve
  <2>2. /\ HostOK(g, its) /\ Alike(h, g, {p}) /\ Made(g) = Made(h) /\ Lists(h, g)
        /\ SettledTo(h, g, p, "rejected", x.value)
    BY <1>1, <1>4, <2>1, Rejecting
  <2> QED BY <1>4, <2>2 DEF Outcome
<1>5. CASE h.promises[p].state = "pending" /\ x.is = "promise" /\ x.promise = p
  <2>1. g = reject_promise_val(h, p, ChainingCycle) /\ ChainingCycle \in AnyValue
    BY <1>2, <1>5 DEF Resolve, resolve_promise_val, AnyValue
  <2>2. /\ HostOK(g, its) /\ Alike(h, g, {p}) /\ Made(g) = Made(h) /\ Lists(h, g)
        /\ SettledTo(h, g, p, "rejected", ChainingCycle)
    BY ONLY <1>5, <2>1, HostOK(h, its), p \in Made(h), Rejecting
  <2> QED BY <1>5, <2>2 DEF Outcome
<1>6. CASE h.promises[p].state = "pending" /\ x.is = "plain"
  <2>1. g = schedule_reactions(settle_promise(h, p, "fulfilled", x.value), p)
    BY <1>2, <1>6 DEF Resolve, resolve_promise_val
  <2> DEFINE l == settle_promise(h, p, "fulfilled", x.value)
  <2>0. l = settle_promise(h, p, "fulfilled", x.value) /\ g = schedule_reactions(l, p)
    BY <2>1
  <2> HIDE DEF l
  <2>2. /\ HostOK(g, its) /\ Alike(h, g, {p}) /\ Made(g) = Made(h)
        /\ g.pending_rejections = h.pending_rejections
        /\ SettledTo(h, g, p, "fulfilled", x.value)
    <3> DEFINE v == x.value
    <3>1. "fulfilled" \in {"fulfilled", "rejected"} /\ v \in AnyValue /\ h.promises[p].state = "pending"
      BY <1>1, <1>6
    <3>2. l = settle_promise(h, p, "fulfilled", v) /\ g = schedule_reactions(l, p)
      BY <2>0
    <3> HIDE DEF v
    <3>3. /\ HostOK(g, its) /\ Alike(h, g, {p}) /\ Made(g) = Made(h)
          /\ g.pending_rejections = h.pending_rejections
          /\ SettledTo(h, g, p, "fulfilled", v)
      BY ONLY <3>1, <3>2, HostOK(h, its), p \in Made(h), Settlement
    <3> QED BY <3>3 DEF v
  <2>4. /\ g.promises[p].state = "fulfilled" /\ g.promises[p].handled = h.promises[p].handled
        /\ \A q \in Made(h) : q # p => g.promises[q] = h.promises[q]
    BY <2>2, SettledFields
  <2>5. Listed(g) = Listed(h)
    BY <2>2 DEF Listed
  <2>6. Lists(h, g)
    BY <2>4, <2>5 DEF Lists
  <2> QED BY <1>6, <2>2, <2>6 DEF Outcome
<1>7. CASE h.promises[p].state = "pending" /\ (x.is = "thenable" \/ (x.is = "promise" /\ x.promise # p))
  <2> DEFINE job == IF x.is = "thenable" THEN Continue("thenable", 0, p) ELSE Continue("subscribe", x.promise, p)
  <2>1. g = queue_micro(h, job)
    BY <1>2, <1>7 DEF Resolve, resolve_promise_val
  <2>2. /\ job \in Reaction /\ job.to = p
        /\ IF x.is = "thenable" THEN job.kind = "thenable" ELSE job.kind = "subscribe" /\ job.from = x.promise
    <3>1. CASE x.is = "thenable"
      BY <1>2, <3>1, Continuations
    <3>2. CASE x.is # "thenable"
      BY <1>1, <1>2, <3>2, Continuations
    <3> QED BY <3>1, <3>2
  <2>3. Names(job, Newest(h), its)
    <3> HIDE DEF job
    <3> QED BY <1>1, <1>2, <1>7, <2>2 DEF Names
  <2>4. /\ HostOK(g, its) /\ Alike(h, g, {}) /\ g.promises = h.promises
        /\ g.microtasks = Append(h.microtasks, job) /\ g.pending_rejections = h.pending_rejections
    <3> HIDE DEF job
    <3>1. job.kind \in {"subscribe", "thenable"}
      BY <2>2
    <3> QED BY <2>1, <2>2, <2>3, <3>1, Queueing
  <2>5. Made(g) = Made(h) /\ Lists(h, g)
    BY <2>4 DEF Made, Lists, Listed
  <2>6. Alike(h, g, {p})
    BY <2>4 DEF Alike
  <2>7. Outcome(h, g, p, x)
    BY <1>7, <2>4 DEF Outcome
  <2> QED BY <1>7, <2>4, <2>5, <2>6, <2>7
<1> QED BY <1>1, <1>3, <1>4, <1>5, <1>6, <1>7

----------------------------------------------------------------------------
(* Continuations and elements of combinators are never in two places.  The *)
(* places are those of the queue, line 0, and of the promises' reactions.  *)

Line(h, a) == IF a = 0 THEN h.microtasks ELSE h.promises[a].reactions
Lines(h) == {0} \cup Made(h)

\* Element k of combinator t; for k = 0 the continuation that settles promise t, and
\* for k = 3 what is left of resolving t, with a thenable for k = 4 and with promise f
\* for k = 5 + f.
Holds(r, k, t) ==
  /\ r.to = t
  /\ \/ k = 0 /\ r.kind \in {"then", "await"}
     \/ k \in 1 .. 2 /\ r.kind = "element" /\ r.at = k
     \/ k = 3 /\ r.kind \in {"subscribe", "adopt", "thenable"}
     \/ k = 4 /\ r.kind = "thenable"
     \/ k \in Nat /\ k > 4 /\ r.kind \in {"subscribe", "adopt"} /\ r.from = k - 5

Out(h, k, t) == \E a \in Lines(h) : \E i \in DOMAIN Line(h, a) : Holds(Line(h, a)[i], k, t)
Once(h, k, t) ==
  \A a, b \in Lines(h) : \A i \in DOMAIN Line(h, a), j \in DOMAIN Line(h, b) :
    Holds(Line(h, a)[i], k, t) /\ Holds(Line(h, b)[j], k, t) => a = b /\ i = j

LEMMA LineFields ==
  ASSUME NEW h, NEW its, HostOK(h, its)
  PROVE  /\ \A a \in Lines(h) : Line(h, a) \in Seq(Reaction)
         /\ 0 \notin Made(h) /\ Made(h) \subseteq Nat
         /\ \A p \in Made(h) : Line(h, p) = h.promises[p].reactions
         /\ Line(h, 0) = h.microtasks
<1>1. /\ Newest(h) \in Nat /\ Made(h) = 1 .. Newest(h) /\ h.microtasks \in Seq(Reaction)
      /\ \A p \in Made(h) : h.promises[p] \in Cell
  BY HostFields
<1>2. 0 \notin Made(h) /\ Made(h) \subseteq Nat
  BY ONLY <1>1
<1>3. \A p \in Made(h) : h.promises[p].reactions \in Seq(Reaction)
  BY <1>1 DEF Cell
<1> QED BY <1>1, <1>2, <1>3 DEF Line, Lines

(* The lines are the same. *)
LEMMA SameLines ==
  ASSUME NEW h, NEW g, NEW k, NEW t, Lines(h) \subseteq Lines(g),
         \A a \in Lines(h) : Line(g, a) = Line(h, a), \A a \in Lines(g) \ Lines(h) : Line(g, a) = <<>>
  PROVE  (Out(g, k, t) <=> Out(h, k, t)) /\ (Once(h, k, t) => Once(g, k, t))
<1>1. \A a \in Lines(g) : DOMAIN Line(g, a) # {} => a \in Lines(h) /\ Line(g, a) = Line(h, a)
  <2>1. DOMAIN <<>> = {}
    OBVIOUS
  <2> QED BY <2>1
<1>2. Out(g, k, t) <=> Out(h, k, t)
  BY <1>1 DEF Out
<1>3. Once(h, k, t) => Once(g, k, t)
  BY <1>1 DEF Once
<1> QED BY <1>2, <1>3

(* One line gets one more. *)
LEMMA LineGrows ==
  ASSUME NEW h, NEW g, NEW k, NEW t, Lines(g) = Lines(h), NEW a \in Lines(h), Line(h, a) \in Seq(Reaction),
         NEW r \in Reaction, Line(g, a) = Append(Line(h, a), r),
         \A b \in Lines(h) : b # a => Line(g, b) = Line(h, b)
  PROVE  /\ Out(g, k, t) <=> Out(h, k, t) \/ Holds(r, k, t)
         /\ Once(h, k, t) /\ ~(Out(h, k, t) /\ Holds(r, k, t)) => Once(g, k, t)
<1> DEFINE n == Len(Line(h, a))
<1>1. /\ n \in Nat /\ DOMAIN Line(h, a) = 1 .. n /\ DOMAIN Line(g, a) = 1 .. n + 1
      /\ \A i \in 1 .. n : Line(g, a)[i] = Line(h, a)[i]
      /\ Line(g, a)[n + 1] = r
  BY LenProperties, AppendProperties
<1> HIDE DEF n
<1>2. 1 .. n \subseteq 1 .. n + 1 /\ n + 1 \in 1 .. n + 1 /\ n + 1 \notin 1 .. n
      /\ \A i \in 1 .. n + 1 : i \in 1 .. n \/ i = n + 1
  BY ONLY <1>1
<1>3. \A b \in Lines(h) : \A i \in DOMAIN Line(h, b) :
        i \in DOMAIN Line(g, b) /\ Line(g, b)[i] = Line(h, b)[i]
  BY <1>1, <1>2
<1>4. \A b \in Lines(g) : \A i \in DOMAIN Line(g, b) :
        \/ i \in DOMAIN Line(h, b) /\ Line(g, b)[i] = Line(h, b)[i]
        \/ b = a /\ i = n + 1 /\ Line(g, b)[i] = r
  BY <1>1, <1>2
<1>5. n + 1 \in DOMAIN Line(g, a) /\ Line(g, a)[n + 1] = r
  BY <1>1, <1>2
<1>6. Out(g, k, t) <=> Out(h, k, t) \/ Holds(r, k, t)
  <2>1. ASSUME Out(g, k, t) PROVE Out(h, k, t) \/ Holds(r, k, t)
    BY ONLY <1>4, <2>1, Lines(g) = Lines(h) DEF Out
  <2>2. ASSUME Out(h, k, t) PROVE Out(g, k, t)
    BY ONLY <1>3, <2>2, Lines(g) = Lines(h) DEF Out
  <2>3. ASSUME Holds(r, k, t) PROVE Out(g, k, t)
    BY ONLY <1>5, <2>3, a \in Lines(h), Lines(g) = Lines(h) DEF Out
  <2> QED BY <2>1, <2>2, <2>3
<1>7. ASSUME Once(h, k, t), ~(Out(h, k, t) /\ Holds(r, k, t)) PROVE Once(g, k, t)
  BY ONLY <1>4, <1>7, Lines(g) = Lines(h) DEF Once, Out
<1> QED BY <1>6, <1>7

(* The job at the front leaves. *)
LEMMA LineShrinks ==
  ASSUME NEW h, NEW g, NEW k, NEW t, Lines(g) = Lines(h), Line(h, 0) \in Seq(Reaction), Line(h, 0) # <<>>,
         Line(g, 0) = Tail(Line(h, 0)), \A b \in Lines(h) : b # 0 => Line(g, b) = Line(h, b)
  PROVE  /\ Out(h, k, t) <=> Out(g, k, t) \/ Holds(Head(Line(h, 0)), k, t)
         /\ Once(h, k, t) => Once(g, k, t) /\ ~(Out(g, k, t) /\ Holds(Head(Line(h, 0)), k, t))
<1> DEFINE n == Len(Line(h, 0))
           F(b, i) == IF b = 0 THEN i + 1 ELSE i
<1>1. /\ n \in Nat \ {0} /\ DOMAIN Line(h, 0) = 1 .. n /\ DOMAIN Line(g, 0) = 1 .. n - 1
      /\ \A i \in 1 .. n - 1 : Line(g, 0)[i] = Line(h, 0)[i + 1]
      /\ Line(h, 0)[1] = Head(Line(h, 0)) /\ 0 \in Lines(h)
  BY LenProperties, HeadTailProperties, EmptySeq DEF Lines
<1> HIDE DEF n
<1>2. /\ \A i \in 1 .. n - 1 : i + 1 \in 1 .. n /\ i + 1 # 1
      /\ \A i, j \in 1 .. n - 1 : i + 1 = j + 1 => i = j
      /\ 1 \in 1 .. n
      /\ \A i \in 1 .. n : i = 1 \/ (i - 1 \in 1 .. n - 1 /\ (i - 1) + 1 = i)
  BY ONLY <1>1
<1>3. \A b \in Lines(g) : \A i \in DOMAIN Line(g, b) :
        /\ F(b, i) \in DOMAIN Line(h, b) /\ Line(g, b)[i] = Line(h, b)[F(b, i)]
        /\ b = 0 => F(b, i) # 1
  BY <1>1, <1>2
<1>4. \A b \in Lines(h) : \A i \in DOMAIN Line(h, b) :
        \/ b = 0 /\ i = 1
        \/ \E j \in DOMAIN Line(g, b) : Line(g, b)[j] = Line(h, b)[i]
  <2>1. \A i \in 1 .. n : i = 1 \/ \E j \in 1 .. n - 1 : Line(g, 0)[j] = Line(h, 0)[i]
    <3> SUFFICES ASSUME NEW i \in 1 .. n, i # 1 PROVE \E j \in 1 .. n - 1 : Line(g, 0)[j] = Line(h, 0)[i]
      OBVIOUS
    <3>1. i - 1 \in 1 .. n - 1 /\ (i - 1) + 1 = i
      BY <1>2
    <3>2. Line(g, 0)[i - 1] = Line(h, 0)[(i - 1) + 1]
      BY <1>1, <3>1
    <3> QED BY <3>1, <3>2
  <2>2. \A b \in Lines(h) : b # 0 => Line(g, b) = Line(h, b)
    OBVIOUS
  <2> QED BY ONLY <1>1, <2>1, <2>2
<1>5. \A b \in Lines(g) : \A i, j \in DOMAIN Line(g, b) : F(b, i) = F(b, j) => i = j
  BY <1>1, <1>2
<1> HIDE DEF F
<1>6. Out(h, k, t) <=> Out(g, k, t) \/ Holds(Head(Line(h, 0)), k, t)
  <2>1. ASSUME Out(h, k, t) PROVE Out(g, k, t) \/ Holds(Head(Line(h, 0)), k, t)
    BY ONLY <1>1, <1>4, <2>1, Lines(g) = Lines(h) DEF Out
  <2>2. ASSUME Out(g, k, t) PROVE Out(h, k, t)
    BY ONLY <1>3, <2>2, Lines(g) = Lines(h) DEF Out
  <2>3. ASSUME Holds(Head(Line(h, 0)), k, t) PROVE Out(h, k, t)
    BY ONLY <1>1, <1>2, <2>3 DEF Out
  <2> QED BY <2>1, <2>2, <2>3
<1>7. ASSUME Once(h, k, t) PROVE Once(g, k, t) /\ ~(Out(g, k, t) /\ Holds(Head(Line(h, 0)), k, t))
  <2>1. Once(g, k, t)
    BY ONLY <1>3, <1>5, <1>7, Lines(g) = Lines(h) DEF Once
  <2>2. ASSUME Out(g, k, t), Holds(Head(Line(h, 0)), k, t) PROVE FALSE
    <3>1. PICK b \in Lines(g) : \E i \in DOMAIN Line(g, b) : Holds(Line(g, b)[i], k, t)
      BY <2>2 DEF Out
    <3>2. PICK i \in DOMAIN Line(g, b) : Holds(Line(g, b)[i], k, t)
      BY <3>1
    <3>3. /\ F(b, i) \in DOMAIN Line(h, b) /\ Holds(Line(h, b)[F(b, i)], k, t) /\ (b = 0 => F(b, i) # 1)
          /\ 1 \in DOMAIN Line(h, 0) /\ Holds(Line(h, 0)[1], k, t)
      BY <1>1, <1>2, <1>3, <2>2, <3>2
    <3> QED BY ONLY <1>1, <1>7, <3>3, b \in Lines(g), Lines(g) = Lines(h) DEF Once
  <2> QED BY <2>1, <2>2
<1> QED BY <1>6, <1>7

(* The reactions of one promise move to the queue. *)
LEMMA LineMoves ==
  ASSUME NEW h, NEW g, NEW k, NEW t, Lines(g) = Lines(h), NEW p \in Lines(h), p # 0,
         Line(h, 0) \in Seq(Reaction), NEW c \in Cell, c.reactions = Line(h, p),
         Line(g, 0) = Line(h, 0) \o Deliveries(c), Line(g, p) = <<>>,
         \A b \in Lines(h) : b # 0 /\ b # p => Line(g, b) = Line(h, b)
  PROVE  (Out(g, k, t) <=> Out(h, k, t)) /\ (Once(h, k, t) => Once(g, k, t))
<1> DEFINE n == Len(Line(h, 0))
           s == Deliveries(c)
           m == Len(s)
<1>1. /\ s \in Seq(Reaction) /\ n \in Nat /\ m \in Nat /\ DOMAIN Line(h, 0) = 1 .. n /\ DOMAIN s = 1 .. m
      /\ DOMAIN Line(g, 0) = 1 .. n + m /\ DOMAIN Line(h, p) = 1 .. m
      /\ \A i \in 1 .. n + m : Line(g, 0)[i] = IF i <= n THEN Line(h, 0)[i] ELSE s[i - n]
      /\ \A i \in 1 .. m : c.reactions[i] \in Reaction /\ s[i] = Delivered(c.reactions[i], c)
  BY LenProperties, ConcatProperties, DeliveriesType
<1>2. \A i \in 1 .. m : Holds(s[i], k, t) <=> Holds(Line(h, p)[i], k, t)
  <2>1. ASSUME NEW r \in Reaction, NEW d, d = Delivered(r, c)
        PROVE  Holds(d, k, t) <=> Holds(r, k, t)
    BY <2>1, DeliveredFields DEF Holds
  <2> HIDE DEF s, m, n
  <2> QED BY <1>1, <2>1
<1> HIDE DEF n, m, s
<1> DEFINE A(b, i) == IF b = 0 /\ ~(i <= n) THEN p ELSE b
           I(b, i) == IF b = 0 /\ ~(i <= n) THEN i - n ELSE i
<1>3. /\ \A i \in 1 .. n + m : i <= n => i \in 1 .. n
      /\ \A i \in 1 .. n + m : ~(i <= n) => i - n \in 1 .. m
      /\ \A i \in 1 .. n : i \in 1 .. n + m /\ i <= n
      /\ \A i \in 1 .. m : i + n \in 1 .. n + m /\ ~(i + n <= n) /\ (i + n) - n = i
      /\ \A i, j \in 1 .. n + m : i - n = j - n => i = j
  BY ONLY <1>1
<1>4. DOMAIN Line(g, p) = {} /\ 0 \in Lines(h)
  BY DEF Lines
<1>5. \A b \in Lines(g) : \A i \in DOMAIN Line(g, b) :
        /\ A(b, i) \in Lines(h) /\ I(b, i) \in DOMAIN Line(h, A(b, i))
        /\ Holds(Line(g, b)[i], k, t) <=> Holds(Line(h, A(b, i))[I(b, i)], k, t)
  <2> TAKE b \in Lines(g)
  <2> TAKE i \in DOMAIN Line(g, b)
  <2>1. CASE b = 0 /\ i <= n
    BY <1>1, <1>3, <1>4, <2>1
  <2>2. CASE b = 0 /\ ~(i <= n)
    <3>1. i - n \in 1 .. m /\ Line(g, b)[i] = s[i - n]
      BY <1>1, <1>3, <2>2
    <3> QED BY <1>1, <1>2, <2>2, <3>1
  <2>3. CASE b # 0
    BY <1>4, <2>3
  <2> QED BY <2>1, <2>2, <2>3
<1>6. \A b \in Lines(h) : \A i \in DOMAIN Line(h, b) :
        \E d \in Lines(g) : \E j \in DOMAIN Line(g, d) : Holds(Line(g, d)[j], k, t) <=> Holds(Line(h, b)[i], k, t)
  <2> TAKE b \in Lines(h)
  <2> TAKE i \in DOMAIN Line(h, b)
  <2>1. CASE b = 0
    <3>1. i \in DOMAIN Line(g, 0) /\ Line(g, 0)[i] = Line(h, b)[i]
      BY <1>1, <1>3, <2>1
    <3> QED BY <1>4, <2>1, <3>1
  <2>2. CASE b = p
    <3>1. i + n \in DOMAIN Line(g, 0) /\ Line(g, 0)[i + n] = s[i] /\ i \in 1 .. m
      BY <1>1, <1>3, <2>2
    <3> QED BY <1>2, <1>4, <2>2, <3>1
  <2>3. CASE b # 0 /\ b # p
    BY <2>3
  <2> QED BY <2>1, <2>2, <2>3
<1>7. \A b, d \in Lines(g) : \A i \in DOMAIN Line(g, b), j \in DOMAIN Line(g, d) :
        A(b, i) = A(d, j) /\ I(b, i) = I(d, j) => b = d /\ i = j
  <2> SUFFICES ASSUME NEW b \in Lines(g), NEW d \in Lines(g),
                      NEW i \in DOMAIN Line(g, b), NEW j \in DOMAIN Line(g, d),
                      A(b, i) = A(d, j), I(b, i) = I(d, j)
               PROVE  b = d /\ i = j
    OBVIOUS
  <2>1. b # p /\ d # p
    BY <1>4
  <2>2. CASE b = 0 /\ d = 0
    <3>1. i \in 1 .. n + m /\ j \in 1 .. n + m
      BY <1>1, <2>2
    <3>2. (i <= n) <=> (j <= n)
      BY <2>2
    <3> QED BY <1>1, <1>3, <2>2, <3>1, <3>2
  <2>3. CASE b # 0 \/ d # 0
    BY <2>1, <2>3
  <2> QED BY <2>2, <2>3
<1> HIDE DEF A, I
<1>8. Out(g, k, t) <=> Out(h, k, t)
  <2>1. ASSUME Out(g, k, t) PROVE Out(h, k, t)
    BY ONLY <1>5, <2>1 DEF Out
  <2>2. ASSUME Out(h, k, t) PROVE Out(g, k, t)
    BY ONLY <1>6, <2>2 DEF Out
  <2> QED BY <2>1, <2>2
<1>9. ASSUME Once(h, k, t) PROVE Once(g, k, t)
  BY ONLY <1>5, <1>7, <1>9 DEF Once
<1> QED BY <1>8, <1>9

SameOut(h, g, k, t) == (Out(g, k, t) <=> Out(h, k, t)) /\ (Once(h, k, t) => Once(g, k, t))
MoreOut(h, g, r, k, t) ==
  /\ Out(g, k, t) <=> Out(h, k, t) \/ Holds(r, k, t)
  /\ Once(h, k, t) /\ ~(Out(h, k, t) /\ Holds(r, k, t)) => Once(g, k, t)

\* The promises a checkpoint would report, and how they come to be.
Unreported(h) == {p \in Made(h) : h.promises[p].state = "rejected" /\ ~h.promises[p].handled}
Accounted(h, g) == Listed(h) \subseteq Listed(g) /\ Unreported(g) \subseteq Unreported(h) \cup Listed(g)

LEMMA OutNames ==
  ASSUME NEW h, NEW its, HostOK(h, its), NEW k, NEW t, Out(h, k, t)
  PROVE  IF k \in 1 .. 2 THEN t \in DOMAIN its ELSE t \in Made(h)
<1>1. PICK a \in Lines(h) : \E i \in DOMAIN Line(h, a) : Holds(Line(h, a)[i], k, t)
  BY DEF Out
<1>2. PICK i \in DOMAIN Line(h, a) : Holds(Line(h, a)[i], k, t)
  BY <1>1
<1>3. Names(Line(h, a)[i], Newest(h), its) /\ Made(h) = 1 .. Newest(h)
  <2>1. CASE a = 0
    BY <2>1, HostFields, LineFields DEF HostOK, JobsOK, Newest
  <2>2. CASE a # 0
    <3>1. a \in Made(h) /\ Line(h, a) = h.promises[a].reactions
      BY <2>2, LineFields DEF Lines
    <3>2. CellOK(h.promises[a], a, Newest(h), its) /\ Made(h) = 1 .. Newest(h)
      BY <3>1, HostFields
    <3> QED BY <3>1, <3>2 DEF CellOK
  <2> QED BY <2>1, <2>2
<1> QED BY <1>2, <1>3 DEF Holds, Names

LEMMA NewOut ==
  ASSUME NEW h, NEW its, HostOK(h, its), NEW e \in BOOLEAN, NEW g, g = new_promise(h, e), NEW k, NEW t
  PROVE  SameOut(h, g, k, t) /\ Accounted(h, g)
<1>1. /\ HostOK(g, its) /\ Newest(g) = Newest(h) + 1
      /\ Newest(g) \in Made(g) /\ Made(g) = Made(h) \cup {Newest(g)}
      /\ \A p \in Made(h) : g.promises[p] = h.promises[p]
      /\ g.promises[Newest(g)] = [state |-> "pending", value |-> Undefined, reactions |-> <<>>,
                                  handled |-> FALSE, exposed |-> e]
      /\ g.microtasks = h.microtasks /\ g.pending_rejections = h.pending_rejections
  BY NewPromises
<1>2. /\ Lines(h) \subseteq Lines(g) /\ \A a \in Lines(h) : Line(g, a) = Line(h, a)
      /\ \A a \in Lines(g) \ Lines(h) : Line(g, a) = <<>>
  BY <1>1, LineFields DEF Line, Lines
<1>3. SameOut(h, g, k, t)
  BY <1>2, SameLines DEF SameOut
<1>4. Accounted(h, g)
  BY <1>1 DEF Accounted, Unreported, Listed
<1> QED BY <1>3, <1>4

LEMMA SubscribeOut ==
  ASSUME NEW h, NEW its, HostOK(h, its), NEW p \in Made(h), NEW r \in Reaction,
         Names(r, Newest(h), its), r.from = p, r.kind \notin {"subscribe", "thenable"},
         r.kind = "then" => Newer(h, r.to), NEW g, g = subscribe(h, p, r), NEW k, NEW t
  PROVE  MoreOut(h, g, r, k, t) /\ Accounted(h, g)
<1>1. /\ HostOK(g, its) /\ Made(g) = Made(h) /\ Alike(h, g, {})
      /\ g.pending_rejections = h.pending_rejections
      /\ \A q \in Made(h) : q # p => g.promises[q] = h.promises[q]
      /\ g.promises[p].handled
      /\ IF h.promises[p].state = "pending"
         THEN /\ g.promises[p].reactions = Append(h.promises[p].reactions, r)
              /\ g.microtasks = h.microtasks
         ELSE /\ g.promises[p].reactions = h.promises[p].reactions
              /\ g.microtasks = Append(h.microtasks, Delivered(r, h.promises[p]))
  BY Subscribing
<1>2. /\ \A a \in Lines(h) : Line(h, a) \in Seq(Reaction)
      /\ 0 \notin Made(h) /\ p # 0 /\ p \in Lines(h) /\ 0 \in Lines(h) /\ Lines(g) = Lines(h)
      /\ \A q \in Made(h) : Line(h, q) = h.promises[q].reactions /\ Line(g, q) = g.promises[q].reactions
      /\ Line(h, 0) = h.microtasks /\ Line(g, 0) = g.microtasks
  BY <1>1, LineFields DEF Lines, Line
<1>3. MoreOut(h, g, r, k, t)
  <2>1. CASE h.promises[p].state = "pending"
    <3>1. Line(g, p) = Append(Line(h, p), r) /\ \A b \in Lines(h) : b # p => Line(g, b) = Line(h, b)
      <4>1. Line(g, p) = Append(Line(h, p), r) /\ Line(g, 0) = Line(h, 0)
        BY ONLY <1>1, <1>2, <2>1, p \in Made(h)
      <4>2. \A q \in Made(h) : q # p => Line(g, q) = Line(h, q)
        BY ONLY <1>1, <1>2
      <4> QED BY ONLY <4>1, <4>2 DEF Lines
    <3> QED BY ONLY <1>2, <3>1, r \in Reaction, LineGrows DEF MoreOut
  <2>2. CASE h.promises[p].state # "pending"
    <3> DEFINE d == Delivered(r, h.promises[p])
    <3>1. d \in Reaction /\ d.kind = r.kind /\ d.to = r.to /\ d.at = r.at /\ d.from = r.from
      BY HostFields, DeliveredFields
    <3>2. Line(g, 0) = Append(Line(h, 0), d) /\ \A b \in Lines(h) : b # 0 => Line(g, b) = Line(h, b)
      <4>1. Line(g, p) = Line(h, p) /\ Line(g, 0) = Append(Line(h, 0), d)
        BY ONLY <1>1, <1>2, <2>2, p \in Made(h)
      <4>2. \A q \in Made(h) : q # p => Line(g, q) = Line(h, q)
        BY ONLY <1>1, <1>2
      <4> QED BY ONLY <4>1, <4>2 DEF Lines
    <3> HIDE DEF d
    <3>3. Holds(d, k, t) <=> Holds(r, k, t)
      BY <3>1 DEF Holds
    <3>4. MoreOut(h, g, d, k, t)
      BY ONLY <1>2, <3>1, <3>2, LineGrows DEF MoreOut
    <3> QED BY <3>3, <3>4 DEF MoreOut
  <2> QED BY <2>1, <2>2
<1>4. Accounted(h, g)
  <2>1. \A q \in Made(h) : g.promises[q].state = h.promises[q].state
                           /\ (h.promises[q].handled => g.promises[q].handled)
    BY <1>1 DEF Alike
  <2>2. Listed(g) = Listed(h)
    BY <1>1 DEF Listed
  <2> QED BY <1>1, <2>1, <2>2 DEF Accounted, Unreported
<1> QED BY <1>3, <1>4

(* A promise settles. *)
LEMMA SettleOut ==
  ASSUME NEW h, NEW its, HostOK(h, its), NEW p \in Made(h), NEW g, HostOK(g, its), Made(g) = Made(h),
         NEW state, NEW v, SettledTo(h, g, p, state, v), NEW k, NEW t
  PROVE  SameOut(h, g, k, t)
<1>0. PICK c : SettlesAs(h, g, p, c)
  BY DEF SettledTo
<1>1. /\ c \in Cell /\ c.reactions = h.promises[p].reactions
      /\ \A q \in Made(h) : q # p => g.promises[q] = h.promises[q]
      /\ g.promises[p].reactions = <<>>
      /\ g.microtasks = h.microtasks \o Deliveries(c)
  BY <1>0, SettledCell DEF SettlesAs
<1>2. /\ \A a \in Lines(h) : Line(h, a) \in Seq(Reaction)
      /\ p # 0 /\ p \in Lines(h) /\ 0 \in Lines(h) /\ Lines(g) = Lines(h)
      /\ \A q \in Made(h) : Line(h, q) = h.promises[q].reactions /\ Line(g, q) = g.promises[q].reactions
      /\ Line(h, 0) = h.microtasks /\ Line(g, 0) = g.microtasks
  BY LineFields DEF Lines
<1>3. /\ c.reactions = Line(h, p) /\ Line(g, 0) = Line(h, 0) \o Deliveries(c) /\ Line(g, p) = <<>>
      /\ \A b \in Lines(h) : b # 0 /\ b # p => Line(g, b) = Line(h, b)
  BY <1>1, <1>2 DEF Lines
<1>4. p # 0 /\ p \in Lines(h) /\ Lines(g) = Lines(h) /\ Line(h, 0) \in Seq(Reaction) /\ Line(g, p) = <<>>
  BY <1>2, <1>3
<1>5. Out(g, k, t) <=> Out(h, k, t)
  BY ONLY <1>1, <1>3, <1>4, LineMoves
<1>6. Once(h, k, t) => Once(g, k, t)
  BY ONLY <1>1, <1>3, <1>4, LineMoves
<1> QED BY <1>5, <1>6 DEF SameOut

LEMMA QueueOut ==
  ASSUME NEW h, NEW its, HostOK(h, its), NEW g, HostOK(g, its), g.promises = h.promises,
         NEW job \in Reaction, job.kind \in {"subscribe", "thenable"},
         g.microtasks = Append(h.microtasks, job), NEW k, NEW t
  PROVE  MoreOut(h, g, job, k, t)
<1>1. /\ Lines(g) = Lines(h) /\ 0 \in Lines(h) /\ Line(h, 0) \in Seq(Reaction)
      /\ Line(g, 0) = Append(Line(h, 0), job) /\ \A b \in Lines(h) : b # 0 => Line(g, b) = Line(h, b)
  BY LineFields DEF Lines, Line, Made
<1>2. /\ Out(g, k, t) <=> Out(h, k, t) \/ Holds(job, k, t)
      /\ Once(h, k, t) /\ ~(Out(h, k, t) /\ Holds(job, k, t)) => Once(g, k, t)
  BY <1>1, LineGrows
<1> QED BY <1>2 DEF MoreOut

\* What resolving p with x queues.
Queued(x, p) == IF x.is = "promise" THEN Continue("subscribe", x.promise, p) ELSE Continue("thenable", 0, p)

LEMMA PopOut ==
  ASSUME NEW h, NEW its, HostOK(h, its), h.microtasks # <<>>,
         NEW g, g = [h EXCEPT !.microtasks = Tail(h.microtasks)], NEW job, job = Head(h.microtasks),
         NEW k, NEW t
  PROVE  /\ Out(h, k, t) <=> Out(g, k, t) \/ Holds(job, k, t)
         /\ Once(h, k, t) => Once(g, k, t) /\ ~(Out(g, k, t) /\ Holds(job, k, t))
         /\ Accounted(h, g)
<1>1. /\ HostOK(g, its) /\ g.promises = h.promises /\ g.microtasks = Tail(h.microtasks)
      /\ g.pending_rejections = h.pending_rejections
  BY Popping
<1>2. /\ Lines(g) = Lines(h) /\ Line(h, 0) \in Seq(Reaction) /\ Line(h, 0) # <<>>
      /\ Line(g, 0) = Tail(Line(h, 0)) /\ \A b \in Lines(h) : b # 0 => Line(g, b) = Line(h, b)
      /\ Line(h, 0) = h.microtasks
  BY <1>1, LineFields DEF Lines, Line, Made
<1>3. /\ Out(h, k, t) <=> Out(g, k, t) \/ Holds(Head(Line(h, 0)), k, t)
      /\ Once(h, k, t) => Once(g, k, t) /\ ~(Out(g, k, t) /\ Holds(Head(Line(h, 0)), k, t))
  BY ONLY <1>2, LineShrinks
<1>4. Accounted(h, g)
  BY <1>1 DEF Accounted, Unreported, Listed, Made
<1> QED BY <1>2, <1>3, <1>4

LEMMA ResolveOut ==
  ASSUME NEW h, NEW its, HostOK(h, its), NEW p \in Made(h), NEW x, Resolvable(x, Newest(h)),
         NEW g, g = Resolve(h, p, x), NEW k, NEW t
  PROVE  /\ SameOut(h, g, k, t) \/ MoreOut(h, g, Queued(x, p), k, t)
         /\ x.is \in {"plain", "reason"} => SameOut(h, g, k, t)
         /\ Accounted(h, g)
<1>1. /\ HostOK(g, its) /\ Made(g) = Made(h) /\ Lists(h, g)
      /\ (h.promises[p].state = "pending" => Outcome(h, g, p, x))
  BY ONLY HostOK(h, its), p \in Made(h), Resolvable(x, Newest(h)), g = Resolve(h, p, x), Resolving
<1>2. Accounted(h, g)
  BY <1>1 DEF Lists, Accounted, Unreported
<1>3. /\ SameOut(h, g, k, t) \/ MoreOut(h, g, Queued(x, p), k, t)
      /\ x.is \in {"plain", "reason"} => SameOut(h, g, k, t)
  <2>1. CASE h.promises[p].state # "pending"
    BY <2>1, SettledOnce DEF SameOut
  <2>2. CASE h.promises[p].state = "pending"
    <3>1. x.is \in {"plain", "promise", "thenable", "reason"} /\ x.promise \in Nat /\ p \in Nat
      BY HostFields DEF Resolvable, Resolution
    <3>2. CASE \E s, v : SettledTo(h, g, p, s, v)
      <4>1. SameOut(h, g, k, t)
        BY <1>1, <3>2, SettleOut
      <4> QED BY <4>1 DEF SameOut
    <3>3. ASSUME NEW job \in Reaction, job.kind \in {"subscribe", "thenable"}, g.promises = h.promises,
                 g.microtasks = Append(h.microtasks, job), job = Queued(x, p)
          PROVE  MoreOut(h, g, Queued(x, p), k, t)
      BY <1>1, <3>3, QueueOut
    <3>4. /\ Continue("subscribe", x.promise, p) \in Reaction
          /\ Continue("subscribe", x.promise, p).kind = "subscribe"
          /\ Continue("thenable", 0, p) \in Reaction /\ Continue("thenable", 0, p).kind = "thenable"
      BY <3>1 DEF Continue, Reaction, State, AnyValue
    <3>5. Outcome(h, g, p, x)
      BY <1>1, <2>2
    <3>6. CASE x.is = "thenable"
      BY <3>3, <3>4, <3>5, <3>6 DEF Outcome, Queued
    <3>7. CASE x.is = "promise" /\ x.promise # p
      BY <3>3, <3>4, <3>5, <3>7 DEF Outcome, Queued
    <3>8. CASE x.is \in {"plain", "reason"} \/ (x.is = "promise" /\ x.promise = p)
      BY <3>2, <3>5, <3>8 DEF Outcome
    <3> QED BY <3>1, <3>6, <3>7, <3>8
  <2> QED BY <2>1, <2>2
<1> QED BY <1>2, <1>3

(* One promise settles as another did. *)
Adopted(h, g, its, p, state, v) ==
  /\ HostOK(g, its) /\ Alike(h, g, {p}) /\ Made(g) = Made(h)
  /\ g.pending_rejections = h.pending_rejections
  /\ \A k, t : SameOut(h, g, k, t)
  /\ IF h.promises[p].state = "pending"
     THEN SettledTo(h, g, p, state, v)
     ELSE g.promises = h.promises /\ g.microtasks = h.microtasks

LEMMA Adopting ==
  ASSUME NEW h, NEW its, HostOK(h, its), NEW p \in Made(h),
         NEW state \in {"fulfilled", "rejected"}, NEW v \in AnyValue,
         NEW l, l = settle_promise(h, p, state, v), NEW g, g = schedule_reactions(l, p)
  PROVE  Adopted(h, g, its, p, state, v)
<1>1. CASE h.promises[p].state = "pending"
  <2>1. /\ HostOK(g, its) /\ Alike(h, g, {p}) /\ Made(g) = Made(h)
        /\ g.pending_rejections = h.pending_rejections
        /\ SettledTo(h, g, p, state, v)
    BY <1>1, Settlement
  <2>2. \A k, t : SameOut(h, g, k, t)
    BY <2>1, SettleOut
  <2> QED BY <1>1, <2>1, <2>2 DEF Adopted
<1>2. CASE h.promises[p].state # "pending"
  <2> DEFINE cell == h.promises[p]
  <2>1. /\ h \in Host /\ h.promises \in Seq(Cell) /\ h.microtasks \in Seq(Reaction) /\ p \in DOMAIN h.promises
        /\ cell \in Cell /\ cell.reactions = <<>>
    BY <1>2, HostFields DEF Made, CellOK
  <2>2. l = h
    BY <1>2 DEF settle_promise, promise_state
  <2>3. h.microtasks \o Deliveries(cell) = h.microtasks
    <3>1. Deliveries(cell) = <<>>
      BY <2>1 DEF Deliveries
    <3> QED BY <2>1, <3>1
  <2>4. [cell EXCEPT !.reactions = <<>>] = cell
    BY ONLY <2>1 DEF Cell
  <2>5. [h.promises EXCEPT ![p].reactions = <<>>] = h.promises
    <3>1. [h.promises EXCEPT ![p] = cell] = h.promises
      BY ONLY <2>1
    <3> QED BY ONLY <2>4, <3>1
  <2>6. g = [h EXCEPT !.microtasks = @ \o Deliveries(cell), !.promises[p].reactions = <<>>]
    BY ONLY <2>2, g = schedule_reactions(l, p) DEF schedule_reactions, Deliveries
  <2> HIDE DEF cell
  <2>7. /\ g \in Host /\ g.promises = h.promises /\ g.microtasks = h.microtasks
        /\ g.pending_rejections = h.pending_rejections
    BY ONLY <2>1, <2>3, <2>5, <2>6 DEF Host
  <2>8. HostOK(g, its) /\ Alike(h, g, {})
    BY <2>7, JobsChange DEF HostOK
  <2>9. Made(g) = Made(h) /\ Alike(h, g, {p})
    BY <2>7, <2>8 DEF Made, Alike
  <2>10. \A k, t : SameOut(h, g, k, t)
    <3> TAKE k, t
    <3>1. Lines(g) = Lines(h) /\ \A a \in Lines(h) : Line(g, a) = Line(h, a)
      BY <2>7, <2>9 DEF Lines, Line
    <3> QED BY <3>1, SameLines DEF SameOut
  <2> QED BY <1>2, <2>7, <2>8, <2>9, <2>10 DEF Adopted
<1> QED BY <1>1, <1>2

Awaited(h, x) == (x.is = "promise" /\ x.promise \in Made(h)) \/ (x.is = "plain" /\ x \in Resolution)
AwaitOut(h, g, q, k, t) ==
  /\ Out(g, k, t) <=> Out(h, k, t) \/ (k = 0 /\ t = q)
  /\ Once(h, k, t) /\ ~(Out(h, k, t) /\ k = 0 /\ t = q) => Once(g, k, t)

\* Promise q gets a continuation, and nothing else does.
Continued(h, g, q) == \A k \in Nat, t \in Nat : AwaitOut(h, g, q, k, t)

\* What is awaited, if it is no promise, is the value of a promise of its own.
AwaitedValue(g, x) ==
  x.is = "plain" => /\ g.promises[Newest(g)].exposed = FALSE
                    /\ g.promises[Newest(g)].state = "fulfilled"
                    /\ g.promises[Newest(g)].value = x.value

\* From h to g only the promises of S settle, and no rejection escapes the list.
Effect(h, g, its, S) == HostOK(g, its) /\ Alike(h, g, S) /\ Accounted(h, g)

(* A continuation is subscribed. *)
LEMMA SubscribeAwait ==
  ASSUME NEW h, NEW its, HostOK(h, its), NEW p \in Made(h), NEW q \in Made(h),
         NEW g, g = subscribe(h, p, Continue("await", p, q))
  PROVE  /\ HostOK(g, its) /\ Alike(h, g, {}) /\ Newest(g) = Newest(h) /\ Made(g) = Made(h) /\ Accounted(h, g)
         /\ \A k \in Nat, t \in Nat : AwaitOut(h, g, q, k, t)
<1> DEFINE r == Continue("await", p, q)
<1>1. p \in Nat /\ q \in Nat /\ Made(h) = 1 .. Newest(h) /\ Newest(h) \in Nat
  BY HostFields
<1>2. r \in Reaction /\ r.kind = "await" /\ r.from = p /\ r.to = q
  BY <1>1, Continuations
<1> HIDE DEF r
<1>3. Names(r, Newest(h), its)
  BY <1>1, <1>2 DEF Names
<1>4. g = subscribe(h, p, r)
  BY DEF r
<1>5. HostOK(g, its) /\ Alike(h, g, {}) /\ Newest(g) = Newest(h) /\ Made(g) = Made(h)
  BY <1>2, <1>3, <1>4, Subscribing
<1>6. \A k, t : MoreOut(h, g, r, k, t) /\ Accounted(h, g)
  BY <1>2, <1>3, <1>4, SubscribeOut
<1>7. ASSUME NEW k \in Nat, NEW t \in Nat PROVE AwaitOut(h, g, q, k, t)
  <2>1. Holds(r, k, t) <=> k = 0 /\ t = q
    BY <1>2 DEF Holds
  <2> QED BY <1>6, <2>1 DEF AwaitOut, MoreOut
<1> QED BY <1>5, <1>6, <1>7

LEMMA AccountedTransitive ==
  ASSUME NEW a, NEW b, NEW c, Accounted(a, b), Accounted(b, c)
  PROVE  Accounted(a, c)
BY DEF Accounted

(* Await *)
LEMMA Awaits ==
  ASSUME NEW h, NEW its, HostOK(h, its), NEW q \in Made(h), NEW x, Awaited(h, x),
         NEW g, g = Await(h, q, x)
  PROVE  Effect(h, g, its, {}) /\ Newest(g) = Newest(h) + AwaitRoom(x) /\ AwaitedValue(g, x) /\ Continued(h, g, q)
<1>0. Newest(h) \in Nat /\ Made(h) = 1 .. Newest(h)
  BY HostFields
<1>1. CASE x.is = "promise" /\ x.promise \in Made(h)
  <2>1. g = subscribe(h, x.promise, Continue("await", x.promise, q))
    BY <1>1 DEF Await
  <2>2. /\ HostOK(g, its) /\ Alike(h, g, {}) /\ Newest(g) = Newest(h) /\ Made(g) = Made(h) /\ Accounted(h, g)
        /\ \A k \in Nat, t \in Nat : AwaitOut(h, g, q, k, t)
    <3> DEFINE p == x.promise
    <3>1. p \in Made(h) /\ g = subscribe(h, p, Continue("await", p, q))
      BY <1>1, <2>1
    <3> HIDE DEF p
    <3> QED BY ONLY <3>1, HostOK(h, its), q \in Made(h), SubscribeAwait
  <2> QED BY <1>0, <1>1, <2>2 DEF AwaitRoom, Effect, AwaitedValue, Continued
<1>2. CASE x.is = "plain" /\ x \in Resolution
  <2> DEFINE a == new_promise(h, FALSE)
             p == Newest(a)
             b == Resolve(a, p, x)
  <2>1. /\ HostOK(a, its) /\ Alike(h, a, {}) /\ p = Newest(h) + 1
        /\ p \in Made(a) /\ Made(a) = Made(h) \cup {p}
        /\ a.promises[p] = [state |-> "pending", value |-> Undefined, reactions |-> <<>>,
                            handled |-> FALSE, exposed |-> FALSE]
    BY NewPromises
  <2>2. \A k, t : SameOut(h, a, k, t) /\ Accounted(h, a)
    BY NewOut
  <2>3. g = subscribe(b, p, Continue("await", p, q))
    BY <1>2 DEF Await, Resolve
  <2> HIDE DEF a, p
  <2>4. Resolvable(x, Newest(a)) /\ a.promises[p].state = "pending" /\ a.promises[p].exposed = FALSE
    BY <1>2, <2>1 DEF Resolvable
  <2>5. /\ HostOK(b, its) /\ Alike(a, b, {p}) /\ Made(b) = Made(a) /\ Outcome(a, b, p, x)
    <3> HIDE DEF b
    <3>1. b = Resolve(a, p, x)
      BY DEF b
    <3>2. HostOK(a, its) /\ p \in Made(a) /\ Resolvable(x, Newest(a)) /\ a.promises[p].state = "pending"
      BY <2>1, <2>4
    <3>3. HostOK(b, its) /\ Alike(a, b, {p}) /\ Made(b) = Made(a)
      BY ONLY <3>1, <3>2, Resolving
    <3>4. Outcome(a, b, p, x)
      BY ONLY <3>1, <3>2, Resolving
    <3> QED BY <3>3, <3>4
  <2>6. \A k, t : SameOut(a, b, k, t) /\ Accounted(a, b)
    <3> HIDE DEF b
    <3>1. b = Resolve(a, p, x) /\ x.is \in {"plain", "reason"}
      BY <1>2 DEF b
    <3>2. HostOK(a, its) /\ p \in Made(a) /\ Resolvable(x, Newest(a))
      BY <2>1, <2>4
    <3> QED BY ONLY <3>1, <3>2, ResolveOut
  <2> HIDE DEF b
  <2>7. q \in Made(b) /\ p \in Made(b)
    BY <2>1, <2>5
  <2>8. /\ HostOK(g, its) /\ Alike(b, g, {}) /\ Newest(g) = Newest(b) /\ Made(g) = Made(b) /\ Accounted(b, g)
        /\ \A k \in Nat, t \in Nat : AwaitOut(b, g, q, k, t)
    BY <2>3, <2>5, <2>7, SubscribeAwait
  <2>9. b.promises[p].state = "fulfilled" /\ b.promises[p].value = x.value
    <3>1. SettledTo(a, b, p, "fulfilled", x.value)
      BY <1>2, <2>5 DEF Outcome
    <3> QED BY <3>1, SettledFields
  <2>10. /\ g.promises[p].state = "fulfilled" /\ g.promises[p].value = x.value /\ g.promises[p].exposed = FALSE
    BY <2>1, <2>4, <2>5, <2>7, <2>8, <2>9 DEF Alike
  <2>11. Newest(g) = p /\ p = Newest(h) + AwaitRoom(x)
    <3>1. Newest(b) = Newest(a)
      <4>1. /\ Newest(a) \in Nat /\ Newest(b) \in Nat /\ Made(a) = 1 .. Newest(a) /\ Made(b) = 1 .. Newest(b)
        BY <2>1, <2>5, HostFields
      <4>2. \A i, j \in Nat : 1 .. i = 1 .. j => i = j
        <5> SUFFICES ASSUME NEW i \in Nat, NEW j \in Nat, 1 .. i = 1 .. j PROVE i = j
          OBVIOUS
        <5>1. (i = 0 \/ i \in 1 .. j) /\ (j = 0 \/ j \in 1 .. i)
          OBVIOUS
        <5>2. i = 0 => j = 0
          BY <5>1
        <5>3. j = 0 => i = 0
          BY <5>1
        <5> QED BY <5>1, <5>2, <5>3
      <4> QED BY <2>5, <4>1, <4>2
    <3> QED BY <1>2, <2>1, <2>8, <3>1 DEF AwaitRoom, p
  <2>12. Alike(h, g, {})
    <3>1. /\ \A i \in Made(h) : i \in Made(a) /\ i \in Made(b) /\ i # p
      BY <1>0, <2>1, <2>5
    <3>2. Newest(h) <= Newest(g)
      BY <1>0, <2>1, <2>11
    <3> QED BY <2>1, <2>5, <2>8, <3>1, <3>2 DEF Alike
  <2>13. ASSUME NEW k \in Nat, NEW t \in Nat PROVE AwaitOut(h, g, q, k, t)
    BY <2>2, <2>6, <2>8 DEF AwaitOut, SameOut
  <2>14. Accounted(h, g)
    BY <2>2, <2>6, <2>8 DEF Accounted
  <2>15. AwaitedValue(g, x)
    BY <2>10, <2>11 DEF AwaitedValue
  <2> QED BY <2>8, <2>11, <2>12, <2>13, <2>14, <2>15 DEF Effect, Continued
<1> QED BY <1>1, <1>2 DEF Awaited

----------------------------------------------------------------------------
(* What the operations of the program and the jobs of the loop do to the host. *)

\* A promise that nobody can settle but its continuation.
Fresh(g, q) == q \in Made(g) /\ g.promises[q].exposed = FALSE /\ g.promises[q].state = "pending"

(* then() *)
ThenDone(h, p, q, f, e) == subscribe(new_promise(h, FALSE), p, Then(p, q, f, e))

LEMMA Thens ==
  ASSUME NEW h, NEW its, HostOK(h, its), NEW p \in Made(h), NEW f \in BOOLEAN, NEW e \in BOOLEAN,
         NEW q, q = Newest(h) + 1, NEW g, g = ThenDone(h, p, q, f, e)
  PROVE  Effect(h, g, its, {}) /\ Newest(g) = q /\ Fresh(g, q) /\ Continued(h, g, q)
<1> DEFINE a == new_promise(h, FALSE)
           r == Then(p, q, f, e)
<1>0. Newest(h) \in Nat /\ Made(h) = 1 .. Newest(h)
  BY HostFields
<1>1. /\ HostOK(a, its) /\ Alike(h, a, {}) /\ Newest(a) = q
      /\ q \in Made(a) /\ Made(a) = Made(h) \cup {q} /\ Newer(a, q)
      /\ a.promises[q] = [state |-> "pending", value |-> Undefined, reactions |-> <<>>,
                          handled |-> FALSE, exposed |-> FALSE]
  BY NewPromises
<1>2. \A k, t : SameOut(h, a, k, t) /\ Accounted(h, a)
  BY NewOut
<1>3. r \in Reaction /\ r.kind = "then" /\ r.from = p /\ r.to = q
  <2>1. p \in Nat /\ q \in Nat
    BY <1>0
  <2> QED BY ONLY <2>1, f \in BOOLEAN, e \in BOOLEAN DEF Then, Continue, Reaction, State, AnyValue
<1> HIDE DEF a, r
<1>4. g = subscribe(a, p, r)
  BY DEF a, r, ThenDone
<1>5. p \in Made(a) /\ Made(a) = 1 .. Newest(a)
  BY <1>1, HostFields
<1>6. Names(r, Newest(a), its)
  BY <1>1, <1>3, <1>5 DEF Names
<1>7. /\ HostOK(g, its) /\ Alike(a, g, {}) /\ Newest(g) = Newest(a) /\ Made(g) = Made(a)
  <2>1. /\ HostOK(a, its) /\ p \in Made(a) /\ r \in Reaction /\ Names(r, Newest(a), its) /\ r.from = p
        /\ r.kind \notin {"subscribe", "thenable"} /\ (r.kind = "then" => Newer(a, r.to)) /\ g = subscribe(a, p, r)
    BY <1>1, <1>3, <1>4, <1>5, <1>6
  <2> QED BY ONLY <2>1, Subscribing
<1>8. \A k, t : MoreOut(a, g, r, k, t) /\ Accounted(a, g)
  BY <1>1, <1>3, <1>4, <1>5, <1>6, SubscribeOut
<1>9. g.promises[q].exposed = FALSE /\ g.promises[q].state = "pending"
  <2>1. a.promises[q].exposed = FALSE /\ a.promises[q].state = "pending"
    BY ONLY <1>1
  <2> QED BY ONLY <1>1, <1>7, <2>1 DEF Alike
<1>10. ASSUME NEW k \in Nat, NEW t \in Nat PROVE AwaitOut(h, g, q, k, t)
  <2>1. Holds(r, k, t) <=> k = 0 /\ t = q
    BY <1>3 DEF Holds
  <2> QED BY <1>2, <1>8, <2>1 DEF AwaitOut, SameOut, MoreOut
<1>11. Alike(h, g, {})
  BY <1>1, <1>7, AlikeTransitive
<1>12. Accounted(h, g)
  BY <1>2, <1>8, AccountedTransitive
<1> QED BY <1>1, <1>7, <1>9, <1>10, <1>11, <1>12 DEF Effect, Fresh, Continued

(* A call of an async function. *)
LEMMA Asyncs ==
  ASSUME NEW h, NEW its, HostOK(h, its), NEW x, Awaited(h, x),
         NEW q, q = Newest(h) + 1, NEW g, g = Await(new_promise(h, FALSE), Newest(new_promise(h, FALSE)), x)
  PROVE  /\ Effect(h, g, its, {}) /\ Newest(g) = q + AwaitRoom(x) /\ AwaitedValue(g, x)
         /\ Fresh(g, q) /\ Continued(h, g, q)
<1> DEFINE a == new_promise(h, FALSE)
<1>0. Newest(h) \in Nat /\ Made(h) = 1 .. Newest(h)
  BY HostFields
<1>1. /\ HostOK(a, its) /\ Alike(h, a, {}) /\ Newest(a) = q
      /\ q \in Made(a) /\ Made(a) = Made(h) \cup {q} /\ Newer(a, q)
      /\ a.promises[q] = [state |-> "pending", value |-> Undefined, reactions |-> <<>>,
                          handled |-> FALSE, exposed |-> FALSE]
  BY NewPromises
<1>2. \A k, t : SameOut(h, a, k, t) /\ Accounted(h, a)
  BY NewOut
<1>3. g = Await(a, q, x)
  BY <1>1
<1> HIDE DEF a
<1>4. Awaited(a, x)
  BY <1>1 DEF Awaited
<1>5. /\ HostOK(g, its) /\ Alike(a, g, {}) /\ Newest(g) = Newest(a) + AwaitRoom(x) /\ Accounted(a, g)
      /\ AwaitedValue(g, x) /\ Continued(a, g, q)
  <2>1. Effect(a, g, its, {}) /\ Newest(g) = Newest(a) + AwaitRoom(x) /\ AwaitedValue(g, x) /\ Continued(a, g, q)
    BY ONLY <1>1, <1>3, <1>4, Awaits
  <2> QED BY <2>1 DEF Effect
<1>6. g.promises[q].exposed = FALSE /\ g.promises[q].state = "pending"
  <2>1. a.promises[q].exposed = FALSE /\ a.promises[q].state = "pending"
    BY ONLY <1>1
  <2> QED BY ONLY <1>1, <1>5, <2>1 DEF Alike
<1>7. ASSUME NEW k \in Nat, NEW t \in Nat PROVE AwaitOut(h, g, q, k, t)
  BY <1>2, <1>5 DEF Continued, AwaitOut, SameOut
<1>8. Alike(h, g, {})
  BY <1>1, <1>5, AlikeTransitive
<1>9. Accounted(h, g)
  BY <1>2, <1>5, AccountedTransitive
<1>10. q \in Made(g)
  <2>1. Made(g) = 1 .. Newest(g) /\ Newest(g) \in Nat /\ Newest(a) <= Newest(g) /\ Made(a) = 1 .. Newest(a)
    BY <1>1, <1>5, HostFields DEF Alike
  <2>2. Newest(a) = q /\ q \in Nat /\ 1 <= q
    BY <1>0, <1>1
  <2> QED BY ONLY <2>1, <2>2
<1> QED BY <1>1, <1>5, <1>6, <1>7, <1>8, <1>9, <1>10 DEF Effect, Fresh, Continued

(* The handled flag of a promise is set, as reporting does. *)
Handle(h, p) == [h EXCEPT !.promises[p].handled = TRUE]
Expose(h, p) == [h EXCEPT !.promises[p].exposed = TRUE]
Pop(h) == [h EXCEPT !.microtasks = Tail(h.microtasks)]

LEMMA Handles ==
  ASSUME NEW h, NEW its, HostOK(h, its), NEW p \in Made(h),
         NEW g, g = Handle(h, p)
  PROVE  /\ Effect(h, g, its, {}) /\ Made(g) = Made(h) /\ g.pending_rejections = h.pending_rejections
         /\ g.microtasks = h.microtasks /\ Unreported(g) = Unreported(h) \ {p}
         /\ \A k, t : SameOut(h, g, k, t)
<1> DEFINE c == [h.promises[p] EXCEPT !.handled = TRUE]
<1>1. /\ h \in Host /\ h.promises \in Seq(Cell) /\ p \in DOMAIN h.promises /\ h.promises[p] \in Cell
      /\ CellOK(h.promises[p], p, Newest(h), its) /\ Listed(h) \subseteq Made(h)
  BY HostFields DEF Made, HostOK
<1>2. /\ c \in Cell /\ c.state = h.promises[p].state /\ c.value = h.promises[p].value
      /\ c.reactions = h.promises[p].reactions /\ c.handled = TRUE /\ c.exposed = h.promises[p].exposed
  BY ONLY <1>1 DEF Cell
<1> HIDE DEF c
<1>3. [h.promises EXCEPT ![p] = c] \in Seq(Cell)
  BY ONLY <1>1, <1>2
<1>4. g = [h EXCEPT !.promises = [h.promises EXCEPT ![p] = c]]
  BY DEF c, Expose, Handle
<1>5. /\ g \in Host /\ g.promises = [h.promises EXCEPT ![p] = c] /\ g.microtasks = h.microtasks
      /\ g.pending_rejections = h.pending_rejections
  BY ONLY <1>1, <1>3, <1>4 DEF Host
<1>6. /\ Len(g.promises) = Len(h.promises) /\ g.promises[p] = c
      /\ \A q \in DOMAIN h.promises : q # p => g.promises[q] = h.promises[q]
  BY ONLY <1>1, <1>2, <1>5
<1>7. CellOK(c, p, Newest(h), its) /\ Becomes(h.promises[p], c)
  BY <1>1, <1>2 DEF CellOK, Becomes
<1>8. HostOK(g, its) /\ Made(g) = Made(h) /\ Alike(h, g, {})
  <2>1. /\ Newest(g) = Newest(h) /\ \A q \in Made(h) : q # p => g.promises[q] = h.promises[q]
        /\ CellOK(g.promises[p], p, Newest(h), its) /\ Becomes(h.promises[p], g.promises[p])
        /\ Listed(g) \subseteq Made(h)
        /\ g \in Host /\ (g.microtasks = h.microtasks \/ JobsOK(g.microtasks, g.promises, its))
    BY <1>1, <1>5, <1>6, <1>7 DEF Newest, Made, Listed
  <2>2. g.promises[p].state = h.promises[p].state /\ g.promises[p].value = h.promises[p].value
    BY <1>2, <1>6
  <2> QED BY ONLY <2>1, <2>2, HostOK(h, its), p \in Made(h), CellChange
<1>9. \A q \in Made(h) : g.promises[q].state = h.promises[q].state /\ g.promises[q].reactions = h.promises[q].reactions
                         /\ g.promises[q].handled = (q = p \/ h.promises[q].handled)
  <2>1. h.promises[p].handled \in BOOLEAN
    BY <1>1 DEF Cell
  <2>2. \A q \in Made(h) : h.promises[q].handled \in BOOLEAN
    BY HostFields DEF Cell
  <2> QED BY <1>2, <1>6, <2>2 DEF Made
<1>10. Unreported(g) = Unreported(h) \ {p}
  BY <1>8, <1>9 DEF Unreported
<1>11. Accounted(h, g)
  BY <1>5, <1>10 DEF Accounted, Listed
<1>12. \A k, t : SameOut(h, g, k, t)
  <2> TAKE k, t
  <2>1. Lines(g) = Lines(h) /\ \A a \in Lines(h) : Line(g, a) = Line(h, a)
    BY <1>5, <1>8, <1>9 DEF Lines, Line
  <2> QED BY <2>1, SameLines DEF SameOut
<1> QED BY <1>5, <1>8, <1>10, <1>11, <1>12 DEF Effect

(* A thenable gets hold of a promise. *)
LEMMA Exposes ==
  ASSUME NEW h, NEW its, HostOK(h, its), NEW p \in Made(h),
         NEW g, g = Expose(h, p)
  PROVE  /\ HostOK(g, its) /\ Accounted(h, g) /\ Made(g) = Made(h) /\ Newest(g) = Newest(h)
         /\ g.pending_rejections = h.pending_rejections /\ g.microtasks = h.microtasks
         /\ \A q \in Made(h) : /\ g.promises[q].state = h.promises[q].state
                               /\ g.promises[q].value = h.promises[q].value
                               /\ g.promises[q].handled = h.promises[q].handled
                               /\ g.promises[q].exposed = (q = p \/ h.promises[q].exposed)
         /\ \A k, t : SameOut(h, g, k, t)
<1> DEFINE c == [h.promises[p] EXCEPT !.exposed = TRUE]
<1>1. /\ h \in Host /\ h.promises \in Seq(Cell) /\ p \in DOMAIN h.promises /\ h.promises[p] \in Cell
      /\ CellOK(h.promises[p], p, Newest(h), its) /\ Listed(h) \subseteq Made(h)
      /\ CellsOK(h.promises, its) /\ JobsOK(h.microtasks, h.promises, its)
  BY HostFields DEF Made, HostOK
<1>2. /\ c \in Cell /\ c.state = h.promises[p].state /\ c.value = h.promises[p].value
      /\ c.reactions = h.promises[p].reactions /\ c.handled = h.promises[p].handled /\ c.exposed = TRUE
  BY ONLY <1>1 DEF Cell
<1> HIDE DEF c
<1>3. [h.promises EXCEPT ![p] = c] \in Seq(Cell)
  BY ONLY <1>1, <1>2
<1>4. g = [h EXCEPT !.promises = [h.promises EXCEPT ![p] = c]]
  BY DEF c, Expose, Handle
<1>5. /\ g \in Host /\ g.promises = [h.promises EXCEPT ![p] = c] /\ g.microtasks = h.microtasks
      /\ g.pending_rejections = h.pending_rejections
  BY ONLY <1>1, <1>3, <1>4 DEF Host
<1>6. /\ Len(g.promises) = Len(h.promises) /\ g.promises[p] = c /\ DOMAIN g.promises = DOMAIN h.promises
      /\ \A q \in DOMAIN h.promises : q # p => g.promises[q] = h.promises[q]
  BY ONLY <1>1, <1>2, <1>5
<1>7. CellOK(g.promises[p], p, Len(h.promises), its)
  BY <1>1, <1>2, <1>6 DEF CellOK, Newest
<1>8. CellsOK(g.promises, its) /\ Keeps(h.promises, g.promises)
  <2>1. g.promises \in Seq(Cell)
    BY <1>3, <1>5
  <2>2. h.promises[p].state # "pending" =>
          g.promises[p].state = h.promises[p].state /\ g.promises[p].value = h.promises[p].value
    BY <1>2, <1>6
  <2> QED BY <1>1, <1>6, <1>7, <2>1, <2>2, CellChanges
<1>9. JobsOK(g.microtasks, g.promises, its)
  <2>1. Longer(its, its) /\ g.promises \in Seq(Cell)
    BY <1>3, <1>5 DEF Longer
  <2>2. JobsOK(h.microtasks, g.promises, its)
    BY <1>1, <1>8, <2>1, JobsStay
  <2> QED BY <1>5, <2>2
<1>10. Made(g) = Made(h) /\ Newest(g) = Newest(h) /\ Listed(g) = Listed(h)
  BY <1>5, <1>6 DEF Made, Newest, Listed
<1>11. HostOK(g, its)
  BY <1>1, <1>5, <1>8, <1>9, <1>10 DEF HostOK
<1>12. \A q \in Made(h) : /\ g.promises[q].state = h.promises[q].state
                          /\ g.promises[q].value = h.promises[q].value
                          /\ g.promises[q].reactions = h.promises[q].reactions
                          /\ g.promises[q].handled = h.promises[q].handled
                          /\ g.promises[q].exposed = (q = p \/ h.promises[q].exposed)
  <2>1. \A q \in Made(h) : h.promises[q].exposed \in BOOLEAN
    BY HostFields DEF Cell
  <2> QED BY <1>2, <1>6, <2>1 DEF Made
<1>13. \A k, t : SameOut(h, g, k, t)
  <2> TAKE k, t
  <2>1. Lines(g) = Lines(h) /\ \A a \in Lines(h) : Line(g, a) = Line(h, a)
    BY <1>5, <1>10, <1>12 DEF Lines, Line
  <2> QED BY <2>1, SameLines DEF SameOut
<1>14. Accounted(h, g)
  <2>1. \A q \in Made(h) : g.promises[q].state = h.promises[q].state
                           /\ g.promises[q].handled = h.promises[q].handled
    BY <1>12
  <2> QED BY ONLY <1>10, <2>1 DEF Accounted, Unreported
<1> QED BY <1>5, <1>10, <1>11, <1>12, <1>13, <1>14

(* An element of a combinator is subscribed, *)
Placed(h, g, i, t) ==
  \A k \in Nat, u \in Nat :
    /\ Out(g, k, u) <=> Out(h, k, u) \/ (k = i /\ u = t)
    /\ Once(h, k, u) /\ ~(Out(h, k, u) /\ k = i /\ u = t) => Once(g, k, u)

LEMMA SubscribeElement ==
  ASSUME NEW h, NEW its, HostOK(h, its), NEW p \in Made(h), NEW t \in Nat, t \in DOMAIN its,
         NEW i \in 1 .. 2, its[t][i] = p, NEW g, g = subscribe(h, p, Element(p, t, i))
  PROVE  /\ HostOK(g, its) /\ Alike(h, g, {}) /\ Newest(g) = Newest(h) /\ Made(g) = Made(h) /\ Accounted(h, g)
         /\ Placed(h, g, i, t)
<1> DEFINE r == Element(p, t, i)
<1>1. p \in Nat /\ Made(h) = 1 .. Newest(h) /\ i \in Nat
  BY HostFields
<1>2. r \in Reaction /\ r.kind = "element" /\ r.from = p /\ r.to = t /\ r.at = i
  BY ONLY <1>1, t \in Nat DEF Element, Continue, Reaction, State, AnyValue
<1> HIDE DEF r
<1>3. Names(r, Newest(h), its)
  BY <1>1, <1>2 DEF Names
<1>4. g = subscribe(h, p, r)
  BY DEF r
<1>5. /\ HostOK(h, its) /\ p \in Made(h) /\ r \in Reaction /\ Names(r, Newest(h), its) /\ r.from = p
      /\ r.kind \notin {"subscribe", "thenable"} /\ (r.kind = "then" => Newer(h, r.to)) /\ g = subscribe(h, p, r)
  BY <1>2, <1>3, <1>4
<1>6. HostOK(g, its) /\ Alike(h, g, {}) /\ Newest(g) = Newest(h) /\ Made(g) = Made(h)
  BY ONLY <1>5, Subscribing
<1>7. \A k, u : MoreOut(h, g, r, k, u) /\ Accounted(h, g)
  BY ONLY <1>5, SubscribeOut
<1>8. ASSUME NEW k \in Nat, NEW u \in Nat
      PROVE  /\ Out(g, k, u) <=> Out(h, k, u) \/ (k = i /\ u = t)
             /\ Once(h, k, u) /\ ~(Out(h, k, u) /\ k = i /\ u = t) => Once(g, k, u)
  <2>1. Holds(r, k, u) <=> k = i /\ u = t
    BY <1>2 DEF Holds
  <2> QED BY <1>7, <2>1 DEF MoreOut
<1> QED BY <1>6, <1>7, <1>8 DEF Placed

(* and so is the other one. *)
Combined(h, g, t) ==
  \A k \in Nat, u \in Nat :
    /\ Out(g, k, u) <=> Out(h, k, u) \/ (k \in 1 .. 2 /\ u = t)
    /\ Once(h, k, u) => Once(g, k, u)

CombineDone(h, t, items) == Subscribed(new_promise(h, FALSE), t, items)

CanCombine(h, its, jts, t, items) ==
  /\ HostOK(h, its) /\ Longer(its, jts)
  /\ t \in Nat /\ t \notin DOMAIN its /\ t \in DOMAIN jts /\ jts[t] = items
  /\ items[1] \in Made(h) /\ items[2] \in Made(h)

LEMMA Combines ==
  ASSUME NEW h, NEW its, NEW jts, NEW t, NEW items, CanCombine(h, its, jts, t, items),
         NEW q, q = Newest(h) + 1, NEW g, g = CombineDone(h, t, items)
  PROVE  Effect(h, g, jts, {}) /\ Newest(g) = q /\ Fresh(g, q) /\ Combined(h, g, t)
<1> DEFINE a == new_promise(h, FALSE)
           p == items[1]
           r == items[2]
           b == subscribe(a, p, Element(p, t, 1))
<1> USE DEF CanCombine
<1>0. HostOK(h, jts) /\ Newest(h) \in Nat /\ Made(h) = 1 .. Newest(h)
  BY MoreCombinators, HostFields
<1>1. /\ HostOK(a, jts) /\ Alike(h, a, {}) /\ Newest(a) = q
      /\ q \in Made(a) /\ Made(a) = Made(h) \cup {q}
      /\ a.promises[q] = [state |-> "pending", value |-> Undefined, reactions |-> <<>>,
                          handled |-> FALSE, exposed |-> FALSE]
  BY <1>0, NewPromises
<1>2. \A k, u : SameOut(h, a, k, u) /\ Accounted(h, a)
  BY <1>0, NewOut
<1>3. g = subscribe(b, r, Element(r, t, 2))
  BY DEF Subscribed, CombineDone
<1>4. p \in Made(a) /\ r \in Made(a) /\ jts[t][1] = p /\ jts[t][2] = r /\ 1 \in 1 .. 2 /\ 2 \in 1 .. 2
  <2>1. p \in Made(h) /\ r \in Made(h) /\ jts[t][1] = p /\ jts[t][2] = r
    OBVIOUS
  <2>2. 1 \in 1 .. 2 /\ 2 \in 1 .. 2
    BY ONLY TRUE
  <2> HIDE DEF a, b, p, r
  <2> QED BY ONLY <1>1, <2>1, <2>2
<1>5. b = subscribe(a, p, Element(p, t, 1))
  OBVIOUS
<1> HIDE DEF a, b, p, r
<1>6. /\ HostOK(b, jts) /\ Alike(a, b, {}) /\ Newest(b) = Newest(a) /\ Made(b) = Made(a) /\ Accounted(a, b)
      /\ Placed(a, b, 1, t)
  BY ONLY <1>1, <1>4, <1>5, t \in Nat, t \in DOMAIN jts, SubscribeElement
<1>7. /\ HostOK(g, jts) /\ Alike(b, g, {}) /\ Newest(g) = Newest(b) /\ Made(g) = Made(b) /\ Accounted(b, g)
      /\ Placed(b, g, 2, t)
  <2>1. r \in Made(b)
    BY <1>4, <1>6
  <2> QED BY ONLY <1>3, <1>4, <1>6, <2>1, t \in Nat, t \in DOMAIN jts, SubscribeElement
<1>8. \A k \in 1 .. 2 : ~Out(h, k, t)
  BY OutNames
<1>9. \A k \in Nat, u \in Nat :
        /\ Out(g, k, u) <=> Out(h, k, u) \/ (k \in 1 .. 2 /\ u = t)
        /\ Once(h, k, u) => Once(g, k, u)
  <2> TAKE k \in Nat, u \in Nat
  <2>1. /\ (Out(a, k, u) <=> Out(h, k, u)) /\ (Once(h, k, u) => Once(a, k, u))
        /\ Out(b, k, u) <=> Out(a, k, u) \/ (k = 1 /\ u = t)
        /\ Once(a, k, u) /\ ~(Out(a, k, u) /\ k = 1 /\ u = t) => Once(b, k, u)
        /\ Out(g, k, u) <=> Out(b, k, u) \/ (k = 2 /\ u = t)
        /\ Once(b, k, u) /\ ~(Out(b, k, u) /\ k = 2 /\ u = t) => Once(g, k, u)
    BY <1>2, <1>6, <1>7 DEF SameOut, Placed
  <2>2. u = t /\ k \in 1 .. 2 => ~Out(h, k, u)
    BY <1>8
  <2>3. k = 1 \/ k = 2 <=> k \in 1 .. 2
    OBVIOUS
  <2>4. k = 1 => ~(k = 2)
    OBVIOUS
  <2> QED BY ONLY <2>1, <2>2, <2>3, <2>4
<1>10. Alike(h, g, {})
  <2>1. Alike(h, b, {})
    BY <1>0, <1>1, <1>6, AlikeTransitive
  <2> QED BY <1>0, <1>6, <1>7, <2>1, AlikeTransitive
<1>11. Accounted(h, g)
  <2>1. Accounted(h, b)
    BY <1>2, <1>6, AccountedTransitive
  <2> QED BY <1>7, <2>1, AccountedTransitive
<1>12. g.promises[q].exposed = FALSE /\ g.promises[q].state = "pending"
  <2>1. a.promises[q].exposed = FALSE /\ a.promises[q].state = "pending" /\ q \in Made(a) /\ q \in Made(b)
    BY <1>1, <1>6
  <2> QED BY ONLY <1>6, <1>7, <2>1 DEF Alike
<1>13. Combined(h, g, t)
  BY ONLY <1>9 DEF Combined
<1>14. Effect(h, g, jts, {})
  BY ONLY <1>1, <1>6, <1>7, <1>10, <1>11 DEF Effect
<1> QED BY <1>1, <1>6, <1>7, <1>12, <1>13, <1>14 DEF Fresh

----------------------------------------------------------------------------
(* The state invariant. *)

Slot == [state : State, value : AnyValue]
Combinator == [mode : Mode, result : Nat, items : Seq(Nat), remaining : Nat, slots : Seq(Slot)]
Items(cs) == [t \in DOMAIN cs |-> cs[t].items]

\* An item counts as remaining until its slot is filled.
Unfilled(s) == IF s.state = "pending" THEN 1 ELSE 0

CombinatorOK(c, h) ==
  /\ c \in Combinator
  /\ c.result \in Made(h)
  /\ DOMAIN c.items = 1 .. 2 /\ c.items[1] \in Made(h) /\ c.items[2] \in Made(h)
  /\ DOMAIN c.slots = 1 .. 2
  /\ c.remaining = Unfilled(c.slots[1]) + Unfilled(c.slots[2])

\* The reaction to an item is in one place, and only while its slot is not filled.
ElementsOK(h, cs) ==
  \A k \in 1 .. 2, t \in Nat : Once(h, k, t) /\ (Out(h, k, t) => cs[t].slots[k].state = "pending")

HostInv(h, cs) ==
  /\ cs \in Seq(Combinator)
  /\ HostOK(h, Items(cs))
  /\ \A t \in DOMAIN cs : CombinatorOK(cs[t], h)
  /\ ElementsOK(h, cs)

LEMMA HostInvKept ==
  ASSUME NEW h, NEW cs, HostInv(h, cs), NEW g, HostOK(g, Items(cs)), Newest(h) <= Newest(g),
         \A k \in 1 .. 2, t \in Nat : (Out(g, k, t) => Out(h, k, t)) /\ (Once(h, k, t) => Once(g, k, t))
  PROVE  HostInv(g, cs)
<1>1. Made(h) \subseteq Made(g)
  <2>1. /\ Newest(h) \in Nat /\ Newest(g) \in Nat /\ Made(h) = 1 .. Newest(h) /\ Made(g) = 1 .. Newest(g)
    BY HostFields DEF HostInv
  <2> QED BY ONLY <2>1, Newest(h) <= Newest(g)
<1>2. \A t \in DOMAIN cs : CombinatorOK(cs[t], g)
  BY <1>1 DEF HostInv, CombinatorOK
<1>3. ElementsOK(g, cs)
  BY DEF HostInv, ElementsOK
<1> QED BY <1>2, <1>3 DEF HostInv

(* Resolving, with all that is known of it. *)
ResolveOutOK(h, g, p, x) ==
  \A k, t : /\ k \in 0 .. 2 => SameOut(h, g, k, t)
            /\ Out(g, k, t) => Out(h, k, t) \/ t = p
            /\ x.is \in {"plain", "reason"} => SameOut(h, g, k, t)
            /\ SameOut(h, g, k, t) \/ MoreOut(h, g, Queued(x, p), k, t)

LEMMA Resolves ==
  ASSUME NEW h, NEW its, HostOK(h, its), NEW p \in Made(h), NEW x, Resolvable(x, Newest(h)),
         NEW g, g = Resolve(h, p, x)
  PROVE  /\ Effect(h, g, its, {p}) /\ Made(g) = Made(h) /\ Newest(g) = Newest(h)
         /\ ResolveOutOK(h, g, p, x)
         /\ (h.promises[p].state = "pending" => Outcome(h, g, p, x))
<1>1. /\ HostOK(g, its) /\ Alike(h, g, {p}) /\ Made(g) = Made(h)
      /\ (h.promises[p].state = "pending" => Outcome(h, g, p, x))
  BY ONLY HostOK(h, its), p \in Made(h), Resolvable(x, Newest(h)), g = Resolve(h, p, x), Resolving
<1>2. ASSUME NEW k, NEW t
      PROVE  /\ SameOut(h, g, k, t) \/ MoreOut(h, g, Queued(x, p), k, t)
             /\ x.is \in {"plain", "reason"} => SameOut(h, g, k, t)
             /\ Accounted(h, g)
  BY ONLY HostOK(h, its), p \in Made(h), Resolvable(x, Newest(h)), g = Resolve(h, p, x), ResolveOut
<1>3. Newest(g) = Newest(h)
  <2>1. /\ Newest(h) \in Nat /\ Newest(g) \in Nat /\ Made(h) = 1 .. Newest(h) /\ Made(g) = 1 .. Newest(g)
        /\ Newest(h) <= Newest(g)
    BY <1>1, HostFields DEF Alike
  <2>2. Newest(g) = 0 \/ Newest(g) \in 1 .. Newest(h)
    BY ONLY <1>1, <2>1
  <2> QED BY ONLY <2>1, <2>2
<1>4. ResolveOutOK(h, g, p, x) /\ Accounted(h, g)
  <2> DEFINE job == Queued(x, p)
  <2>1. job.to = p /\ job.kind \in {"subscribe", "thenable"}
    BY DEF Queued, Continue
  <2> HIDE DEF job
  <2>2. ASSUME NEW k, NEW t PROVE (k \in 0 .. 2 => ~Holds(job, k, t)) /\ (Holds(job, k, t) => t = p)
    BY <2>1 DEF Holds
  <2>3. \A k, t : SameOut(h, g, k, t) \/ MoreOut(h, g, job, k, t)
    BY <1>2 DEF job
  <2>4. \A k, t : (k \in 0 .. 2 => SameOut(h, g, k, t)) /\ (Out(g, k, t) => Out(h, k, t) \/ t = p)
    BY <2>2, <2>3 DEF SameOut, MoreOut
  <2> QED BY <1>2, <2>4 DEF ResolveOutOK
<1> QED BY <1>1, <1>3, <1>4 DEF Effect

(* A slot is filled. *)
LEMMA Fills ==
  ASSUME NEW h, NEW cs, HostInv(h, cs), NEW t \in DOMAIN cs, NEW job \in Reaction, job.at \in 1 .. 2,
         job.state # "pending", cs[t].slots[job.at].state = "pending",
         NEW ds, ds = [cs EXCEPT ![t] = Fill(cs[t], job)],
         NEW g, HostOK(g, Items(cs)), Newest(h) <= Newest(g),
         \A k \in 1 .. 2, u \in Nat : (Out(g, k, u) => Out(h, k, u)) /\ (Once(h, k, u) => Once(g, k, u)),
         ~Out(g, job.at, t)
  PROVE  HostInv(g, ds) /\ Items(ds) = Items(cs)
<1> DEFINE c == cs[t]
           d == Fill(c, job)
           s == [state |-> job.state, value |-> job.value]
<1>1. /\ cs \in Seq(Combinator) /\ HostInv(g, cs) /\ c \in Combinator /\ CombinatorOK(c, g)
  BY HostInvKept DEF HostInv, CombinatorOK
<1>2. s \in Slot /\ s.state # "pending"
  BY DEF Slot, Reaction
<1>3. /\ DOMAIN c.slots = 1 .. 2 /\ c.slots \in Seq(Slot) /\ c.items \in Seq(Nat)
      /\ c.remaining = Unfilled(c.slots[1]) + Unfilled(c.slots[2]) /\ c.remaining \in Nat
      /\ c.mode \in Mode /\ c.result \in Nat
  BY <1>1 DEF CombinatorOK, Combinator
<1> DEFINE ss == [c.slots EXCEPT ![job.at] = s]
<1> HIDE DEF s
<1>4. /\ ss \in Seq(Slot) /\ DOMAIN ss = 1 .. 2 /\ ss[job.at] = s
      /\ \A i \in 1 .. 2 : i # job.at => ss[i] = c.slots[i]
  BY ONLY <1>2, <1>3, job.at \in 1 .. 2
<1>5. d = [c EXCEPT !.slots = ss, !.remaining = c.remaining - 1]
  BY DEF Fill, s
<1> HIDE DEF ss
<1>6. Unfilled(ss[1]) + Unfilled(ss[2]) = c.remaining - 1 /\ c.remaining - 1 \in Nat
  <2>1. CASE job.at = 1
    <3>1. ss[2] = c.slots[2] /\ ss[1] = s /\ c.slots[1].state = "pending"
      BY <1>4, <2>1
    <3>2. Unfilled(c.slots[1]) = 1 /\ Unfilled(ss[1]) = 0 /\ Unfilled(c.slots[2]) \in 0 .. 1
      BY <1>2, <3>1 DEF Unfilled
    <3> QED BY <1>3, <3>1, <3>2
  <2>2. CASE job.at = 2
    <3>1. ss[1] = c.slots[1] /\ ss[2] = s /\ c.slots[2].state = "pending"
      BY <1>4, <2>2
    <3>2. Unfilled(c.slots[2]) = 1 /\ Unfilled(ss[2]) = 0 /\ Unfilled(c.slots[1]) \in 0 .. 1
      BY <1>2, <3>1 DEF Unfilled
    <3> QED BY <1>3, <3>1, <3>2
  <2> QED BY <2>1, <2>2
<1>7. /\ d \in Combinator /\ d.slots = ss /\ d.items = c.items /\ d.remaining = c.remaining - 1
      /\ d.result = c.result /\ d.mode = c.mode
  <2> HIDE DEF d, c
  <2> QED BY ONLY <1>1, <1>4, <1>5, <1>6 DEF Combinator
<1>8. CombinatorOK(d, g)
  <2> HIDE DEF d, c
  <2> QED BY <1>1, <1>4, <1>6, <1>7 DEF CombinatorOK
<1>9. /\ ds \in Seq(Combinator) /\ DOMAIN ds = DOMAIN cs /\ ds[t] = d
      /\ \A u \in DOMAIN cs : u # t => ds[u] = cs[u]
  <2> HIDE DEF d
  <2>1. ds = [cs EXCEPT ![t] = d]
    BY DEF d
  <2> QED BY ONLY <1>1, <1>7, <2>1, t \in DOMAIN cs
<1>10. Items(ds) = Items(cs)
  <2> HIDE DEF d
  <2> QED BY <1>7, <1>9 DEF Items
<1>11. ElementsOK(g, ds)
  <2> SUFFICES ASSUME NEW k \in 1 .. 2, NEW u \in Nat
               PROVE  Once(g, k, u) /\ (Out(g, k, u) => ds[u].slots[k].state = "pending")
    BY DEF ElementsOK
  <2>1. Once(g, k, u) /\ (Out(g, k, u) => cs[u].slots[k].state = "pending")
    BY <1>1 DEF HostInv, ElementsOK
  <2>2. Out(g, k, u) => u \in DOMAIN cs
    BY OutNames DEF Items
  <2>3. ASSUME Out(g, k, u), u = t PROVE ds[u].slots[k].state = "pending"
    <3>1. k # job.at
      BY <2>3
    <3> QED BY <1>4, <1>7, <1>9, <2>1, <2>3, <3>1
  <2>4. ASSUME Out(g, k, u), u # t PROVE ds[u].slots[k].state = "pending"
    BY <1>9, <2>1, <2>2, <2>4
  <2> QED BY <2>1, <2>3, <2>4
<1>12. \A u \in DOMAIN ds : CombinatorOK(ds[u], g)
  <2> HIDE DEF d
  <2> QED BY <1>1, <1>8, <1>9 DEF HostInv
<1> QED BY <1>9, <1>10, <1>11, <1>12 DEF HostInv

(* A combinator is made. *)
Joined(cs, ds, t, c) ==
  /\ ds \in Seq(Combinator) /\ Longer(Items(cs), Items(ds)) /\ t \in Nat /\ t \notin DOMAIN cs
  /\ DOMAIN ds = DOMAIN cs \cup {t} /\ ds[t] = c /\ \A u \in DOMAIN cs : ds[u] = cs[u]
  /\ DOMAIN Items(cs) = DOMAIN cs /\ DOMAIN Items(ds) = DOMAIN ds /\ Items(ds)[t] = c.items

LEMMA MoreItems ==
  ASSUME NEW cs \in Seq(Combinator), NEW c \in Combinator, NEW t, t = Len(cs) + 1, NEW ds, ds = Append(cs, c)
  PROVE  Joined(cs, ds, t, c)
<1>1. /\ Len(cs) \in Nat /\ DOMAIN cs = 1 .. Len(cs) /\ DOMAIN ds = 1 .. Len(cs) + 1
      /\ \A u \in 1 .. Len(cs) : ds[u] = cs[u]
      /\ ds[Len(cs) + 1] = c /\ ds \in Seq(Combinator)
  BY LenProperties, AppendProperties
<1>2. \A m \in Nat : m + 1 \notin 1 .. m /\ 1 .. m + 1 = (1 .. m) \cup {m + 1}
  BY ONLY TRUE
<1>3. /\ t \in Nat /\ t \notin DOMAIN cs /\ DOMAIN ds = DOMAIN cs \cup {t} /\ ds[t] = c
      /\ \A u \in DOMAIN cs : ds[u] = cs[u]
  BY ONLY <1>1, <1>2, t = Len(cs) + 1
<1>4. DOMAIN Items(cs) = DOMAIN cs /\ DOMAIN Items(ds) = DOMAIN ds /\ Items(ds)[t] = c.items
  BY <1>3 DEF Items
<1>5. Longer(Items(cs), Items(ds))
  BY <1>3 DEF Longer, Items
<1> QED BY <1>1, <1>3, <1>4, <1>5 DEF Joined

LEMMA HostInvCombine ==
  ASSUME NEW h, NEW cs, HostInv(h, cs), NEW c \in Combinator, NEW t, t = Len(cs) + 1,
         NEW ds, ds = Append(cs, c), NEW g, HostOK(g, Items(ds)), Newest(h) <= Newest(g), CombinatorOK(c, g),
         c.slots[1].state = "pending", c.slots[2].state = "pending",
         \A k \in 1 .. 2, u \in Nat : /\ Out(g, k, u) => Out(h, k, u) \/ u = t
                                      /\ Once(h, k, u) => Once(g, k, u)
  PROVE  HostInv(g, ds)
<1>1. /\ ds \in Seq(Combinator) /\ t \in Nat /\ t \notin DOMAIN cs
      /\ DOMAIN ds = DOMAIN cs \cup {t} /\ ds[t] = c /\ \A u \in DOMAIN cs : ds[u] = cs[u]
      /\ DOMAIN Items(cs) = DOMAIN cs
  <2>1. cs \in Seq(Combinator)
    BY DEF HostInv
  <2>2. Joined(cs, ds, t, c)
    BY ONLY <2>1, c \in Combinator, t = Len(cs) + 1, ds = Append(cs, c), MoreItems
  <2> QED BY ONLY <2>2 DEF Joined
<1>2. Made(h) \subseteq Made(g)
  <2>1. /\ Newest(h) \in Nat /\ Newest(g) \in Nat /\ Made(h) = 1 .. Newest(h) /\ Made(g) = 1 .. Newest(g)
    BY HostFields DEF HostInv
  <2> QED BY ONLY <2>1, Newest(h) <= Newest(g)
<1>3. \A u \in DOMAIN ds : CombinatorOK(ds[u], g)
  BY <1>1, <1>2 DEF HostInv, CombinatorOK
<1>4. ElementsOK(g, ds)
  <2> SUFFICES ASSUME NEW k \in 1 .. 2, NEW u \in Nat
               PROVE  Once(g, k, u) /\ (Out(g, k, u) => ds[u].slots[k].state = "pending")
    BY DEF ElementsOK
  <2>1. Once(g, k, u)
    BY DEF HostInv, ElementsOK
  <2>2. ASSUME Out(h, k, u) PROVE ds[u].slots[k].state = "pending"
    <3>1. u \in DOMAIN cs /\ HostOK(h, Items(cs))
      BY <1>1, <2>2, OutNames DEF HostInv
    <3> QED BY <1>1, <2>2, <3>1 DEF HostInv, ElementsOK
  <2>3. ASSUME u = t PROVE ds[u].slots[k].state = "pending"
    BY <1>1, <2>3
  <2> QED BY <2>1, <2>2, <2>3
<1> QED BY <1>1, <1>3, <1>4 DEF HostInv

(* What is known of the rest of the state. *)
CallsOK(cs, m) == cs \in Seq(Seq(Resolution)) /\ Len(cs) = m

Rest ==
  /\ phase \in {"drain", "report", "turn", "dead"}
  /\ running \in Activation
  /\ running.kind \in {"then", "async", "thenable"} => running.to \in Made(host)
  /\ reporting \in Seq(Nat) /\ \A i \in DOMAIN reporting : reporting[i] \in Made(host)
  /\ CallsOK(calls, Newest(host))
  /\ reported \subseteq Nat

Shape == HostInv(host, combinators) /\ Rest

LEMMA ShapeTyped ==
  ASSUME Shape
  PROVE  TypeOK
<1>1. host \in Host
  BY DEF Shape, HostInv, HostOK
<1> QED BY <1>1 DEF Shape, HostInv, Rest, CallsOK, TypeOK, Host, Combinator, Slot

LEMMA ShapeInit ==
  ASSUME Init
  PROVE  Shape
<1>1. /\ host.promises = <<>> /\ host.microtasks = <<>> /\ host.pending_rejections = <<>>
      /\ host \in Host /\ combinators = <<>>
  BY DEF Init, Host
<1>2. HostOK(host, Items(combinators))
  <2>1. CellsOK(<<>>, Items(combinators))
    BY DEF CellsOK
  <2>2. JobsOK(<<>>, <<>>, Items(combinators))
    BY DEF JobsOK, Ascending
  <2>3. Listed(host) = {}
    BY <1>1 DEF Listed
  <2> QED BY <1>1, <2>1, <2>2, <2>3 DEF HostOK
<1>3. ElementsOK(host, combinators)
  <2>1. \A a \in Lines(host) : DOMAIN Line(host, a) = {}
    <3>1. Made(host) = {}
      BY <1>1 DEF Made
    <3> QED BY <1>1, <3>1 DEF Lines, Line
  <2> QED BY <2>1 DEF ElementsOK, Once, Out
<1>4. HostInv(host, combinators)
  BY <1>1, <1>2, <1>3 DEF HostInv
<1>5. Rest
  <2>1. Newest(host) = 0 /\ Len(calls) = 0 /\ calls \in Seq(Seq(Resolution))
    BY <1>1 DEF Init, Newest
  <2> QED BY <2>1 DEF Rest, CallsOK, Init, Activation
<1> QED BY <1>4, <1>5 DEF Shape

(* The history of calls. *)
LEMMA CallsNew ==
  ASSUME NEW cs, NEW m \in Nat, CallsOK(cs, m), NEW s \in Seq(Resolution)
  PROVE  CallsOK(Append(cs, s), m + 1)
BY AppendProperties DEF CallsOK

LEMMA CallsAsked ==
  ASSUME NEW cs, NEW m \in Nat, CallsOK(cs, m), NEW p \in 1 .. m, NEW x \in Resolution
  PROVE  CallsOK(Asked(cs, p, x), m)
<1>1. cs \in Seq(Seq(Resolution)) /\ p \in DOMAIN cs /\ cs[p] \in Seq(Resolution)
  BY LenProperties DEF CallsOK
<1>2. Append(cs[p], x) \in Seq(Resolution)
  BY <1>1
<1>3. [cs EXCEPT ![p] = Append(cs[p], x)] \in Seq(Seq(Resolution)) /\ Len([cs EXCEPT ![p] = Append(cs[p], x)]) = Len(cs)
  BY <1>1, <1>2
<1> QED BY <1>3 DEF CallsOK, Asked

LEMMA CallsReset ==
  ASSUME NEW cs, NEW m \in Nat, CallsOK(cs, m), NEW p \in 1 .. m
  PROVE  CallsOK([cs EXCEPT ![p] = <<>>], m)
<1>1. cs \in Seq(Seq(Resolution)) /\ p \in DOMAIN cs /\ <<>> \in Seq(Resolution)
  BY LenProperties DEF CallsOK
<1>2. [cs EXCEPT ![p] = <<>>] \in Seq(Seq(Resolution)) /\ Len([cs EXCEPT ![p] = <<>>]) = Len(cs)
  BY <1>1
<1> QED BY <1>2 DEF CallsOK

LEMMA CallsAwait ==
  ASSUME NEW cs, NEW m \in Nat, CallsOK(cs, m), NEW x, x \in Resolution \/ x.is = "promise"
  PROVE  CallsOK(AwaitCalls(cs, x), m + AwaitRoom(x))
<1>1. CASE x.is = "promise"
  BY <1>1 DEF AwaitCalls, AwaitRoom, CallsOK
<1>2. CASE x.is # "promise"
  <2>1. <<x>> \in Seq(Resolution)
    BY <1>2
  <2> QED BY <1>2, <2>1, CallsNew DEF AwaitCalls, AwaitRoom
<1> QED BY <1>1, <1>2

(* The host in terms of the invariant. *)
LEMMA ShapeFields ==
  ASSUME Shape
  PROVE  /\ HostOK(host, Items(combinators)) /\ HostInv(host, combinators) /\ Ids = Made(host)
         /\ Newest(host) \in Nat /\ Made(host) = 1 .. Newest(host) /\ CallsOK(calls, Newest(host)) /\ Rest
<1>1. HostOK(host, Items(combinators)) /\ HostInv(host, combinators) /\ Rest
  BY DEF Shape, HostInv
<1>2. Newest(host) \in Nat /\ Made(host) = 1 .. Newest(host)
  BY <1>1, HostFields
<1>3. Ids = Made(host)
  BY DEF Ids, Made
<1>4. CallsOK(calls, Newest(host))
  BY <1>1 DEF Rest
<1> QED BY ONLY <1>1, <1>2, <1>3, <1>4

(* The inputs. *)
LEMMA ResolutionsOK ==
  ASSUME Shape, NEW p, NEW x \in Resolutions(p)
  PROVE  Resolvable(x, Newest(host)) /\ x \in Resolution
<1>1. Made(host) = 1 .. Newest(host) /\ Ids = Made(host) /\ Newest(host) \in Nat
  BY ShapeFields
<1>2. \/ \E v \in Value : x = Plain(v)
      \/ "follow" \in Calls /\ \E q \in Ids : x = Promise(q)
      \/ x = Thenable
      \/ \E v \in Value : x = Reason(v)
  BY DEF Resolutions, PlainValues
<1>3. ASSUME NEW v \in Value, x = Plain(v) PROVE Resolvable(x, Newest(host))
  BY <1>3 DEF Resolvable, Resolution, Plain, AnyValue
<1>4. ASSUME "follow" \in Calls, NEW q \in Ids, x = Promise(q) PROVE Resolvable(x, Newest(host))
  <2>1. q \in 1 .. Newest(host) /\ q \in Nat
    BY <1>1
  <2> QED BY <1>4, <2>1 DEF Resolvable, Resolution, Promise, AnyValue
<1>5. ASSUME x = Thenable PROVE Resolvable(x, Newest(host))
  BY <1>5 DEF Resolvable, Resolution, Thenable, AnyValue
<1>6. ASSUME NEW v \in Value, x = Reason(v) PROVE Resolvable(x, Newest(host))
  BY <1>6 DEF Resolvable, Resolution, Reason, AnyValue
<1>7. Resolvable(x, Newest(host))
  BY <1>2, <1>3, <1>4, <1>5, <1>6
<1> QED BY <1>7 DEF Resolvable

LEMMA AwaitableOK ==
  ASSUME Shape, NEW x \in Awaitable
  PROVE  Awaited(host, x) /\ (x \in Resolution \/ x.is = "promise")
<1>1. Ids = Made(host)
  BY ShapeFields
<1>2. (\E q \in Ids : x = Promise(q)) \/ (\E v \in Value : x = Plain(v))
  BY DEF Awaitable, PlainValues
<1>3. ASSUME NEW q \in Ids, x = Promise(q) PROVE x.is = "promise" /\ x.promise \in Made(host)
  BY <1>1, <1>3 DEF Promise
<1>4. ASSUME NEW v \in Value, x = Plain(v) PROVE x.is = "plain" /\ x \in Resolution
  BY <1>4 DEF Plain, Resolution, AnyValue
<1> QED BY <1>2, <1>3, <1>4 DEF Awaited

\* How a reaction hands its outcome on.
Passed(job) == IF job.state = "rejected" THEN Reason(job.value) ELSE Plain(job.value)

LEMMA PassedOK ==
  ASSUME NEW job \in Reaction, NEW m
  PROVE  /\ Resolvable(Passed(job), m) /\ Passed(job) \in Resolution /\ Passed(job).is \in {"plain", "reason"}
         /\ Passed(job).value = job.value /\ (Passed(job).is = "reason" <=> job.state = "rejected")
<1>1. job.value \in AnyValue
  BY DEF Reaction
<1> QED BY <1>1 DEF Passed, Resolvable, Resolution, Reason, Plain, AnyValue

(* What a step must do. *)
LEMMA ShapeKept ==
  ASSUME Shape, HostInv(host', combinators'), Newest(host) <= Newest(host'),
         phase' \in {"drain", "report", "turn", "dead"}, running' \in Activation,
         running'.kind \in {"then", "async", "thenable"} => running'.to \in Made(host'),
         \/ reporting' = reporting
         \/ reporting' \in Seq(Nat) /\ \A i \in DOMAIN reporting' : reporting'[i] \in Made(host'),
         CallsOK(calls', Newest(host')), reported' \subseteq Nat
  PROVE  Shape'
<1>1. Made(host) \subseteq Made(host')
  <2>1. Made(host') = 1 .. Newest(host') /\ Newest(host') \in Nat
    BY HostFields DEF HostInv
  <2>2. Made(host) = 1 .. Newest(host) /\ Newest(host) \in Nat
    BY ShapeFields
  <2> QED BY ONLY <2>1, <2>2, Newest(host) <= Newest(host')
<1>2. reporting' \in Seq(Nat) /\ \A i \in DOMAIN reporting' : reporting'[i] \in Made(host')
  BY <1>1, ShapeFields DEF Rest
<1>3. Rest'
  BY <1>2 DEF Rest
<1> QED BY <1>3 DEF Shape

(* A job leaves the queue. *)
PoppedOut(h, g, job, k, t) ==
  /\ Out(h, k, t) <=> Out(g, k, t) \/ Holds(job, k, t)
  /\ Once(h, k, t) => Once(g, k, t) /\ ~(Out(g, k, t) /\ Holds(job, k, t))

Left(h, g, job) == \A k, t : PoppedOut(h, g, job, k, t)

\* Job is next, and b is the host without it.
Front(h, b, job) == h.microtasks # <<>> /\ b = Pop(h) /\ job = Head(h.microtasks)

\* No continuation or element moves, and nothing more is resolved.
Stays(h, g) ==
  /\ \A k \in 0 .. 2, t \in Nat : SameOut(h, g, k, t)
  /\ \A k, t \in Nat : Out(g, k, t) => Out(h, k, t)
  /\ \A t \in Nat : Once(h, 4, t) => Once(g, 4, t)

LEMMA Pops ==
  ASSUME NEW h, NEW its, HostOK(h, its), NEW g, NEW job, Front(h, g, job)
  PROVE  /\ Effect(h, g, its, {}) /\ g.promises = h.promises /\ Made(g) = Made(h) /\ Newest(g) = Newest(h)
         /\ job \in Reaction /\ Names(job, Newest(h), its) /\ Carries(job, h.promises)
         /\ Left(h, g, job)
<1>0. h.microtasks # <<>> /\ g = Pop(h) /\ job = Head(h.microtasks)
  BY DEF Front
<1>1. /\ HostOK(g, its) /\ Alike(h, g, {}) /\ g.promises = h.promises
      /\ job \in Reaction /\ Names(job, Newest(h), its) /\ Carries(job, h.promises)
  BY <1>0, Popping DEF Pop
<1>2. ASSUME NEW k, NEW t
      PROVE  PoppedOut(h, g, job, k, t) /\ Accounted(h, g)
  BY <1>0, PopOut DEF PoppedOut, Pop
<1>3. Made(g) = Made(h) /\ Newest(g) = Newest(h)
  BY <1>1 DEF Made, Newest
<1> QED BY <1>1, <1>2, <1>3 DEF Effect, Left

(* Resolving with a plain value or a reason. *)
SettlesPlainly(h, g, p, x) ==
  IF h.promises[p].state = "pending"
  THEN g.promises[p].state = (IF x.is = "plain" THEN "fulfilled" ELSE "rejected") /\ g.promises[p].value = x.value
  ELSE g = h

LEMMA ResolvesPlainly ==
  ASSUME NEW h, NEW its, HostOK(h, its), NEW p \in Made(h), NEW x, Resolvable(x, Newest(h)),
         x.is \in {"plain", "reason"}, NEW g, g = Resolve(h, p, x)
  PROVE  /\ Effect(h, g, its, {p}) /\ Made(g) = Made(h) /\ Newest(g) = Newest(h)
         /\ \A k, t : SameOut(h, g, k, t)
         /\ SettlesPlainly(h, g, p, x)
<1>1. /\ Effect(h, g, its, {p}) /\ Made(g) = Made(h) /\ Newest(g) = Newest(h)
      /\ ResolveOutOK(h, g, p, x)
      /\ (h.promises[p].state = "pending" => Outcome(h, g, p, x))
  BY Resolves
<1>2. \A k, t : SameOut(h, g, k, t)
  BY <1>1 DEF ResolveOutOK
<1>3. SettlesPlainly(h, g, p, x)
  <2>1. CASE h.promises[p].state = "pending"
    <3>1. SettledTo(h, g, p, IF x.is = "plain" THEN "fulfilled" ELSE "rejected", x.value)
      BY <1>1, <2>1 DEF Outcome
    <3> DEFINE s == IF x.is = "plain" THEN "fulfilled" ELSE "rejected"
    <3>2. g.promises[p].state = s /\ g.promises[p].value = x.value
      <4>1. SettledTo(h, g, p, s, x.value)
        BY <3>1
      <4> HIDE DEF s
      <4> QED BY ONLY <4>1, SettledFields
    <3> QED BY <2>1, <3>2 DEF SettlesPlainly
  <2>2. CASE h.promises[p].state # "pending"
    <3>1. g = h
      BY <2>2, SettledOnce
    <3> QED BY <2>2, <3>1 DEF SettlesPlainly
  <2> QED BY <2>1, <2>2
<1> QED BY <1>1, <1>2, <1>3

LEMMA EffectTransitive ==
  ASSUME NEW a, NEW b, NEW c, NEW its, HostOK(a, its), NEW S, Effect(a, b, its, {}), Effect(b, c, its, S)
  PROVE  Effect(a, c, its, S)
<1>1. HostOK(b, its) /\ HostOK(c, its) /\ Alike(a, b, {}) /\ Alike(b, c, S) /\ Accounted(a, b) /\ Accounted(b, c)
  BY DEF Effect
<1>2. Alike(a, b, S)
  BY <1>1 DEF Alike
<1>3. Alike(a, c, S)
  BY <1>1, <1>2, AlikeTransitive
<1>4. Accounted(a, c)
  BY <1>1, AccountedTransitive
<1> QED BY <1>1, <1>3, <1>4 DEF Effect

(* A job that resolves. *)
LEMMA PopsAndResolves ==
  ASSUME NEW h, NEW its, HostOK(h, its), NEW b, NEW job, Front(h, b, job),
         NEW p \in Made(h), NEW x, Resolvable(x, Newest(h)), x.is \in {"plain", "reason"},
         NEW g, g = Resolve(b, p, x)
  PROVE  /\ Effect(h, g, its, {p}) /\ Made(g) = Made(h) /\ Newest(g) = Newest(h)
         /\ Left(h, g, job)
         /\ SettlesPlainly(b, g, p, x)
<1>1. /\ Effect(h, b, its, {}) /\ b.promises = h.promises /\ Made(b) = Made(h) /\ Newest(b) = Newest(h)
      /\ job \in Reaction /\ Names(job, Newest(h), its) /\ Carries(job, h.promises)
      /\ Left(h, b, job)
  BY Pops
<1>2. HostOK(b, its) /\ p \in Made(b) /\ Resolvable(x, Newest(b))
  BY <1>1 DEF Effect
<1>3. /\ Effect(b, g, its, {p}) /\ Made(g) = Made(b) /\ Newest(g) = Newest(b)
      /\ \A k, t : SameOut(b, g, k, t)
      /\ SettlesPlainly(b, g, p, x)
  BY ONLY <1>2, x.is \in {"plain", "reason"}, g = Resolve(b, p, x), ResolvesPlainly
<1>4. Effect(h, g, its, {p})
  BY ONLY HostOK(h, its), <1>1, <1>3, EffectTransitive
<1>5. Left(h, g, job)
  BY <1>1, <1>3 DEF Left, PoppedOut, SameOut
<1> QED BY <1>1, <1>3, <1>4, <1>5

(* A job that registers an adoption. *)
Register(h, job) == subscribe(h, job.from, Continue("adopt", job.from, job.to))

LEMMA PopsAndSubscribes ==
  ASSUME NEW h, NEW its, HostOK(h, its), NEW b, NEW job, Front(h, b, job),
         job.kind = "subscribe", NEW g, g = Register(b, job)
  PROVE  /\ Effect(h, g, its, {}) /\ Made(g) = Made(h) /\ Newest(g) = Newest(h)
         /\ Stays(h, g)
<1> DEFINE r == Continue("adopt", job.from, job.to)
<1>1. /\ Effect(h, b, its, {}) /\ b.promises = h.promises /\ Made(b) = Made(h) /\ Newest(b) = Newest(h)
      /\ job \in Reaction /\ Names(job, Newest(h), its)
      /\ Left(h, b, job)
  BY Pops
<1>2. /\ HostOK(b, its) /\ Newest(h) \in Nat /\ Made(h) = 1 .. Newest(h) /\ job.from \in 1 .. Newest(h)
      /\ job.to \in 1 .. Newest(h) /\ "follow" \in Calls /\ job.from \in Nat /\ job.to \in Nat
  BY <1>1, HostFields DEF Effect, Names, Reaction
<1>3. r \in Reaction /\ r.kind = "adopt" /\ r.from = job.from /\ r.to = job.to
  <2> HIDE DEF r
  <2>1. \A p, q \in Nat : LET s == Continue("adopt", p, q)
                         IN  s \in Reaction /\ s.kind = "adopt" /\ s.from = p /\ s.to = q
    BY Continuations
  <2> QED BY ONLY <1>2, <2>1 DEF r
<1> HIDE DEF r
<1>4. /\ HostOK(b, its) /\ job.from \in Made(b) /\ r \in Reaction /\ Names(r, Newest(b), its) /\ r.from = job.from
      /\ r.kind \notin {"subscribe", "thenable"} /\ (r.kind = "then" => Newer(b, r.to)) /\ g = subscribe(b, job.from, r)
  BY <1>1, <1>2, <1>3 DEF Names, r, Register
<1>5. HostOK(g, its) /\ Alike(b, g, {}) /\ Newest(g) = Newest(b) /\ Made(g) = Made(b)
  BY ONLY <1>4, Subscribing
<1>6. \A k, t : MoreOut(b, g, r, k, t) /\ Accounted(b, g)
  BY ONLY <1>4, SubscribeOut
<1>7. Effect(h, g, its, {})
  <2>1. Effect(b, g, its, {})
    BY <1>5, <1>6 DEF Effect
  <2> QED BY ONLY HostOK(h, its), <1>1, <2>1, EffectTransitive
<1>8. ASSUME NEW k \in 0 .. 2, NEW t \in Nat
      PROVE  SameOut(h, g, k, t)
  <2>1. ~Holds(job, k, t) /\ ~Holds(r, k, t)
    BY <1>3 DEF Holds
  <2> QED BY <1>1, <1>6, <2>1 DEF Left, PoppedOut, MoreOut, SameOut
<1>9. ASSUME NEW k \in Nat, NEW t \in Nat, Out(g, k, t)
      PROVE  Out(h, k, t)
  <2>1. Holds(r, k, t) => Holds(job, k, t)
    BY <1>3 DEF Holds
  <2> QED BY <1>1, <1>6, <1>9, <2>1 DEF Left, PoppedOut, MoreOut
<1>10. ASSUME NEW t \in Nat, Once(h, 4, t)
       PROVE  Once(g, 4, t)
  <2>1. ~Holds(r, 4, t)
    BY <1>3 DEF Holds
  <2> QED BY <1>1, <1>6, <1>10, <2>1 DEF Left, PoppedOut, MoreOut
<1> QED BY <1>1, <1>5, <1>7, <1>8, <1>9, <1>10 DEF Stays

(* A job that adopts. *)
Adopt(h, p, state, v) == schedule_reactions(settle_promise(h, p, state, v), p)

\* The promise of job, if it is pending, gets the outcome job carries.
BringsOutcome(h, g, job) ==
  h.promises[job.to].state = "pending" =>
    g.promises[job.to].state = job.state /\ g.promises[job.to].value = job.value

LEMMA PopsAndAdopts ==
  ASSUME NEW h, NEW its, HostOK(h, its), NEW b, NEW job, Front(h, b, job),
         job.kind = "adopt", NEW g, g = Adopt(b, job.to, job.state, job.value)
  PROVE  /\ HostOK(g, its) /\ Alike(h, g, {job.to}) /\ Made(g) = Made(h) /\ Newest(g) = Newest(h)
         /\ "follow" \in Calls /\ job.to \in Made(h)
         /\ Stays(h, g) /\ BringsOutcome(h, g, job)
<1>1. /\ Effect(h, b, its, {}) /\ b.promises = h.promises /\ Made(b) = Made(h) /\ Newest(b) = Newest(h)
      /\ job \in Reaction /\ Names(job, Newest(h), its) /\ Carries(job, h.promises)
      /\ Left(h, b, job)
  BY Pops
<1>2. /\ HostOK(b, its) /\ Made(h) = 1 .. Newest(h) /\ job.to \in Made(h)
      /\ "follow" \in Calls /\ job.to \in Made(b) /\ Newest(h) \in Nat
  BY <1>1, HostFields DEF Effect, Names
<1>3. job.state \in {"fulfilled", "rejected"} /\ job.value \in AnyValue
  BY <1>1 DEF Carries, Reaction, State
<1>4. /\ HostOK(g, its) /\ Alike(b, g, {job.to}) /\ Made(g) = Made(b)
      /\ \A k, t : SameOut(b, g, k, t)
      /\ BringsOutcome(b, g, job)
  <2> DEFINE p == job.to
             s == job.state
             v == job.value
             l == settle_promise(b, p, s, v)
  <2>1. HostOK(b, its) /\ p \in Made(b) /\ s \in {"fulfilled", "rejected"} /\ v \in AnyValue
        /\ l = settle_promise(b, p, s, v) /\ g = schedule_reactions(l, p)
    BY <1>2, <1>3 DEF Adopt
  <2>2. p = job.to /\ s = job.state /\ v = job.value
    OBVIOUS
  <2> HIDE DEF p, s, v, l
  <2>3. Adopted(b, g, its, p, s, v)
    BY ONLY <2>1, Adopting
  <2>4. ASSUME b.promises[p].state = "pending"
        PROVE  g.promises[p].state = s /\ g.promises[p].value = v
    <3>1. SettledTo(b, g, p, s, v)
      BY <2>3, <2>4 DEF Adopted
    <3> QED BY ONLY <3>1, SettledFields
  <2> QED BY <2>2, <2>3, <2>4 DEF Adopted, BringsOutcome
<1>5. Newest(g) = Newest(h)
  <2>1. Newest(g) \in Nat /\ Made(g) = 1 .. Newest(g) /\ Made(h) = 1 .. Newest(h) /\ Newest(h) \in Nat
        /\ Made(g) = Made(h) /\ Newest(h) <= Newest(g)
    BY <1>1, <1>2, <1>4, HostFields DEF Alike
  <2>2. Newest(g) = 0 \/ Newest(g) \in 1 .. Newest(h)
    BY ONLY <2>1
  <2> QED BY ONLY <2>1, <2>2
<1>6. Alike(h, g, {job.to})
  <2>1. Alike(h, b, {job.to})
    BY <1>1 DEF Effect, Alike
  <2> QED BY <1>2, <1>4, <2>1, AlikeTransitive
<1>7. ASSUME NEW k \in 0 .. 2, NEW t \in Nat
      PROVE  SameOut(h, g, k, t)
  <2>1. ~Holds(job, k, t)
    BY DEF Holds
  <2> QED BY <1>1, <1>4, <2>1 DEF Left, PoppedOut, SameOut
<1>8. ASSUME NEW k, NEW t
      PROVE  (Out(g, k, t) => Out(h, k, t)) /\ (Once(h, k, t) => Once(g, k, t))
  BY <1>1, <1>4, <1>8 DEF Left, PoppedOut, SameOut
<1> QED BY <1>1, <1>2, <1>4, <1>5, <1>6, <1>7, <1>8 DEF Stays, BringsOutcome

Exposed(h, g, p) ==
  \A q \in Made(h) : /\ g.promises[q].state = h.promises[q].state
                     /\ g.promises[q].value = h.promises[q].value
                     /\ g.promises[q].handled = h.promises[q].handled
                     /\ g.promises[q].exposed = (q = p \/ h.promises[q].exposed)

(* A job that exposes a promise to a thenable. *)
LEMMA PopsAndExposes ==
  ASSUME NEW h, NEW its, HostOK(h, its), NEW b, NEW job, Front(h, b, job),
         job.kind = "thenable", NEW g, g = Expose(b, job.to)
  PROVE  /\ HostOK(g, its) /\ Accounted(h, g) /\ Made(g) = Made(h) /\ Newest(g) = Newest(h)
         /\ job.to \in Made(h)
         /\ Exposed(h, g, job.to)
         /\ Stays(h, g) /\ Left(h, g, job)
<1>1. /\ Effect(h, b, its, {}) /\ b.promises = h.promises /\ Made(b) = Made(h) /\ Newest(b) = Newest(h)
      /\ job \in Reaction /\ Names(job, Newest(h), its)
      /\ Left(h, b, job)
  BY Pops
<1>2. /\ HostOK(b, its) /\ Made(h) = 1 .. Newest(h) /\ job.to \in Made(h) /\ job.to \in Made(b) /\ Accounted(h, b)
  BY <1>1, HostFields DEF Effect, Names
<1>3. /\ HostOK(g, its) /\ Accounted(b, g) /\ Made(g) = Made(b) /\ Newest(g) = Newest(b)
      /\ \A q \in Made(b) : /\ g.promises[q].state = b.promises[q].state
                            /\ g.promises[q].value = b.promises[q].value
                            /\ g.promises[q].handled = b.promises[q].handled
                            /\ g.promises[q].exposed = (q = job.to \/ b.promises[q].exposed)
      /\ \A k, t : SameOut(b, g, k, t)
  <2> DEFINE p == job.to
  <2>1. HostOK(b, its) /\ p \in Made(b) /\ g = Expose(b, p)
    BY <1>2
  <2>2. p = job.to
    OBVIOUS
  <2> HIDE DEF p
  <2>3. /\ HostOK(g, its) /\ Accounted(b, g) /\ Made(g) = Made(b) /\ Newest(g) = Newest(b)
        /\ \A q \in Made(b) : /\ g.promises[q].state = b.promises[q].state
                              /\ g.promises[q].value = b.promises[q].value
                              /\ g.promises[q].handled = b.promises[q].handled
                              /\ g.promises[q].exposed = (q = p \/ b.promises[q].exposed)
        /\ \A k, t : SameOut(b, g, k, t)
    BY ONLY <2>1, Exposes
  <2> QED BY ONLY <2>2, <2>3
<1>4. Accounted(h, g)
  BY <1>2, <1>3, AccountedTransitive
<1>5. ASSUME NEW k \in 0 .. 2, NEW t \in Nat
      PROVE  SameOut(h, g, k, t)
  <2>1. ~Holds(job, k, t)
    BY DEF Holds
  <2> QED BY <1>1, <1>3, <2>1 DEF Left, PoppedOut, SameOut
<1>6. ASSUME NEW k, NEW t
      PROVE  PoppedOut(h, g, job, k, t) /\ (Out(g, k, t) => Out(h, k, t)) /\ (Once(h, k, t) => Once(g, k, t))
  BY <1>1, <1>3, <1>6 DEF Left, PoppedOut, SameOut
<1>7. \A q \in Made(h) : /\ g.promises[q].state = h.promises[q].state
                         /\ g.promises[q].value = h.promises[q].value
                         /\ g.promises[q].handled = h.promises[q].handled
                         /\ g.promises[q].exposed = (q = job.to \/ h.promises[q].exposed)
  BY ONLY <1>1, <1>3
<1> QED BY <1>1, <1>2, <1>3, <1>4, <1>5, <1>6, <1>7 DEF Stays, Exposed, Left

----------------------------------------------------------------------------
(* The steps of the program. *)

\* From one state to the next the host changes by an effect on the promises of S.
Does(S) == Effect(host, host', Items(combinators), S)

LEMMA DoesNewPromise ==
  ASSUME Shape, NewPromise
  PROVE  /\ Does({}) /\ Newest(host') = Newest(host) + 1
         /\ host'.promises[Newest(host')].exposed /\ host'.promises[Newest(host')].state = "pending"
         /\ \A k, t : SameOut(host, host', k, t)
<1>1. host' = new_promise(host, TRUE) /\ HostOK(host, Items(combinators))
  BY ShapeFields DEF NewPromise
<1>2. /\ HostOK(host', Items(combinators)) /\ Alike(host, host', {}) /\ Newest(host') = Newest(host) + 1
      /\ host'.promises[Newest(host')] = [state |-> "pending", value |-> Undefined, reactions |-> <<>>,
                                          handled |-> FALSE, exposed |-> TRUE]
  BY <1>1, NewPromises
<1>3. \A k, t : SameOut(host, host', k, t) /\ Accounted(host, host')
  BY <1>1, NewOut
<1> QED BY <1>2, <1>3 DEF Does, Effect

LEMMA ShapeNewPromise ==
  ASSUME Shape, NewPromise
  PROVE  Shape'
<1>1. /\ HostOK(host', Items(combinators)) /\ Newest(host') = Newest(host) + 1
      /\ \A k, t : SameOut(host, host', k, t)
  BY DoesNewPromise DEF Does, Effect
<1>2. Newest(host) \in Nat /\ Newest(host) <= Newest(host') /\ HostInv(host, combinators) /\ Rest
      /\ CallsOK(calls, Newest(host))
  BY <1>1, ShapeFields
<1>3. HostInv(host', combinators)
  BY <1>1, <1>2, HostInvKept DEF SameOut
<1>4. CallsOK(calls', Newest(host'))
  <2>1. calls' = Append(calls, <<>>) /\ <<>> \in Seq(Resolution)
    BY DEF NewPromise
  <2> QED BY <1>1, <1>2, <2>1, CallsNew
<1>5. Made(host) \subseteq Made(host')
  BY <1>1, <1>2, ShapeFields, HostFields
<1> QED BY <1>2, <1>3, <1>4, <1>5, ShapeKept DEF NewPromise, Rest

(* A resolving function of a promise is called, by the program or at the end of a job. *)
Asks(p, x) ==
  /\ p \in Made(host) /\ Resolvable(x, Newest(host))
  /\ host' = Resolve(host, p, x) /\ calls' = Asked(calls, p, x)

LEMMA CallResolverAsks ==
  ASSUME Shape, NEW p \in Ids, NEW x \in Resolutions(p), CallResolver(p, x)
  PROVE  Asks(p, x)
BY ShapeFields, ResolutionsOK DEF CallResolver, Asks

LEMMA FinishJobAsks ==
  ASSUME Shape, NEW x \in Resolutions(running.to), FinishJob(x)
  PROVE  Asks(running.to, x)
<1>1. running.to \in Made(host)
  BY ShapeFields DEF Rest, FinishJob
<1>2. Resolvable(x, Newest(host))
  BY ResolutionsOK
<1> QED BY <1>1, <1>2 DEF FinishJob, Asks

LEMMA ThenableThrowsAsks ==
  ASSUME Shape, NEW v \in Value, ThenableThrows(v)
  PROVE  Asks(running.to, Reason(v))
<1>1. running.to \in Made(host)
  BY ShapeFields DEF Rest, ThenableThrows
<1>2. Resolvable(Reason(v), Newest(host))
  BY DEF Resolvable, Resolution, Reason, AnyValue
<1>3. Reason(v).is = "reason" /\ Reason(v).value = v
  BY DEF Reason
<1> QED BY <1>1, <1>2, <1>3 DEF ThenableThrows, Asks, Resolve

LEMMA DoesAsks ==
  ASSUME Shape, NEW p, NEW x, Asks(p, x)
  PROVE  /\ Does({p}) /\ Made(host') = Made(host) /\ Newest(host') = Newest(host)
         /\ ResolveOutOK(host, host', p, x)
         /\ (host.promises[p].state = "pending" => Outcome(host, host', p, x))
         /\ CallsOK(calls', Newest(host'))
<1>1. HostOK(host, Items(combinators)) /\ CallsOK(calls, Newest(host)) /\ Newest(host) \in Nat
      /\ Made(host) = 1 .. Newest(host)
  BY ShapeFields
<1>2. /\ Does({p}) /\ Made(host') = Made(host) /\ Newest(host') = Newest(host)
      /\ ResolveOutOK(host, host', p, x)
      /\ (host.promises[p].state = "pending" => Outcome(host, host', p, x))
  <2>1. p \in Made(host) /\ Resolvable(x, Newest(host)) /\ host' = Resolve(host, p, x)
    BY DEF Asks
  <2>2. /\ Effect(host, host', Items(combinators), {p}) /\ Made(host') = Made(host) /\ Newest(host') = Newest(host)
        /\ ResolveOutOK(host, host', p, x)
        /\ (host.promises[p].state = "pending" => Outcome(host, host', p, x))
    BY ONLY <1>1, <2>1, Resolves
  <2> QED BY <2>2 DEF Does
<1>3. CallsOK(calls', Newest(host'))
  BY <1>1, <1>2, CallsAsked DEF Asks, Resolvable
<1> QED BY <1>2, <1>3

LEMMA ShapeAsks ==
  ASSUME Shape, NEW p, NEW x, Asks(p, x), UNCHANGED <<combinators, phase, reporting, reported>>,
         running' = running \/ running' = Nobody
  PROVE  Shape'
<1>1. /\ HostOK(host', Items(combinators)) /\ Made(host') = Made(host) /\ Newest(host') = Newest(host)
      /\ CallsOK(calls', Newest(host')) /\ ResolveOutOK(host, host', p, x)
  BY DoesAsks DEF Does, Effect
<1>2. HostInv(host, combinators) /\ Newest(host) <= Newest(host') /\ Rest
  BY <1>1, ShapeFields
<1>3. \A k \in 1 .. 2, t \in Nat : SameOut(host, host', k, t)
  BY <1>1 DEF ResolveOutOK
<1>4. HostInv(host', combinators)
  BY <1>1, <1>2, <1>3, HostInvKept DEF SameOut
<1>5. running' \in Activation /\ (running'.kind \in {"then", "async", "thenable"} => running'.to \in Made(host'))
  BY <1>1, <1>2 DEF Rest, Nobody, Activation
<1> QED BY <1>1, <1>2, <1>4, <1>5, ShapeKept DEF Rest

(* then *)
LEMMA DoesThen ==
  ASSUME Shape, NEW p \in Ids, NEW f \in BOOLEAN, NEW r \in BOOLEAN, PromiseThen(p, f, r)
  PROVE  /\ Does({}) /\ Newest(host') = Newest(host) + 1
         /\ Fresh(host', Newest(host')) /\ Continued(host, host', Newest(host'))
<1> DEFINE q == Newest(host) + 1
<1>1. HostOK(host, Items(combinators)) /\ p \in Made(host)
  BY ShapeFields
<1>2. host' = ThenDone(host, p, q, f, r)
  BY DEF PromiseThen, ThenDone
<1>3. q = Newest(host) + 1
  OBVIOUS
<1> HIDE DEF q
<1>4. /\ Effect(host, host', Items(combinators), {}) /\ Newest(host') = q
      /\ Fresh(host', q) /\ Continued(host, host', q)
  BY ONLY <1>1, <1>2, <1>3, f \in BOOLEAN, r \in BOOLEAN, Thens
<1> QED BY <1>3, <1>4 DEF Does

(* A call of an async function, and another await of its body. *)
LEMMA DoesAsync ==
  ASSUME Shape, NEW x \in Awaitable, CallAsync(x)
  PROVE  LET q == Newest(host) + 1
         IN  /\ Does({}) /\ Newest(host') = q + AwaitRoom(x) /\ AwaitedValue(host', x)
             /\ Fresh(host', q) /\ Continued(host, host', q)
<1> DEFINE q == Newest(host) + 1
<1>1. HostOK(host, Items(combinators)) /\ Awaited(host, x)
  BY ShapeFields, AwaitableOK
<1>2. host' = Await(new_promise(host, FALSE), Newest(new_promise(host, FALSE)), x)
  BY DEF CallAsync
<1>3. q = Newest(host) + 1
  OBVIOUS
<1> HIDE DEF q
<1>4. /\ Effect(host, host', Items(combinators), {}) /\ Newest(host') = q + AwaitRoom(x)
      /\ AwaitedValue(host', x) /\ Fresh(host', q) /\ Continued(host, host', q)
  BY <1>1, <1>2, <1>3, Asyncs
<1> QED BY <1>3, <1>4 DEF Does

LEMMA DoesAwaitAgain ==
  ASSUME Shape, NEW x \in Awaitable, AwaitAgain(x)
  PROVE  /\ Does({}) /\ Newest(host') = Newest(host) + AwaitRoom(x)
         /\ AwaitedValue(host', x) /\ Continued(host, host', running.to)
<1>1. HostOK(host, Items(combinators)) /\ Awaited(host, x) /\ running.to \in Made(host)
  BY ShapeFields, AwaitableOK DEF Rest, AwaitAgain
<1>2. host' = Await(host, running.to, x)
  BY DEF AwaitAgain
<1> DEFINE q == running.to
<1>3. HostOK(host, Items(combinators)) /\ Awaited(host, x) /\ q \in Made(host) /\ host' = Await(host, q, x)
  BY <1>1, <1>2
<1>4. q = running.to
  OBVIOUS
<1> HIDE DEF q
<1>5. /\ Effect(host, host', Items(combinators), {}) /\ Newest(host') = Newest(host) + AwaitRoom(x)
      /\ AwaitedValue(host', x) /\ Continued(host, host', q)
  BY ONLY <1>3, Awaits
<1> QED BY <1>4, <1>5 DEF Does

\* The reactions of combinators stay where they are.
Quiet(h, g) ==
  \A k \in 1 .. 2, t \in Nat : (Out(g, k, t) => Out(h, k, t)) /\ (Once(h, k, t) => Once(g, k, t))

LEMMA ContinuedQuiet ==
  ASSUME NEW h, NEW g, NEW q, Continued(h, g, q)
  PROVE  Quiet(h, g)
<1> SUFFICES ASSUME NEW k \in 1 .. 2, NEW t \in Nat
             PROVE  (Out(g, k, t) => Out(h, k, t)) /\ (Once(h, k, t) => Once(g, k, t))
  BY DEF Quiet
<1>1. k \in Nat /\ k # 0
  OBVIOUS
<1> QED BY <1>1 DEF Continued, AwaitOut

LEMMA QuietKept ==
  ASSUME NEW h, NEW cs, HostInv(h, cs), NEW g, HostOK(g, Items(cs)), Newest(h) <= Newest(g), Quiet(h, g)
  PROVE  HostInv(g, cs)
BY HostInvKept DEF Quiet

LEMMA ShapeQuiet ==
  ASSUME Shape, HostOK(host', Items(combinators)), Newest(host) <= Newest(host'), Quiet(host, host'),
         UNCHANGED <<combinators, reporting>>, CallsOK(calls', Newest(host')), reported' \subseteq Nat,
         phase' \in {"drain", "report", "turn", "dead"}, running' \in Activation,
         running'.kind \in {"then", "async", "thenable"} => running'.to \in Made(host')
  PROVE  Shape'
<1>1. HostInv(host, combinators)
  BY ShapeFields
<1>2. HostInv(host', combinators)
  BY <1>1, QuietKept
<1> QED BY <1>2, ShapeKept

LEMMA ShapeGrows ==
  ASSUME Shape, Does({}), NEW q, Continued(host, host', q), UNCHANGED <<combinators, phase, reporting, reported>>,
         CallsOK(calls', Newest(host')), running' = running \/ running' = Nobody
  PROVE  Shape'
<1>1. HostOK(host', Items(combinators)) /\ Newest(host) <= Newest(host')
  BY DEF Does, Effect, Alike
<1>2. Made(host) \subseteq Made(host')
  <2>1. Made(host') = 1 .. Newest(host') /\ Newest(host') \in Nat
    BY <1>1, HostFields
  <2>2. Made(host) = 1 .. Newest(host) /\ Newest(host) \in Nat
    BY ShapeFields
  <2> QED BY ONLY <1>1, <2>1, <2>2
<1>3. Quiet(host, host') /\ Rest
  BY ContinuedQuiet, ShapeFields
<1>4. running' \in Activation /\ (running'.kind \in {"then", "async", "thenable"} => running'.to \in Made(host'))
  BY <1>2, <1>3 DEF Rest, Nobody, Activation
<1> QED BY <1>1, <1>3, <1>4, ShapeQuiet DEF Rest

LEMMA ShapePromiseThen ==
  ASSUME Shape, NEW p \in Ids, NEW f \in BOOLEAN, NEW r \in BOOLEAN, PromiseThen(p, f, r)
  PROVE  Shape'
<1>1. Does({}) /\ Newest(host') = Newest(host) + 1 /\ Continued(host, host', Newest(host'))
  BY DoesThen
<1>2. CallsOK(calls', Newest(host'))
  <2>1. calls' = Append(calls, <<>>) /\ <<>> \in Seq(Resolution) /\ CallsOK(calls, Newest(host)) /\ Newest(host) \in Nat
    BY ShapeFields DEF PromiseThen
  <2> QED BY <1>1, <2>1, CallsNew
<1> QED BY <1>1, <1>2, ShapeGrows DEF PromiseThen

LEMMA ShapeCallAsync ==
  ASSUME Shape, NEW x \in Awaitable, CallAsync(x)
  PROVE  Shape'
<1>1. /\ Does({}) /\ Newest(host') = Newest(host) + 1 + AwaitRoom(x)
      /\ Continued(host, host', Newest(host) + 1)
  BY DoesAsync
<1>2. CallsOK(calls', Newest(host'))
  <2>1. calls' = AwaitCalls(Append(calls, <<>>), x) /\ <<>> \in Seq(Resolution) /\ CallsOK(calls, Newest(host))
        /\ Newest(host) \in Nat /\ (x \in Resolution \/ x.is = "promise")
    BY ShapeFields, AwaitableOK DEF CallAsync
  <2>2. CallsOK(Append(calls, <<>>), Newest(host) + 1)
    BY <2>1, CallsNew
  <2>3. Newest(host) + 1 \in Nat
    BY <2>1
  <2> QED BY <1>1, <2>1, <2>2, <2>3, CallsAwait
<1> QED BY <1>1, <1>2, ShapeGrows DEF CallAsync

LEMMA ShapeAwaitAgain ==
  ASSUME Shape, NEW x \in Awaitable, AwaitAgain(x)
  PROVE  Shape'
<1>1. Does({}) /\ Newest(host') = Newest(host) + AwaitRoom(x) /\ Continued(host, host', running.to)
  BY DoesAwaitAgain
<1>2. CallsOK(calls', Newest(host'))
  <2>1. calls' = AwaitCalls(calls, x) /\ CallsOK(calls, Newest(host))
        /\ Newest(host) \in Nat /\ (x \in Resolution \/ x.is = "promise")
    BY ShapeFields, AwaitableOK DEF AwaitAgain
  <2> QED BY <1>1, <2>1, CallsAwait
<1> QED BY <1>1, <1>2, ShapeGrows DEF AwaitAgain

(* A combinator. *)
NewCombinator(mode, q, items) ==
  [mode |-> mode, result |-> q, items |-> items, remaining |-> 2,
   slots |-> [i \in 1 .. 2 |-> [state |-> "pending", value |-> Undefined]]]

LEMMA DoesCombine ==
  ASSUME Shape, NEW mode \in Mode, NEW p \in Ids, NEW r \in Ids, Combine(mode, <<p, r>>)
  PROVE  LET q == Newest(host) + 1
             t == Len(combinators) + 1
             c == NewCombinator(mode, q, <<p, r>>)
         IN  /\ Effect(host, host', Items(combinators'), {}) /\ Newest(host') = q
             /\ Fresh(host', q) /\ Combined(host, host', t)
             /\ combinators' = Append(combinators, c) /\ c \in Combinator
             /\ Joined(combinators, combinators', t, c)
<1> DEFINE q == Newest(host) + 1
           t == Len(combinators) + 1
           items == <<p, r>>
           c == NewCombinator(mode, q, items)
           jts == Items(combinators')
           its == Items(combinators)
<1>1. /\ HostOK(host, its) /\ p \in Made(host) /\ r \in Made(host) /\ combinators \in Seq(Combinator)
      /\ Newest(host) \in Nat /\ Made(host) = 1 .. Newest(host)
  BY ShapeFields DEF HostInv
<1>2. /\ Newest(new_promise(host, FALSE)) = q
      /\ host' = CombineDone(host, t, items)
      /\ combinators' = Append(combinators, c)
  <2>1. Newest(new_promise(host, FALSE)) = q
    BY <1>1, NewPromises
  <2> QED BY <2>1 DEF Combine, NewCombinator, CombineDone
<1>3. items[1] = p /\ items[2] = r /\ items \in Seq(Nat) /\ q \in Nat
  BY <1>1
<1>4. c \in Combinator /\ c.items = items
  <2>1. [state |-> "pending", value |-> Undefined] \in Slot
    BY DEF Slot, State, AnyValue
  <2> DEFINE s == [state |-> "pending", value |-> Undefined]
  <2> HIDE DEF s, items, q
  <2>2. [i \in 1 .. 2 |-> s] \in Seq(Slot)
    BY <2>1 DEF s
  <2>3. c.slots \in Seq(Slot) /\ c = [mode |-> mode, result |-> q, items |-> items, remaining |-> 2, slots |-> c.slots]
    BY <2>2 DEF NewCombinator, s
  <2> QED BY ONLY <1>3, <2>3, mode \in Mode DEF Combinator
<1> HIDE DEF c, items, t, q, its, jts
<1>5. Joined(combinators, combinators', t, c)
  <2>1. t = Len(combinators) + 1
    BY DEF t
  <2> QED BY ONLY <1>1, <1>2, <1>4, <2>1, MoreItems
<1>6. /\ Longer(its, jts) /\ t \in Nat /\ t \notin DOMAIN its /\ t \in DOMAIN jts /\ jts[t] = items
      /\ items[1] \in Made(host) /\ items[2] \in Made(host) /\ q = Newest(host) + 1
  BY <1>1, <1>3, <1>4, <1>5 DEF Joined, its, jts, q
<1>7. Effect(host, host', jts, {}) /\ Newest(host') = q /\ Fresh(host', q) /\ Combined(host, host', t)
  <2>1. CanCombine(host, its, jts, t, items)
    BY ONLY <1>1, <1>6 DEF CanCombine
  <2> QED BY ONLY <1>2, <1>6, <2>1, Combines
<1> QED BY <1>2, <1>4, <1>5, <1>7 DEF q, t, c, items, jts

LEMMA ShapeCombine ==
  ASSUME Shape, NEW mode \in Mode, NEW p \in Ids, NEW r \in Ids, Combine(mode, <<p, r>>)
  PROVE  Shape'
<1> DEFINE q == Newest(host) + 1
           t == Len(combinators) + 1
           c == NewCombinator(mode, q, <<p, r>>)
<1>1. /\ Effect(host, host', Items(combinators'), {}) /\ Newest(host') = q
      /\ Fresh(host', q) /\ Combined(host, host', t)
      /\ combinators' = Append(combinators, c) /\ c \in Combinator
  BY DoesCombine
<1>2. /\ Newest(host) \in Nat /\ Made(host) = 1 .. Newest(host) /\ HostInv(host, combinators) /\ Rest
      /\ CallsOK(calls, Newest(host)) /\ p \in Made(host) /\ r \in Made(host)
  BY ShapeFields
<1>3. HostOK(host', Items(combinators')) /\ Newest(host) <= Newest(host') /\ Made(host') = 1 .. Newest(host')
  BY <1>1, <1>2, HostFields DEF Effect
<1>4. Made(host) \subseteq Made(host') /\ q \in Made(host')
  BY ONLY <1>1, <1>2, <1>3
<1>5. /\ c.result = q /\ c.items = <<p, r>> /\ c.remaining = 2 /\ DOMAIN c.slots = 1 .. 2
      /\ c.slots[1].state = "pending" /\ c.slots[2].state = "pending"
  BY DEF NewCombinator
<1> HIDE DEF c, q
<1>6. CombinatorOK(c, host')
  <2>1. DOMAIN c.items = 1 .. 2 /\ c.items[1] = p /\ c.items[2] = r
    BY <1>5
  <2>2. c.remaining = Unfilled(c.slots[1]) + Unfilled(c.slots[2])
    BY <1>5 DEF Unfilled
  <2> QED BY <1>1, <1>2, <1>4, <1>5, <2>1, <2>2 DEF CombinatorOK
<1>7. \A k \in 1 .. 2, u \in Nat : /\ Out(host', k, u) => Out(host, k, u) \/ u = t
                                   /\ Once(host, k, u) => Once(host', k, u)
  <2>1. \A k \in 1 .. 2 : k \in Nat
    OBVIOUS
  <2>2. Combined(host, host', t)
    BY <1>1
  <2> HIDE DEF t
  <2> QED BY ONLY <2>1, <2>2 DEF Combined
<1>8. HostInv(host', combinators')
  <2>1. t = Len(combinators) + 1
    OBVIOUS
  <2> HIDE DEF t
  <2> QED BY ONLY <1>1, <1>2, <1>3, <1>5, <1>6, <1>7, <2>1, HostInvCombine
<1>9. CallsOK(calls', Newest(host'))
  <2>1. calls' = Append(calls, <<>>) /\ <<>> \in Seq(Resolution)
    BY DEF Combine
  <2> QED BY <1>1, <1>2, <2>1, CallsNew DEF q
<1>10. UNCHANGED <<phase, running, reporting, reported>>
  BY DEF Combine
<1> QED BY <1>2, <1>3, <1>4, <1>8, <1>9, <1>10, ShapeKept DEF Rest

----------------------------------------------------------------------------
(* The jobs of the loop. *)

LEMMA Taken ==
  ASSUME Shape, NEW kind, Take(kind)
  PROVE  /\ HostOK(host, Items(combinators)) /\ host.microtasks # <<>> /\ Popped = Pop(host)
         /\ Job = Head(host.microtasks) /\ Job.kind = kind /\ running.kind = "nobody" /\ phase = "drain"
         /\ Job \in Reaction /\ Names(Job, Newest(host), Items(combinators)) /\ Carries(Job, host.promises)
         /\ HostInv(host, combinators) /\ Newest(host) \in Nat /\ Made(host) = 1 .. Newest(host)
         /\ CallsOK(calls, Newest(host)) /\ Rest
<1>1. /\ HostOK(host, Items(combinators)) /\ HostInv(host, combinators) /\ Newest(host) \in Nat
      /\ Made(host) = 1 .. Newest(host) /\ CallsOK(calls, Newest(host)) /\ Rest
  BY ShapeFields
<1>2. /\ host.microtasks # <<>> /\ Job = Head(host.microtasks) /\ Job.kind = kind
      /\ running.kind = "nobody" /\ phase = "drain" /\ Popped = Pop(host)
  BY DEF Take, At, InJS, Job, Popped, Pop
<1> DEFINE j == Job
           b == Pop(host)
<1>3. j = Head(host.microtasks) /\ b = Pop(host)
  BY <1>2
<1> HIDE DEF j, b
<1>4. j \in Reaction /\ Names(j, Newest(host), Items(combinators)) /\ Carries(j, host.promises)
  <2>1. Front(host, b, j)
    BY <1>2, <1>3 DEF Front
  <2> QED BY ONLY <1>1, <2>1, Pops
<1> QED BY <1>1, <1>2, <1>4 DEF j

(* The job only leaves the queue. *)
LEMMA DoesPop ==
  ASSUME Shape, NEW kind, Take(kind), host' = Popped
  PROVE  /\ Does({}) /\ host'.promises = host.promises /\ Made(host') = Made(host) /\ Newest(host') = Newest(host)
         /\ Left(host, host', Job)
<1> DEFINE j == Job
<1>1. HostOK(host, Items(combinators)) /\ Front(host, host', j)
  BY Taken DEF Front
<1>2. j = Job
  OBVIOUS
<1> HIDE DEF j
<1>3. /\ Effect(host, host', Items(combinators), {}) /\ host'.promises = host.promises
      /\ Made(host') = Made(host) /\ Newest(host') = Newest(host)
      /\ Left(host, host', j)
  BY ONLY <1>1, Pops
<1> QED BY <1>2, <1>3 DEF Does

(* A reaction settles a promise. *)
LEMMA DoesPass ==
  ASSUME Shape, NEW kind, Take(kind), NEW p \in Made(host), NEW x, Resolvable(x, Newest(host)),
         x.is \in {"plain", "reason"}, host' = Resolve(Popped, p, x)
  PROVE  /\ Does({p}) /\ Made(host') = Made(host) /\ Newest(host') = Newest(host)
         /\ Left(host, host', Job)
         /\ SettlesPlainly(Pop(host), host', p, x)
<1> DEFINE j == Job
           b == Pop(host)
<1>1. HostOK(host, Items(combinators)) /\ host' = Resolve(b, p, x) /\ Front(host, b, j)
  BY Taken DEF Front
<1>2. j = Job
  OBVIOUS
<1> HIDE DEF j, b
<1>3. /\ Effect(host, host', Items(combinators), {p}) /\ Made(host') = Made(host) /\ Newest(host') = Newest(host)
      /\ Left(host, host', j)
      /\ SettlesPlainly(b, host', p, x)
  BY ONLY <1>1, p \in Made(host), Resolvable(x, Newest(host)), x.is \in {"plain", "reason"}, PopsAndResolves
<1> QED BY <1>2, <1>3 DEF Does, b

LEMMA PoppedQuiet ==
  ASSUME NEW h, NEW g, NEW job, Left(h, g, job)
  PROVE  Quiet(h, g)
BY DEF Quiet, Left, PoppedOut

LEMMA DoesSubscribe ==
  ASSUME Shape, RunSubscribe
  PROVE  /\ Does({}) /\ Made(host') = Made(host) /\ Newest(host') = Newest(host)
         /\ Stays(host, host')
<1> DEFINE j == Job
           b == Pop(host)
<1>1. /\ HostOK(host, Items(combinators)) /\ Front(host, b, j) /\ j.kind = "subscribe"
      /\ host' = Register(b, j)
  BY Taken DEF Front, RunSubscribe, Register
<1> HIDE DEF j, b
<1>2. /\ Effect(host, host', Items(combinators), {}) /\ Made(host') = Made(host) /\ Newest(host') = Newest(host)
      /\ Stays(host, host')
  BY ONLY <1>1, PopsAndSubscribes
<1> QED BY <1>2 DEF Does

LEMMA DoesAdopt ==
  ASSUME Shape, RunAdopt
  PROVE  /\ HostOK(host', Items(combinators)) /\ Alike(host, host', {Job.to}) /\ Made(host') = Made(host)
         /\ Newest(host') = Newest(host) /\ "follow" \in Calls /\ Job.to \in Made(host)
         /\ Stays(host, host') /\ BringsOutcome(host, host', Job)
<1> DEFINE j == Job
           b == Pop(host)
<1>1. /\ HostOK(host, Items(combinators)) /\ Front(host, b, j) /\ j.kind = "adopt" 
      /\ host' = Adopt(b, j.to, j.state, j.value)
  BY Taken DEF Front, RunAdopt, Adopt
<1>2. j = Job
  OBVIOUS
<1> HIDE DEF j, b
<1>3. /\ HostOK(host', Items(combinators)) /\ Alike(host, host', {j.to}) /\ Made(host') = Made(host)
      /\ Newest(host') = Newest(host) /\ "follow" \in Calls /\ j.to \in Made(host)
      /\ Stays(host, host') /\ BringsOutcome(host, host', j)
  BY ONLY <1>1, PopsAndAdopts
<1> QED BY <1>2, <1>3

LEMMA DoesExpose ==
  ASSUME Shape, RunThenable
  PROVE  /\ HostOK(host', Items(combinators)) /\ Accounted(host, host') /\ Made(host') = Made(host)
         /\ Newest(host') = Newest(host) /\ Job.to \in Made(host) /\ Exposed(host, host', Job.to)
         /\ Stays(host, host') /\ Left(host, host', Job)
<1> DEFINE j == Job
           b == Pop(host)
<1>1. /\ HostOK(host, Items(combinators)) /\ Front(host, b, j) /\ j.kind = "thenable" /\ host' = Expose(b, j.to)
  BY Taken DEF Front, RunThenable, Expose
<1>2. j = Job
  OBVIOUS
<1> HIDE DEF j, b
<1>3. /\ HostOK(host', Items(combinators)) /\ Accounted(host, host') /\ Made(host') = Made(host)
      /\ Newest(host') = Newest(host) /\ j.to \in Made(host) /\ Exposed(host, host', j.to)
      /\ Stays(host, host') /\ Left(host, host', j)
  BY ONLY <1>1, PopsAndExposes
<1> QED BY <1>2, <1>3

LEMMA SameQuiet ==
  ASSUME NEW h, NEW g, Stays(h, g)
  PROVE  Quiet(h, g)
<1>1. \A k \in 1 .. 2 : k \in 0 .. 2
  OBVIOUS
<1> QED BY <1>1 DEF Quiet, Stays, SameOut

LEMMA ShapeSubscribe ==
  ASSUME Shape, RunSubscribe
  PROVE  Shape'
<1>1. HostOK(host', Items(combinators)) /\ Newest(host') = Newest(host) /\ Made(host') = Made(host) /\ Quiet(host, host')
  BY DoesSubscribe, SameQuiet DEF Does, Effect
<1>2. Rest /\ Newest(host) \in Nat
  BY ShapeFields
<1> QED BY <1>1, <1>2, ShapeQuiet DEF RunSubscribe, Rest

LEMMA ShapeAdopt ==
  ASSUME Shape, RunAdopt
  PROVE  Shape'
<1>1. HostOK(host', Items(combinators)) /\ Newest(host') = Newest(host) /\ Made(host') = Made(host) /\ Quiet(host, host')
  BY DoesAdopt, SameQuiet
<1>2. Rest /\ Newest(host) \in Nat
  BY ShapeFields
<1> QED BY <1>1, <1>2, ShapeQuiet DEF RunAdopt, Rest

LEMMA ShapeThenable ==
  ASSUME Shape, RunThenable
  PROVE  Shape'
<1>1. /\ HostOK(host', Items(combinators)) /\ Newest(host') = Newest(host) /\ Made(host') = Made(host)
      /\ Quiet(host, host') /\ Job.to \in Made(host)
  BY DoesExpose, SameQuiet
<1>2. Rest /\ Newest(host) \in Nat /\ Made(host) = 1 .. Newest(host) /\ CallsOK(calls, Newest(host))
  BY ShapeFields
<1>3. calls' = [calls EXCEPT ![Job.to] = <<>>] /\ running' = [kind |-> "thenable", to |-> Job.to]
      /\ UNCHANGED <<combinators, phase, reporting, reported>>
  BY DEF RunThenable, Run
<1>4. CallsOK(calls', Newest(host'))
  BY <1>1, <1>2, <1>3, CallsReset
<1>5. running' \in Activation /\ (running'.kind \in {"then", "async", "thenable"} => running'.to \in Made(host'))
  BY <1>1, <1>2, <1>3 DEF Activation
<1> QED BY <1>1, <1>2, <1>3, <1>4, <1>5, ShapeQuiet DEF Rest

(* A continuation starts. *)
LEMMA ShapeStarts ==
  ASSUME Shape, NEW kind, Take(kind), host' = Popped, NEW act \in {"then", "async"}, Run(act, Job.to),
         Job.to \in Made(host), UNCHANGED <<combinators, phase, reporting, calls, reported>>
  PROVE  Shape'
<1>1. HostOK(host', Items(combinators)) /\ Newest(host') = Newest(host) /\ Made(host') = Made(host) /\ Quiet(host, host')
  BY DoesPop, PoppedQuiet DEF Does, Effect
<1>2. Rest /\ Newest(host) \in Nat /\ Made(host) = 1 .. Newest(host) /\ CallsOK(calls, Newest(host))
  BY ShapeFields
<1>3. running' \in Activation /\ (running'.kind \in {"then", "async", "thenable"} => running'.to \in Made(host'))
  BY <1>1, <1>2 DEF Run, Activation
<1> QED BY <1>1, <1>2, <1>3, ShapeQuiet DEF Rest

LEMMA ShapeHandler ==
  ASSUME Shape, RunHandler
  PROVE  Shape'
<1>1. Take("then") /\ host' = Popped /\ Run("then", Job.to) /\ UNCHANGED <<combinators, phase, reporting, calls, reported>>
  BY DEF RunHandler
<1>2. Job.to \in Made(host)
  BY <1>1, Taken DEF Names
<1> QED BY <1>1, <1>2, ShapeStarts

LEMMA ShapeAwait ==
  ASSUME Shape, RunAwait
  PROVE  Shape'
<1>1. Take("await") /\ host' = Popped /\ Run("async", Job.to) /\ UNCHANGED <<combinators, phase, reporting, calls, reported>>
  BY DEF RunAwait
<1>2. Job.to \in Made(host)
  BY <1>1, Taken DEF Names
<1> QED BY <1>1, <1>2, ShapeStarts

(* An outcome is passed on. *)
LEMMA PassesThrough ==
  ASSUME Shape, PassThrough
  PROVE  /\ Take("then") /\ Job.to \in Made(host) /\ Resolvable(Passed(Job), Newest(host))
         /\ Passed(Job).is \in {"plain", "reason"} /\ Passed(Job) \in Resolution
         /\ host' = Resolve(Popped, Job.to, Passed(Job)) /\ calls' = Asked(calls, Job.to, Passed(Job))
<1>1. /\ Take("then") /\ host' = Resolve(Popped, Job.to, Passed(Job))
      /\ calls' = Asked(calls, Job.to, Passed(Job))
  BY DEF PassThrough, Passed
<1>2. Job \in Reaction /\ Job.to \in Made(host)
  BY <1>1, Taken DEF Names
<1> QED BY <1>1, <1>2, PassedOK

LEMMA ShapePassThrough ==
  ASSUME Shape, PassThrough
  PROVE  Shape'
<1>1. /\ HostOK(host', Items(combinators)) /\ Newest(host') = Newest(host) /\ Made(host') = Made(host)
      /\ Quiet(host, host')
  BY PassesThrough, DoesPass, PoppedQuiet DEF Does, Effect
<1>2. Rest /\ Newest(host) \in Nat /\ Made(host) = 1 .. Newest(host) /\ CallsOK(calls, Newest(host))
  BY ShapeFields
<1>3. CallsOK(calls', Newest(host'))
  BY <1>1, <1>2, PassesThrough, CallsAsked
<1> QED BY <1>1, <1>2, <1>3, ShapeQuiet DEF PassThrough, Rest

(* An item of a combinator has settled. *)
Last(c, x) == CASE c.mode \in {"all", "allSettled"} -> Plain(Results)
                [] c.mode = "any" -> Reason(AggregateError)
                [] c.mode = "race" -> x
Early(c, job) == \/ c.mode = "race"
                 \/ c.mode = "all" /\ job.state = "rejected"
                 \/ c.mode = "any" /\ job.state = "fulfilled"

LEMMA ElementTaken ==
  ASSUME Shape, RunElement
  PROVE  LET c == combinators[Job.to]
         IN  /\ Take("element") /\ Job.to \in DOMAIN combinators /\ Job.at \in 1 .. 2 /\ Job.to \in Nat
             /\ c \in Combinator /\ CombinatorOK(c, host) /\ c.result \in Made(host)
             /\ Job.from = c.items[Job.at] /\ Job \in Reaction /\ Job.state # "pending"
             /\ Job.state = host.promises[Job.from].state /\ Job.value = host.promises[Job.from].value
             /\ Out(host, Job.at, Job.to) /\ Once(host, Job.at, Job.to)
             /\ c.slots[Job.at].state = "pending"
<1>1. Take("element")
  BY DEF RunElement
<1>2. /\ Job \in Reaction /\ Names(Job, Newest(host), Items(combinators)) /\ Carries(Job, host.promises)
      /\ HostInv(host, combinators) /\ Job.kind = "element" /\ HostOK(host, Items(combinators))
      /\ host.microtasks # <<>> /\ Job = Head(host.microtasks)
  BY <1>1, Taken
<1>3. /\ Job.to \in DOMAIN combinators /\ Job.at \in 1 .. 2 /\ Job.from = combinators[Job.to].items[Job.at]
      /\ Job.to \in Nat
  BY <1>2 DEF Names, Items, Reaction
<1>4. CombinatorOK(combinators[Job.to], host) /\ Once(host, Job.at, Job.to)
  BY <1>2, <1>3 DEF HostInv, ElementsOK
<1>5. Out(host, Job.at, Job.to)
  <2> DEFINE j == Job
             b == Pop(host)
  <2>1. Front(host, b, j) /\ j = Job
    BY <1>2 DEF Front
  <2> HIDE DEF j, b
  <2>2. Left(host, b, j)
    BY ONLY <1>2, <2>1, Pops
  <2> QED BY <1>2, <1>3, <2>1, <2>2 DEF Left, PoppedOut, Holds
<1>6. combinators[Job.to].slots[Job.at].state = "pending"
  BY <1>2, <1>3, <1>5 DEF HostInv, ElementsOK
<1>7. /\ Job.state # "pending" /\ Job.state = host.promises[Job.from].state
      /\ Job.value = host.promises[Job.from].value
  BY <1>2 DEF Carries
<1> QED BY <1>1, <1>2, <1>3, <1>4, <1>5, <1>6, <1>7 DEF CombinatorOK

LEMMA ElementSteps ==
  ASSUME Shape, RunElement
  PROVE  LET c == combinators[Job.to]
             x == Passed(Job)
         IN  \/ /\ Early(c, Job) /\ UNCHANGED combinators
                /\ host' = Resolve(Popped, c.result, x) /\ calls' = Asked(calls, c.result, x)
             \/ /\ ~Early(c, Job) /\ c.mode # "race"
                /\ combinators' = [combinators EXCEPT ![Job.to] = Fill(c, Job)]
                /\ \/ /\ c.remaining = 1
                      /\ host' = Resolve(Popped, c.result, Last(c, x)) /\ calls' = Asked(calls, c.result, Last(c, x))
                   \/ c.remaining # 1 /\ host' = Popped /\ UNCHANGED calls
<1> DEFINE c == combinators[Job.to]
           x == Passed(Job)
<1>1. x = IF Job.state = "rejected" THEN Reason(Job.value) ELSE Plain(Job.value)
  BY DEF Passed
<1>2. \/ Early(c, Job) /\ Settles(c, x) /\ UNCHANGED combinators
      \/ /\ ~Early(c, Job)
         /\ combinators' = [combinators EXCEPT ![Job.to] = Fill(c, Job)]
         /\ IF Completes(c) THEN Settles(c, Last(c, x)) ELSE Waits
  BY DEF RunElement, Early, Last, Passed
<1> QED BY <1>2 DEF Settles, Completes, Waits, Early

LEMMA LastOK ==
  ASSUME NEW c \in Combinator, c.mode # "race", NEW x, NEW m
  PROVE  Resolvable(Last(c, x), m) /\ Last(c, x) \in Resolution /\ Last(c, x).is \in {"plain", "reason"}
<1>1. c.mode \in {"all", "allSettled", "any"}
  BY DEF Combinator, Mode
<1>2. CASE c.mode \in {"all", "allSettled"}
  BY <1>2 DEF Last, Plain, Resolvable, Resolution, AnyValue
<1>3. CASE c.mode = "any"
  BY <1>3 DEF Last, Reason, Resolvable, Resolution, AnyValue
<1> QED BY <1>1, <1>2, <1>3

\* The host after an item was taken into account.
DoesElement ==
  /\ HostOK(host', Items(combinators)) /\ Newest(host') = Newest(host) /\ Made(host') = Made(host)
  /\ Left(host, host', Job) /\ CallsOK(calls', Newest(host')) /\ Accounted(host, host')
  /\ Alike(host, host', {combinators[Job.to].result})

LEMMA ElementDoes ==
  ASSUME Shape, RunElement
  PROVE  DoesElement
<1> DEFINE c == combinators[Job.to]
<1>1. Take("element") /\ c \in Combinator /\ c.result \in Made(host) /\ Job \in Reaction
  BY ElementTaken
<1>2. Newest(host) \in Nat /\ Made(host) = 1 .. Newest(host) /\ CallsOK(calls, Newest(host))
  BY ShapeFields
<1>3. ASSUME NEW x, Resolvable(x, Newest(host)), x.is \in {"plain", "reason"},
             host' = Resolve(Popped, c.result, x), calls' = Asked(calls, c.result, x)
      PROVE  DoesElement
  <2> DEFINE p == c.result
  <2>1. p \in Made(host) /\ host' = Resolve(Popped, p, x) /\ calls' = Asked(calls, p, x) /\ x \in Resolution
    BY <1>1, <1>3 DEF Resolvable
  <2>2. p = combinators[Job.to].result
    OBVIOUS
  <2> HIDE DEF p, c
  <2>3. Does({p}) /\ Made(host') = Made(host) /\ Newest(host') = Newest(host) /\ Left(host, host', Job)
    BY <1>1, <1>3, <2>1, DoesPass
  <2>4. CallsOK(calls', Newest(host'))
    BY <1>2, <2>1, <2>3, CallsAsked
  <2> QED BY <2>2, <2>3, <2>4 DEF DoesElement, Does, Effect
<1>4. CASE host' = Popped /\ UNCHANGED calls
  <2>1. Does({}) /\ Made(host') = Made(host) /\ Newest(host') = Newest(host) /\ Left(host, host', Job)
    BY <1>1, <1>4, DoesPop
  <2>2. Alike(host, host', {combinators[Job.to].result})
    BY <2>1 DEF Does, Effect, Alike
  <2> QED BY <1>2, <1>4, <2>1, <2>2 DEF DoesElement, Does, Effect
<1>5. Resolvable(Passed(Job), Newest(host)) /\ Passed(Job).is \in {"plain", "reason"}
  BY <1>1, PassedOK
<1>6. CASE host' = Resolve(Popped, c.result, Passed(Job)) /\ calls' = Asked(calls, c.result, Passed(Job))
  BY <1>3, <1>5, <1>6
<1>7. ASSUME c.mode # "race", host' = Resolve(Popped, c.result, Last(c, Passed(Job))),
             calls' = Asked(calls, c.result, Last(c, Passed(Job)))
      PROVE  DoesElement
  <2>1. Resolvable(Last(c, Passed(Job)), Newest(host)) /\ Last(c, Passed(Job)).is \in {"plain", "reason"}
    BY <1>1, <1>7, LastOK
  <2> QED BY <1>3, <1>7, <2>1
<1> QED BY <1>4, <1>6, <1>7, ElementSteps

LEMMA ShapeElement ==
  ASSUME Shape, RunElement
  PROVE  Shape'
<1>1. /\ HostOK(host', Items(combinators)) /\ Newest(host') = Newest(host) /\ Made(host') = Made(host)
      /\ Left(host, host', Job) /\ CallsOK(calls', Newest(host')) /\ Quiet(host, host')
  BY ElementDoes, PoppedQuiet DEF DoesElement
<1>2. Rest /\ Newest(host) \in Nat /\ HostInv(host, combinators)
  BY ShapeFields
<1>3. UNCHANGED <<phase, running, reporting, reported>>
  BY DEF RunElement
<1>4. HostInv(host', combinators')
  <2>1. CASE UNCHANGED combinators
    BY <1>1, <1>2, <2>1, QuietKept
  <2>2. CASE combinators' = [combinators EXCEPT ![Job.to] = Fill(combinators[Job.to], Job)]
    <3> DEFINE j == Job
               t == j.to
    <3>1. /\ t \in DOMAIN combinators /\ j \in Reaction /\ j.at \in 1 .. 2 /\ j.state # "pending"
          /\ combinators[t].slots[j.at].state = "pending"
          /\ Once(host, j.at, t) /\ j.kind = "element" /\ t = j.to
          /\ combinators' = [combinators EXCEPT ![t] = Fill(combinators[t], j)] /\ Left(host, host', j)
      BY <1>1, <2>2, ElementTaken DEF Take
    <3> HIDE DEF j, t
    <3>2. ~Out(host', j.at, t)
      <4>1. Holds(j, j.at, t)
        BY <3>1 DEF Holds
      <4> QED BY <3>1, <4>1 DEF Left, PoppedOut
    <3>3. \A k \in 1 .. 2, u \in Nat : (Out(host', k, u) => Out(host, k, u)) /\ (Once(host, k, u) => Once(host', k, u))
      BY <1>1 DEF Quiet
    <3>4. Newest(host) <= Newest(host')
      BY <1>1, <1>2
    <3> QED BY ONLY <1>1, <1>2, <3>1, <3>2, <3>3, <3>4, Fills
  <2> QED BY <2>1, <2>2, ElementSteps
<1> QED BY <1>1, <1>2, <1>3, <1>4, ShapeKept DEF Rest

----------------------------------------------------------------------------
(* The checkpoint, and steps that leave the host alone. *)

LEMMA ShapeAside ==
  ASSUME Shape, UNCHANGED <<host, combinators, calls>>, reported' = reported,
         phase' \in {"drain", "report", "turn", "dead"}, running' \in Activation,
         running'.kind \in {"then", "async", "thenable"} => running'.to \in Made(host),
         reporting' = reporting \/ reporting' = <<>>
  PROVE  Shape'
<1>1. HostInv(host', combinators') /\ Rest /\ Newest(host) \in Nat /\ CallsOK(calls', Newest(host')) /\ Newest(host') = Newest(host)
      /\ Made(host') = Made(host)
  BY ShapeFields
<1>2. \/ reporting' = reporting
      \/ reporting' \in Seq(Nat) /\ \A i \in DOMAIN reporting' : reporting'[i] \in Made(host')
  <2>1. \A s : s = <<>> => s \in Seq(Nat) /\ DOMAIN s = {}
    OBVIOUS
  <2> QED BY <2>1
<1>3. /\ running'.kind \in {"then", "async", "thenable"} => running'.to \in Made(host')
      /\ Newest(host) <= Newest(host') /\ reported' \subseteq Nat
  BY <1>1 DEF Rest
<1> QED BY <1>1, <1>2, <1>3, ShapeKept

LEMMA ShapeOther ==
  ASSUME Shape, Return \/ Throw \/ Drained \/ Reported \/ Macrotask
  PROVE  Shape'
<1>1. Rest
  BY ShapeFields
<1>2. ASSUME Return PROVE Shape'
  BY <1>1, <1>2, ShapeAside DEF Return, Rest, Nobody, Activation
<1>3. ASSUME Throw PROVE Shape'
  BY <1>1, <1>3, ShapeAside DEF Throw, Rest, Nobody, Activation
<1>4. ASSUME Drained PROVE Shape'
  BY <1>1, <1>4, ShapeAside DEF Drained, Rest
<1>5. ASSUME Reported PROVE Shape'
  BY <1>1, <1>5, ShapeAside DEF Reported, Rest
<1>6. ASSUME Macrotask PROVE Shape'
  BY <1>1, <1>6, ShapeAside DEF Macrotask, Run, Rest, Activation
<1> QED BY <1>2, <1>3, <1>4, <1>5, <1>6

\* The list of rejections is taken.
LEMMA DoesTake ==
  ASSUME Shape, TakeRejections
  PROVE  /\ HostOK(host', Items(combinators)) /\ Alike(host, host', {}) /\ Newest(host') = Newest(host)
         /\ Made(host') = Made(host) /\ host'.promises = host.promises /\ host'.microtasks = host.microtasks
         /\ Listed(host') = {} /\ \A k, t : SameOut(host, host', k, t)
<1>1. HostOK(host, Items(combinators)) /\ host \in Host /\ Newest(host) \in Nat
  BY ShapeFields, HostFields
<1>2. host' = [host EXCEPT !.pending_rejections = <<>>]
  BY DEF TakeRejections
<1>3. /\ host' \in Host /\ host'.promises = host.promises /\ host'.microtasks = host.microtasks
      /\ host'.pending_rejections = <<>>
  <2>1. <<>> \in Seq(Nat)
    OBVIOUS
  <2> QED BY ONLY <1>1, <1>2, <2>1 DEF Host
<1>4. Listed(host') = {} /\ Made(host') = Made(host) /\ Newest(host') = Newest(host)
  BY <1>3 DEF Listed, Made, Newest
<1>5. HostOK(host', Items(combinators))
  BY <1>1, <1>3, <1>4 DEF HostOK
<1>6. Alike(host, host', {})
  BY <1>1, <1>3, <1>4 DEF Alike
<1>7. ASSUME NEW k, NEW t PROVE SameOut(host, host', k, t)
  <2>1. Lines(host') = Lines(host) /\ \A a \in Lines(host) : Line(host', a) = Line(host, a)
    BY <1>3, <1>4 DEF Lines, Line
  <2> QED BY <2>1, SameLines DEF SameOut
<1> QED BY <1>3, <1>4, <1>5, <1>6, <1>7

LEMMA ShapeTake ==
  ASSUME Shape, TakeRejections
  PROVE  Shape'
<1>1. /\ HostOK(host', Items(combinators)) /\ Newest(host') = Newest(host) /\ Made(host') = Made(host)
      /\ \A k, t : SameOut(host, host', k, t)
  BY DoesTake
<1>2. /\ Rest /\ Newest(host) \in Nat /\ HostInv(host, combinators) /\ CallsOK(calls, Newest(host))
      /\ HostOK(host, Items(combinators))
  BY ShapeFields
<1>3. HostInv(host', combinators)
  BY <1>1, <1>2, QuietKept DEF Quiet, SameOut
<1>4. reporting' = host.pending_rejections /\ UNCHANGED <<combinators, phase, running, calls, reported>>
  BY DEF TakeRejections
<1>5. reporting' \in Seq(Nat) /\ \A i \in DOMAIN reporting' : reporting'[i] \in Made(host')
  BY <1>1, <1>2, <1>4, HostFields DEF HostOK, Listed
<1> QED BY <1>1, <1>2, <1>3, <1>4, <1>5, ShapeKept DEF Rest

\* The first rejection of the list is reported, or is not there any more.
LEMMA DoesReport ==
  ASSUME Shape, Report
  PROVE  LET p == Head(reporting)
         IN  /\ p \in Made(host) /\ Does({}) /\ Newest(host') = Newest(host) /\ Made(host') = Made(host)
             /\ \A k, t : SameOut(host, host', k, t)
             /\ host'.pending_rejections = host.pending_rejections /\ host'.microtasks = host.microtasks
             /\ Unreported(host') = Unreported(host) \ {p}
             /\ reporting' \in Seq(Nat) /\ \A q \in Nat : (\E i \in DOMAIN reporting : reporting[i] = q) =>
                                                            q = p \/ \E i \in DOMAIN reporting' : reporting'[i] = q
             /\ \A i \in DOMAIN reporting' : reporting'[i] \in Made(host')
<1> DEFINE p == Head(reporting)
<1>1. /\ reporting \in Seq(Nat) /\ reporting # <<>> /\ reporting' = Tail(reporting)
      /\ \A i \in DOMAIN reporting : reporting[i] \in Made(host)
  BY ShapeFields DEF Rest, Report
<1>2. HostOK(host, Items(combinators)) /\ Newest(host) \in Nat
  BY ShapeFields
<1>3. /\ reporting' \in Seq(Nat) /\ p = reporting[1] /\ 1 \in DOMAIN reporting
      /\ \A i \in DOMAIN reporting : i = 1 \/ (i - 1 \in DOMAIN reporting' /\ reporting[i] = reporting'[i - 1])
      /\ \A i \in DOMAIN reporting' : i + 1 \in DOMAIN reporting /\ reporting'[i] = reporting[i + 1]
  BY ONLY <1>1
<1>4. p \in Made(host)
  BY <1>1, <1>3
<1>5. /\ Does({}) /\ Newest(host') = Newest(host) /\ Made(host') = Made(host)
      /\ \A k, t : SameOut(host, host', k, t)
      /\ host'.pending_rejections = host.pending_rejections /\ host'.microtasks = host.microtasks
      /\ Unreported(host') = Unreported(host) \ {p}
  <2>1. CASE Unhandled(p)
    <3>1. host' = Handle(host, p)
      BY <2>1 DEF Report, Handle
    <3> HIDE DEF p
    <3>2. /\ Effect(host, host', Items(combinators), {}) /\ Made(host') = Made(host)
          /\ host'.pending_rejections = host.pending_rejections
          /\ host'.microtasks = host.microtasks /\ Unreported(host') = Unreported(host) \ {p}
          /\ \A k, t : SameOut(host, host', k, t)
      BY ONLY <1>2, <1>4, <3>1, Handles
    <3>3. Newest(host') = Newest(host)
      <4>1. Newest(host') \in Nat /\ Made(host') = 1 .. Newest(host') /\ Made(host) = 1 .. Newest(host)
        BY <1>2, <3>2, HostFields DEF Effect
      <4>2. Newest(host) <= Newest(host')
        BY <3>2 DEF Effect, Alike
      <4>3. 1 .. Newest(host') = 1 .. Newest(host)
        BY <3>2, <4>1
      <4>4. \A i, j \in Nat : 1 .. i = 1 .. j /\ j <= i => i = j
        <5> SUFFICES ASSUME NEW i \in Nat, NEW j \in Nat, 1 .. i = 1 .. j, j <= i PROVE i = j
          OBVIOUS
        <5>1. i = 0 \/ i \in 1 .. j
          OBVIOUS
        <5> QED BY <5>1
      <4> QED BY ONLY <1>2, <4>1, <4>2, <4>3, <4>4
    <3> QED BY <3>2, <3>3 DEF Does
  <2>2. CASE ~Unhandled(p)
    <3>1. host' = host
      BY <2>2 DEF Report
    <3>2. p \notin Unreported(host)
      BY <2>2 DEF Unreported, Unhandled, promise_state
    <3> QED BY <1>2, <3>1, <3>2 DEF Does, Effect, Alike, Accounted, SameOut
  <2> QED BY <2>1, <2>2
<1>6. \A i \in DOMAIN reporting' : reporting'[i] \in Made(host')
  BY <1>1, <1>3, <1>5
<1> QED BY <1>3, <1>4, <1>5, <1>6

LEMMA ShapeReport ==
  ASSUME Shape, Report
  PROVE  Shape'
<1>1. /\ HostOK(host', Items(combinators)) /\ Newest(host') = Newest(host) /\ Made(host') = Made(host)
      /\ \A k, t : SameOut(host, host', k, t)
      /\ reporting' \in Seq(Nat) /\ \A i \in DOMAIN reporting' : reporting'[i] \in Made(host')
      /\ Head(reporting) \in Made(host)
  BY DoesReport DEF Does, Effect
<1>2. /\ Rest /\ Newest(host) \in Nat /\ HostInv(host, combinators) /\ CallsOK(calls, Newest(host))
      /\ Made(host) = 1 .. Newest(host)
  BY ShapeFields
<1>3. HostInv(host', combinators)
  BY <1>1, <1>2, QuietKept DEF Quiet, SameOut
<1>4. /\ UNCHANGED <<combinators, calls>> /\ phase' \in {phase, "dead"}
      /\ running' \in {running, [kind |-> "listener", to |-> 0]}
      /\ reported' \in {reported, reported \cup {Head(reporting)}}
  BY DEF Report, Run
<1>5. running' \in Activation /\ (running'.kind \in {"then", "async", "thenable"} => running'.to \in Made(host'))
  BY <1>1, <1>2, <1>4 DEF Rest, Activation
<1>6. reported' \subseteq Nat /\ phase' \in {"drain", "report", "turn", "dead"}
  BY <1>1, <1>2, <1>4 DEF Rest
<1> QED BY <1>1, <1>2, <1>3, <1>4, <1>5, <1>6, ShapeKept

----------------------------------------------------------------------------
(* The theorems. *)

LEMMA ShapeNext ==
  ASSUME Shape, [Next]_vars
  PROVE  Shape'
<1>1. ASSUME JS PROVE Shape'
  <2>1. ASSUME NewPromise PROVE Shape'
    BY <2>1, ShapeNewPromise
  <2>2. ASSUME NEW p \in Ids, NEW x \in Resolutions(p), CallResolver(p, x) PROVE Shape'
    BY <2>2, CallResolverAsks, ShapeAsks DEF CallResolver
  <2>3. ASSUME NEW p \in Ids, NEW f \in BOOLEAN, NEW r \in BOOLEAN, PromiseThen(p, f, r) PROVE Shape'
    BY <2>3, ShapePromiseThen
  <2>4. ASSUME NEW x \in Awaitable, CallAsync(x) PROVE Shape'
    BY <2>4, ShapeCallAsync
  <2>5. ASSUME NEW x \in Awaitable, AwaitAgain(x) PROVE Shape'
    BY <2>5, ShapeAwaitAgain
  <2>6. ASSUME NEW m \in Mode, NEW p \in Ids, NEW q \in Ids, Combine(m, <<p, q>>) PROVE Shape'
    BY <2>6, ShapeCombine
  <2>7. ASSUME NEW x \in Resolutions(running.to), FinishJob(x) PROVE Shape'
    BY <2>7, FinishJobAsks, ShapeAsks DEF FinishJob
  <2>8. ASSUME NEW v \in Value, ThenableThrows(v) PROVE Shape'
    BY <2>8, ThenableThrowsAsks, ShapeAsks DEF ThenableThrows
  <2> QED BY <1>1, <2>1, <2>2, <2>3, <2>4, <2>5, <2>6, <2>7, <2>8, ShapeOther DEF JS
<1>2. ASSUME Loop PROVE Shape'
  BY <1>2, ShapeSubscribe, ShapeAdopt, ShapeThenable, ShapeHandler, ShapePassThrough, ShapeAwait,
     ShapeElement, ShapeTake, ShapeReport, ShapeOther DEF Loop
<1>3. ASSUME UNCHANGED vars PROVE Shape'
  <2>1. UNCHANGED <<host, combinators, phase, running, reporting, calls, reported>>
    BY <1>3 DEF vars
  <2>2. Rest /\ (running.kind \in {"then", "async", "thenable"} => running.to \in Made(host))
        /\ phase \in {"drain", "report", "turn", "dead"} /\ running \in Activation
    BY ShapeFields DEF Rest
  <2> QED BY <2>1, <2>2, ShapeAside
<1> QED BY <1>1, <1>2, <1>3 DEF Next

LEMMA ShapeAlways == Spec => []Shape
<1>1. Init => Shape
  BY ShapeInit
<1>2. Shape /\ [Next]_vars => Shape'
  BY ShapeNext
<1> QED BY <1>1, <1>2, PTL DEF Spec

\* The state of the promises, of the queue and of the combinators has its type.
THEOREM TypeCorrect == Spec => []TypeOK
<1>1. Shape => TypeOK
  BY ShapeTyped
<1> QED BY <1>1, ShapeAlways, PTL

LEMMA ShapeOrdered ==
  ASSUME Shape
  PROVE  ReactionsInOrder
<1>1. HostOK(host, Items(combinators)) /\ Ids = Made(host)
  BY ShapeFields
<1>2. \A p \in Made(host) : CellOK(host.promises[p], p, Newest(host), Items(combinators))
  BY <1>1, HostFields
<1>3. \A p \in SettledIds : Cells[p].reactions = <<>>
  BY <1>1, <1>2 DEF SettledIds, Cells, CellOK
<1>4. /\ host.microtasks \in Seq(Reaction) /\ Ascending(host.microtasks)
      /\ \A i \in DOMAIN host.microtasks : Carries(host.microtasks[i], host.promises)
  BY <1>1 DEF HostOK, JobsOK
<1>5. ASSUME NEW i \in DOMAIN host.microtasks, NEW j \in 1 .. i - 1,
             host.microtasks[i].kind = "then", host.microtasks[j].kind = "then",
             host.microtasks[i].from = host.microtasks[j].from
      PROVE  host.microtasks[j].to < host.microtasks[i].to
  <2>1. i \in Nat /\ j \in Nat /\ j < i /\ j \in DOMAIN host.microtasks
    BY <1>4, LenProperties
  <2> QED BY <1>4, <1>5, <2>1 DEF Ascending
<1>6. \A i \in DOMAIN host.microtasks :
        LET job == host.microtasks[i]
        IN  job.kind \notin {"subscribe", "thenable"} =>
              job.state = Cells[job.from].state /\ job.value = Cells[job.from].value
  BY <1>4 DEF Carries, Cells
<1> QED BY <1>3, <1>5, <1>6, ShapeTyped DEF ReactionsInOrder

\* Reactions wait on pending promises only; scheduled, they carry the outcome of
\* their promise, and the reactions then() registered run in that order.
THEOREM ReactionsInOrderCorrect == Spec => []ReactionsInOrder
<1>1. Shape => ReactionsInOrder
  BY ShapeOrdered
<1> QED BY <1>1, ShapeAlways, PTL

----------------------------------------------------------------------------
(* Rejections nobody handles. *)

Members(s) == {s[i] : i \in DOMAIN s}

\* A rejected promise without a handler is on the list, or on what the checkpoint took of it.
Noted ==
  /\ phase # "dead" => Unreported(host) \subseteq Listed(host) \cup Members(reporting)
  /\ phase = "turn" => ~InJS /\ reporting = <<>> /\ Listed(host) = {}

\* No promise adopts another, and no activation is torn down by an exception.
Plainly == "follow" \notin Calls /\ ~Throws

LEMMA NotedKept ==
  ASSUME Noted, Accounted(host, host'), InJS \/ phase # "turn", UNCHANGED <<phase, reporting>>
  PROVE  Noted'
<1>1. phase # "turn"
  BY DEF Noted
<1> QED BY <1>1 DEF Noted, Accounted

LEMMA NotedAsks ==
  ASSUME Shape, Noted, NEW p, NEW x, Asks(p, x), UNCHANGED <<phase, reporting>>, InJS
  PROVE  Noted'
<1>1. Accounted(host, host')
  BY DoesAsks DEF Does, Effect
<1> QED BY <1>1, NotedKept

LEMMA NotedDoes ==
  ASSUME Noted, NEW S, Does(S), UNCHANGED <<phase, reporting>>, InJS \/ phase # "turn"
  PROVE  Noted'
<1>1. Accounted(host, host')
  BY DEF Does, Effect
<1> QED BY <1>1, NotedKept

LEMMA NotedProgram ==
  ASSUME Shape, Noted, JS, Plainly
  PROVE  Noted'
<1>1. ASSUME NewPromise PROVE Noted'
  BY <1>1, DoesNewPromise, NotedDoes DEF NewPromise
<1>2. ASSUME NEW p \in Ids, NEW x \in Resolutions(p), CallResolver(p, x) PROVE Noted'
  BY <1>2, CallResolverAsks, NotedAsks DEF CallResolver
<1>3. ASSUME NEW p \in Ids, NEW f \in BOOLEAN, NEW r \in BOOLEAN, PromiseThen(p, f, r) PROVE Noted'
  BY <1>3, DoesThen, NotedDoes DEF PromiseThen
<1>4. ASSUME NEW x \in Awaitable, CallAsync(x) PROVE Noted'
  BY <1>4, DoesAsync, NotedDoes DEF CallAsync
<1>5. ASSUME NEW x \in Awaitable, AwaitAgain(x) PROVE Noted'
  BY <1>5, DoesAwaitAgain, NotedDoes DEF AwaitAgain, InJS
<1>6. ASSUME NEW m \in Mode, NEW p \in Ids, NEW q \in Ids, Combine(m, <<p, q>>) PROVE Noted'
  <2>1. Accounted(host, host')
    BY <1>6, DoesCombine DEF Effect
  <2> QED BY <1>6, <2>1, NotedKept DEF Combine
<1>7. ASSUME NEW x \in Resolutions(running.to), FinishJob(x) PROVE Noted'
  BY <1>7, FinishJobAsks, NotedAsks DEF FinishJob, InJS
<1>8. ASSUME NEW v \in Value, ThenableThrows(v) PROVE Noted'
  BY <1>8, ThenableThrowsAsks, NotedAsks DEF ThenableThrows, InJS
<1>9. ASSUME Return PROVE Noted'
  BY <1>9, NotedKept DEF Return, InJS, Accounted, Noted
<1>10. ~Throw
  BY DEF Plainly, Throw
<1> QED BY <1>1, <1>2, <1>3, <1>4, <1>5, <1>6, <1>7, <1>8, <1>9, <1>10 DEF JS

LEMMA NotedLoop ==
  ASSUME Shape, Noted, Loop, Plainly
  PROVE  Noted'
<1>1. ASSUME RunSubscribe PROVE Noted'
  BY <1>1, DoesSubscribe, NotedDoes DEF RunSubscribe, Take, At
<1>2. ~RunAdopt
  BY DoesAdopt DEF Plainly
<1>3. ASSUME RunThenable PROVE Noted'
  BY <1>3, DoesExpose, NotedKept DEF RunThenable, Take, At
<1>4. ASSUME RunHandler PROVE Noted'
  BY <1>4, DoesPop, NotedDoes DEF RunHandler, Take, At
<1>5. ASSUME PassThrough PROVE Noted'
  <2>1. Does({Job.to})
    BY <1>5, PassesThrough, DoesPass
  <2> QED BY <1>5, <2>1, NotedDoes DEF PassThrough, Take, At
<1>6. ASSUME RunAwait PROVE Noted'
  BY <1>6, DoesPop, NotedDoes DEF RunAwait, Take, At
<1>7. ASSUME RunElement PROVE Noted'
  BY <1>7, ElementDoes, NotedKept DEF DoesElement, RunElement, Take, At
<1>8. ASSUME Drained PROVE Noted'
  BY <1>8 DEF Drained, At, Noted
<1>9. ASSUME TakeRejections PROVE Noted'
  <2>1. /\ reporting = <<>> /\ reporting' = host.pending_rejections /\ phase = "report" /\ phase' = "report"
    BY <1>9 DEF TakeRejections, At
  <2>2. host'.promises = host.promises /\ Listed(host') = {}
    BY <1>9, DoesTake
  <2>3. Unreported(host') = Unreported(host) /\ Members(reporting') = Listed(host) /\ Members(reporting) = {}
    BY <2>1, <2>2 DEF Unreported, Made, Members, Listed
  <2> QED BY <2>1, <2>2, <2>3 DEF Noted
<1>10. ASSUME Report PROVE Noted'
  <2>1. /\ reporting \in Seq(Nat) /\ phase = "report" /\ phase' \in {"report", "dead"}
    BY <1>10, ShapeFields DEF Report, At, Rest
  <2>2. /\ host'.pending_rejections = host.pending_rejections
        /\ Unreported(host') = Unreported(host) \ {Head(reporting)}
        /\ \A q \in Nat : (\E i \in DOMAIN reporting : reporting[i] = q) =>
                            q = Head(reporting) \/ \E i \in DOMAIN reporting' : reporting'[i] = q
    BY <1>10, DoesReport
  <2>3. Members(reporting) \subseteq Members(reporting') \cup {Head(reporting)}
    BY <2>1, <2>2 DEF Members
  <2>4. Listed(host') = Listed(host)
    BY <2>2 DEF Listed
  <2> QED BY <2>1, <2>2, <2>3, <2>4 DEF Noted
<1>11. ASSUME Reported PROVE Noted'
  <2>1. Listed(host) = {}
    BY <1>11 DEF Reported, Listed
  <2> QED BY <1>11, <2>1 DEF Reported, At, Noted, InJS
<1>12. ASSUME Macrotask PROVE Noted'
  BY <1>12 DEF Macrotask, At, Run, Noted
<1> QED BY <1>1, <1>2, <1>3, <1>4, <1>5, <1>6, <1>7, <1>8, <1>9, <1>10, <1>11, <1>12 DEF Loop

\* Where no promise adopts another and nothing throws out of the loop, a rejection
\* nobody handles is reported before the loop goes on to its turn.
THEOREM UnhandledRejectionsReportedCorrect ==
  ASSUME "follow" \notin Calls, ~Throws
  PROVE  Spec => []UnhandledRejectionsReported
<1>1. Plainly
  BY DEF Plainly
<1>2. Init => Shape /\ Noted
  <2>1. Init => Unreported(host) = {} /\ phase = "drain"
    BY DEF Init, Unreported, Made
  <2> QED BY <2>1, ShapeInit DEF Noted
<1>3. (Shape /\ Noted) /\ [Next]_vars => (Shape /\ Noted)'
  <2> SUFFICES ASSUME Shape, Noted, [Next]_vars PROVE Shape' /\ Noted'
    OBVIOUS
  <2>1. ASSUME UNCHANGED vars PROVE Noted'
    BY <2>1 DEF vars, Noted, InJS
  <2> QED BY <1>1, <2>1, ShapeNext, NotedProgram, NotedLoop DEF Next
<1>4. Shape /\ Noted => UnhandledRejectionsReported
  <2> SUFFICES ASSUME Shape, Noted, At("turn"), NEW p \in Ids, Unhandled(p) PROVE FALSE
    BY DEF UnhandledRejectionsReported
  <2>1. p \in Unreported(host)
    BY ShapeFields DEF Unhandled, Unreported, promise_state
  <2>2. Members(reporting) = {} /\ Listed(host) = {} /\ Unreported(host) \subseteq Listed(host) \cup Members(reporting)
    BY DEF At, Noted, Members
  <2> QED BY <2>1, <2>2
<1> QED BY <1>2, <1>3, <1>4, PTL DEF Spec

----------------------------------------------------------------------------
(* One continuation. *)

\* The continuation that settles p is on the stack.
Runs(run, p) == run.kind \in {"then", "async"} /\ run.to = p

\* Promise p, of which s was asked, in host h while run runs; the results of the
\* combinators are res.
ContOK(h, run, s, res, p) ==
  /\ Once(h, 0, p) /\ ~(Out(h, 0, p) /\ Runs(run, p))
  /\ Out(h, 0, p) \/ Runs(run, p) => s = <<>> /\ ~h.promises[p].exposed /\ p \notin res
  /\ s = <<>> /\ ~h.promises[p].exposed /\ p \notin res => Out(h, 0, p) \/ Runs(run, p)
  /\ Out(h, 3, p) => p \notin res /\ (s # <<>> \/ h.promises[p].exposed)
  /\ h.promises[p].exposed => p \notin res

Cont ==
  /\ \A p \in Made(host) : ContOK(host, running, calls[p], ResultIds, p)
  /\ running.kind = "thenable" => host.promises[running.to].exposed

(* A step that is not about p. *)
ContSame(h, g, p) ==
  /\ g.promises[p].exposed = h.promises[p].exposed
  /\ Out(g, 0, p) <=> Out(h, 0, p)
  /\ Once(h, 0, p) => Once(g, 0, p)
  /\ Out(g, 3, p) => Out(h, 3, p)

LEMMA ContKept ==
  ASSUME NEW h, NEW run, NEW s, NEW res, NEW p, ContOK(h, run, s, res, p),
         NEW g, NEW ran, ContSame(h, g, p), Runs(ran, p) <=> Runs(run, p)
  PROVE  ContOK(g, ran, s, res, p)
BY DEF ContOK, ContSame

LEMMA SameContSame ==
  ASSUME NEW h, NEW g, NEW S, Alike(h, g, S), NEW p \in Made(h), p \in Nat, Stays(h, g) \/ \A k, t : SameOut(h, g, k, t)
  PROVE  ContSame(h, g, p)
<1>1. 0 \in 0 .. 2
  OBVIOUS
<1> QED BY <1>1 DEF ContSame, Alike, Stays, SameOut

LEMMA ContinuedContSame ==
  ASSUME NEW h, NEW g, NEW S, Alike(h, g, S), NEW p \in Made(h), p \in Nat, NEW q, Continued(h, g, q), p # q
  PROVE  ContSame(h, g, p)
<1>1. 0 \in Nat /\ 3 \in Nat
  OBVIOUS
<1> QED BY <1>1 DEF ContSame, Alike, Continued, AwaitOut

LEMMA LeftContSame ==
  ASSUME NEW h, NEW g, NEW S, Alike(h, g, S), NEW p \in Made(h), NEW job, Left(h, g, job), ~Holds(job, 0, p)
  PROVE  ContSame(h, g, p)
BY DEF ContSame, Alike, Left, PoppedOut

(* The history of calls. *)
LEMMA AskedFields ==
  ASSUME NEW cs, NEW m \in Nat, CallsOK(cs, m), NEW p \in 1 .. m, NEW x \in Resolution
  PROVE  /\ Asked(cs, p, x)[p] # <<>>
         /\ \A q \in 1 .. m : q # p => Asked(cs, p, x)[q] = cs[q]
<1>1. cs \in Seq(Seq(Resolution)) /\ DOMAIN cs = 1 .. m /\ cs[p] \in Seq(Resolution)
  BY LenProperties DEF CallsOK
<1>2. Append(cs[p], x) # <<>>
  <2>1. \A s \in Seq(Resolution) : Append(s, x) # <<>>
    BY AppendProperties, EmptySeq
  <2> QED BY <1>1, <2>1
<1> QED BY <1>1, <1>2 DEF Asked

LEMMA AppendedFields ==
  ASSUME NEW cs, NEW m \in Nat, CallsOK(cs, m), NEW s \in Seq(Resolution)
  PROVE  /\ Append(cs, s)[m + 1] = s
         /\ \A q \in 1 .. m : Append(cs, s)[q] = cs[q]
BY AppendProperties DEF CallsOK

LEMMA AwaitFields ==
  ASSUME NEW cs, NEW m \in Nat, CallsOK(cs, m), NEW x, x \in Resolution \/ x.is = "promise"
  PROVE  /\ \A q \in 1 .. m : AwaitCalls(cs, x)[q] = cs[q]
         /\ x.is # "promise" => AwaitCalls(cs, x)[m + 1] # <<>>
<1>1. CASE x.is = "promise"
  BY <1>1 DEF AwaitCalls
<1>2. CASE x.is # "promise"
  <2> DEFINE y == <<x>>
  <2>1. y \in Seq(Resolution) /\ y # <<>>
    BY <1>2
  <2>2. AwaitCalls(cs, x) = Append(cs, y)
    BY <1>2 DEF AwaitCalls
  <2> HIDE DEF y
  <2>3. Append(cs, y)[m + 1] = y /\ \A q \in 1 .. m : Append(cs, y)[q] = cs[q]
    BY <2>1, AppendedFields
  <2> QED BY <2>1, <2>2, <2>3
<1> QED BY <1>1, <1>2

LEMMA ResultsMade ==
  ASSUME Shape
  PROVE  ResultIds \subseteq Made(host)
BY ShapeFields DEF ResultIds, HostInv, CombinatorOK

(* The program's steps. *)
LEMMA ContNewPromise ==
  ASSUME Shape, Cont, NewPromise
  PROVE  Cont'
<1> DEFINE m == Newest(host)
           q == m + 1
<1>1. /\ Does({}) /\ Newest(host') = q /\ host'.promises[q].exposed
      /\ \A k, t : SameOut(host, host', k, t)
  BY DoesNewPromise
<1>2. /\ m \in Nat /\ Made(host) = 1 .. m /\ CallsOK(calls, m) /\ HostOK(host, Items(combinators))
      /\ HostOK(host', Items(combinators)) /\ Alike(host, host', {}) /\ ResultIds \subseteq Made(host) /\ Rest
  BY <1>1, ShapeFields, ResultsMade DEF Does, Effect
<1>3. Made(host') = 1 .. q
  BY <1>1, <1>2, HostFields
<1> HIDE DEF m
<1>4. /\ calls' = Append(calls, <<>>) /\ <<>> \in Seq(Resolution) /\ UNCHANGED <<combinators, running>>
  BY DEF NewPromise
<1>5. /\ \A p \in 1 .. m : calls'[p] = calls[p]
      /\ calls'[q] = <<>>
  BY <1>2, <1>4, AppendedFields
<1>6. ResultIds' = ResultIds
  BY <1>4 DEF ResultIds
<1>7. ASSUME NEW p \in 1 .. m PROVE ContOK(host', running', calls'[p], ResultIds', p)
  <2>1. ContSame(host, host', p)
    BY <1>1, <1>2, SameContSame
  <2> QED BY <1>2, <1>4, <1>5, <1>6, <2>1, ContKept DEF Cont
<1>8. ContOK(host', running', calls'[q], ResultIds', q)
  <2>1. q \notin Made(host) /\ q \notin ResultIds
    BY <1>2
  <2>2. ~Out(host, 0, q) /\ ~Out(host, 3, q)
    BY <1>2, <2>1, OutNames
  <2>3. ~Runs(running, q)
    BY <1>2, <2>1 DEF Runs, Rest
  <2>4. Once(host, 0, q)
    BY <2>2 DEF Once, Out
  <2> QED BY <1>1, <1>4, <1>6, <2>1, <2>2, <2>3, <2>4 DEF ContOK, SameOut
<1>9. \A p \in 1 .. q : p \in 1 .. m \/ p = q
  BY <1>2
<1>10. running'.kind = "thenable" => host'.promises[running'.to].exposed
  BY <1>2, <1>4 DEF Cont, Alike, Rest
<1> QED BY <1>3, <1>7, <1>8, <1>9, <1>10 DEF Cont

LEMMA ContAsks ==
  ASSUME Shape, Cont, NEW p, NEW x, Asks(p, x), UNCHANGED <<combinators>>,
         \/ running' = running /\ host.promises[p].exposed
         \/ running' = Nobody /\ running.to = p /\ running.kind \in {"then", "async", "thenable"}
  PROVE  Cont'
<1>1. /\ Does({p}) /\ Made(host') = Made(host) /\ Newest(host') = Newest(host)
      /\ ResolveOutOK(host, host', p, x) /\ p \in Made(host) /\ x \in Resolution
      /\ calls' = Asked(calls, p, x)
  BY DoesAsks DEF Asks, Resolvable
<1>2. /\ Newest(host) \in Nat /\ Made(host) = 1 .. Newest(host) /\ CallsOK(calls, Newest(host))
      /\ Alike(host, host', {p}) /\ Rest
  BY <1>1, ShapeFields DEF Does, Effect
<1>3. calls'[p] # <<>> /\ \A q \in Made(host) : q # p => calls'[q] = calls[q]
  BY <1>1, <1>2, AskedFields
<1>4. ResultIds' = ResultIds
  BY DEF ResultIds
<1>5. /\ \A q : SameOut(host, host', 0, q) /\ (Out(host', 3, q) => Out(host, 3, q) \/ q = p)
  BY <1>1 DEF ResolveOutOK
<1>6. ASSUME NEW q \in Made(host), q # p PROVE ContOK(host', running', calls'[q], ResultIds', q)
  <2>1. ContSame(host, host', q)
    BY <1>2, <1>5, <1>6 DEF ContSame, Alike, SameOut
  <2>2. Runs(running', q) <=> Runs(running, q)
    BY <1>6 DEF Runs, Nobody
  <2> QED BY <1>3, <1>4, <1>6, <2>1, <2>2, ContKept DEF Cont
<1>7. ContOK(host', running', calls'[p], ResultIds', p)
  <2>1. ContOK(host, running, calls[p], ResultIds, p)
    BY <1>1 DEF Cont
  <2>2. host'.promises[p].exposed = host.promises[p].exposed
    BY <1>1, <1>2 DEF Alike
  <2>3. host.promises[p].exposed \/ Runs(running, p)
    BY DEF Cont, Runs
  <2>4. ~Out(host, 0, p) /\ p \notin ResultIds
    BY <2>1, <2>3 DEF ContOK
  <2>5. ~Runs(running', p)
    <3>1. CASE running' = running /\ host.promises[p].exposed
      BY <2>1, <3>1 DEF ContOK
    <3>2. CASE running' = Nobody
      BY <3>2 DEF Runs, Nobody
    <3> QED BY <3>1, <3>2
  <2> QED BY <1>3, <1>4, <1>5, <2>1, <2>2, <2>4, <2>5 DEF ContOK, SameOut
<1>8. running'.kind = "thenable" => host'.promises[running'.to].exposed
  BY <1>2 DEF Cont, Alike, Rest, Nobody
<1> QED BY <1>1, <1>6, <1>7, <1>8 DEF Cont

(* A promise that did not exist has no continuation and is no result. *)
LEMMA Unmade ==
  ASSUME Shape, NEW q, q \notin Made(host)
  PROVE  /\ \A k \in {0, 3} : ~Out(host, k, q) /\ Once(host, k, q)
         /\ ~Runs(running, q) /\ q \notin ResultIds
<1>1. HostOK(host, Items(combinators)) /\ Rest
  BY ShapeFields
<1>2. ASSUME NEW k \in {0, 3} PROVE ~Out(host, k, q) /\ Once(host, k, q)
  <2>1. k \notin 1 .. 2
    OBVIOUS
  <2>2. ~Out(host, k, q)
    BY <1>1, <2>1, OutNames
  <2> QED BY <2>2 DEF Once, Out
<1>3. ~Runs(running, q)
  BY <1>1 DEF Runs, Rest
<1> QED BY <1>2, <1>3, ResultsMade

(* A new promise waits for its continuation. *)
LEMMA ContFresh ==
  ASSUME Shape, NEW q \in Nat, q \notin Made(host), Fresh(host', q), Continued(host, host', q),
         UNCHANGED <<combinators, running>>, calls'[q] = <<>>
  PROVE  ContOK(host', running', calls'[q], ResultIds', q)
<1>1. ~Out(host, 0, q) /\ Once(host, 0, q) /\ ~Out(host, 3, q) /\ ~Runs(running, q) /\ q \notin ResultIds
  BY Unmade
<1>2. ResultIds' = ResultIds
  BY DEF ResultIds
<1>3. 0 \in Nat /\ 3 \in Nat
  OBVIOUS
<1>4. /\ Out(host', 0, q) /\ Once(host', 0, q) /\ ~Out(host', 3, q)
  BY <1>1, <1>3 DEF Continued, AwaitOut
<1> QED BY <1>1, <1>2, <1>4 DEF ContOK, Fresh

(* One of which something was asked does not. *)
LEMMA ContSettled ==
  ASSUME Shape, NEW q \in Nat, q \notin Made(host), host'.promises[q].exposed = FALSE,
         NEW r \in Nat, r # q, Continued(host, host', r), UNCHANGED combinators, ~Runs(running', q), calls'[q] # <<>>
  PROVE  ContOK(host', running', calls'[q], ResultIds', q)
<1>1. ~Out(host, 0, q) /\ Once(host, 0, q) /\ ~Out(host, 3, q) /\ q \notin ResultIds
  BY Unmade
<1>2. ResultIds' = ResultIds
  BY DEF ResultIds
<1>3. 0 \in Nat /\ 3 \in Nat
  OBVIOUS
<1>4. /\ ~Out(host', 0, q) /\ Once(host', 0, q) /\ ~Out(host', 3, q)
  BY <1>1, <1>3 DEF Continued, AwaitOut
<1> QED BY <1>1, <1>2, <1>4 DEF ContOK

LEMMA ContOthers ==
  ASSUME Shape, Cont, NEW S, Alike(host, host', S), NEW q, Continued(host, host', q), UNCHANGED combinators,
         NEW p \in Made(host), p # q, calls'[p] = calls[p], Runs(running', p) <=> Runs(running, p)
  PROVE  ContOK(host', running', calls'[p], ResultIds', p)
<1>1. ContSame(host, host', p)
  BY ShapeFields, ContinuedContSame
<1>2. ResultIds' = ResultIds
  BY DEF ResultIds
<1> QED BY <1>1, <1>2, ContKept DEF Cont

LEMMA ContPromiseThen ==
  ASSUME Shape, Cont, NEW p \in Ids, NEW f \in BOOLEAN, NEW r \in BOOLEAN, PromiseThen(p, f, r)
  PROVE  Cont'
<1> DEFINE m == Newest(host)
           q == m + 1
<1>1. Does({}) /\ Newest(host') = q /\ Fresh(host', q) /\ Continued(host, host', q)
  BY DoesThen
<1>2. /\ m \in Nat /\ Made(host) = 1 .. m /\ CallsOK(calls, m) /\ HostOK(host', Items(combinators))
      /\ Alike(host, host', {}) /\ Rest
  BY <1>1, ShapeFields DEF Does, Effect
<1>3. Made(host') = 1 .. q
  BY <1>1, <1>2, HostFields
<1> HIDE DEF m
<1>4. calls' = Append(calls, <<>>) /\ <<>> \in Seq(Resolution) /\ UNCHANGED <<combinators, running>>
  BY DEF PromiseThen
<1>5. (\A i \in 1 .. m : calls'[i] = calls[i]) /\ calls'[q] = <<>>
  BY <1>2, <1>4, AppendedFields
<1>6. q \in Nat /\ q \notin Made(host) /\ \A i \in 1 .. q : i \in 1 .. m \/ i = q
  BY <1>2
<1>7. ContOK(host', running', calls'[q], ResultIds', q)
  BY <1>1, <1>4, <1>5, <1>6, ContFresh
<1>8. \A i \in Made(host) : ContOK(host', running', calls'[i], ResultIds', i)
  BY <1>1, <1>2, <1>4, <1>5, <1>6, ContOthers
<1>9. running'.kind = "thenable" => host'.promises[running'.to].exposed
  BY <1>2, <1>4 DEF Cont, Alike, Rest
<1> QED BY <1>2, <1>3, <1>6, <1>7, <1>8, <1>9 DEF Cont

LEMMA ContCallAsync ==
  ASSUME Shape, Cont, NEW x \in Awaitable, CallAsync(x)
  PROVE  Cont'
<1> DEFINE m == Newest(host)
           q == m + 1
<1>1. /\ Does({}) /\ Newest(host') = q + AwaitRoom(x) /\ AwaitedValue(host', x)
      /\ Fresh(host', q) /\ Continued(host, host', q)
  BY DoesAsync
<1>2. /\ m \in Nat /\ Made(host) = 1 .. m /\ CallsOK(calls, m) /\ HostOK(host', Items(combinators))
      /\ Alike(host, host', {}) /\ Rest /\ Awaited(host, x) /\ (x \in Resolution \/ x.is = "promise")
  BY <1>1, ShapeFields, AwaitableOK DEF Does, Effect
<1>3. Made(host') = 1 .. q + AwaitRoom(x)
  BY <1>1, <1>2, HostFields
<1> HIDE DEF m
<1>4. calls' = AwaitCalls(Append(calls, <<>>), x) /\ <<>> \in Seq(Resolution) /\ UNCHANGED <<combinators, running>>
  BY DEF CallAsync
<1>5. /\ \A i \in 1 .. m : calls'[i] = calls[i]
      /\ calls'[q] = <<>>
      /\ x.is # "promise" => calls'[q + 1] # <<>>
  <2> DEFINE cs == Append(calls, <<>>)
  <2>1. CallsOK(cs, q) /\ cs[q] = <<>> /\ \A i \in 1 .. m : cs[i] = calls[i]
    BY <1>2, <1>4, AppendedFields, CallsNew
  <2>2. q \in Nat /\ q \in 1 .. q /\ \A i \in 1 .. m : i \in 1 .. q
    BY <1>2
  <2>3. calls' = AwaitCalls(cs, x)
    BY <1>4
  <2> HIDE DEF cs, q
  <2>4. /\ \A i \in 1 .. q : AwaitCalls(cs, x)[i] = cs[i]
        /\ x.is # "promise" => AwaitCalls(cs, x)[q + 1] # <<>>
    BY <1>2, <2>1, <2>2, AwaitFields
  <2> QED BY <2>1, <2>2, <2>3, <2>4
<1>6. q \in Nat /\ q \notin Made(host) /\ q + 1 \in Nat /\ q + 1 \notin Made(host) /\ q + 1 # q
  BY <1>2
<1>7. ContOK(host', running', calls'[q], ResultIds', q)
  BY <1>1, <1>4, <1>5, <1>6, ContFresh
<1>8. \A i \in Made(host) : ContOK(host', running', calls'[i], ResultIds', i)
  BY <1>1, <1>2, <1>4, <1>5, <1>6, ContOthers
<1>9. running'.kind = "thenable" => host'.promises[running'.to].exposed
  BY <1>2, <1>4 DEF Cont, Alike, Rest
<1>10. ASSUME x.is # "promise" PROVE ContOK(host', running', calls'[q + 1], ResultIds', q + 1)
  <2>1. host'.promises[q + 1].exposed = FALSE
    BY <1>1, <1>2, <1>10 DEF AwaitedValue, Awaited, AwaitRoom
  <2>2. ~Runs(running, q + 1)
    BY <1>6, Unmade
  <2>3. ~Runs(running', q + 1)
    BY <1>4, <2>2
  <2> QED BY <1>1, <1>4, <1>5, <1>6, <1>10, <2>1, <2>3, ContSettled
<1>11. \A i \in Made(host') : i \in Made(host) \/ i = q \/ (x.is # "promise" /\ i = q + 1)
  <2>1. CASE x.is = "promise"
    BY <1>2, <1>3, <2>1 DEF AwaitRoom
  <2>2. CASE x.is # "promise"
    BY <1>2, <1>3, <2>2 DEF AwaitRoom
  <2> QED BY <2>1, <2>2
<1> QED BY <1>7, <1>8, <1>9, <1>10, <1>11 DEF Cont

LEMMA ContAwaitAgain ==
  ASSUME Shape, Cont, NEW x \in Awaitable, AwaitAgain(x)
  PROVE  Cont'
<1> DEFINE m == Newest(host)
           q == running.to
<1>1. /\ Does({}) /\ Newest(host') = m + AwaitRoom(x) /\ AwaitedValue(host', x)
      /\ Continued(host, host', q)
  BY DoesAwaitAgain
<1>2. /\ m \in Nat /\ Made(host) = 1 .. m /\ CallsOK(calls, m) /\ HostOK(host', Items(combinators))
      /\ Alike(host, host', {}) /\ Rest /\ Awaited(host, x) /\ (x \in Resolution \/ x.is = "promise")
  BY <1>1, ShapeFields, AwaitableOK DEF Does, Effect
<1>3. Made(host') = 1 .. m + AwaitRoom(x)
  BY <1>1, <1>2, HostFields
<1> HIDE DEF m
<1>4. /\ calls' = AwaitCalls(calls, x) /\ UNCHANGED combinators
      /\ running' = Nobody /\ running.kind = "async" /\ q \in Made(host)
  BY <1>2 DEF AwaitAgain, Rest
<1>5. /\ \A i \in 1 .. m : calls'[i] = calls[i]
      /\ x.is # "promise" => calls'[m + 1] # <<>>
  BY <1>2, <1>4, AwaitFields
<1>6. m + 1 \in Nat /\ m + 1 \notin Made(host) /\ q \in Nat /\ m + 1 # q
  BY <1>2, <1>4
<1>7. \A i : ~Runs(running', i)
  BY <1>4 DEF Runs, Nobody
<1>8. ASSUME NEW i \in Made(host), i # q PROVE ContOK(host', running', calls'[i], ResultIds', i)
  <2>1. ~Runs(running, i)
    BY <1>8 DEF Runs
  <2> QED BY <1>1, <1>2, <1>4, <1>5, <1>7, <1>8, <2>1, ContOthers
<1>9. ContOK(host', running', calls'[q], ResultIds', q)
  <2>1. ContOK(host, running, calls[q], ResultIds, q) /\ Runs(running, q)
    BY <1>4 DEF Cont, Runs
  <2>2. 0 \in Nat /\ 3 \in Nat /\ ResultIds' = ResultIds
    BY <1>4 DEF ResultIds
  <2>3. Out(host', 0, q) /\ Once(host', 0, q) /\ (Out(host', 3, q) => Out(host, 3, q))
    BY <1>1, <1>6, <2>1, <2>2 DEF Continued, AwaitOut, ContOK
  <2>4. host'.promises[q].exposed = host.promises[q].exposed /\ calls'[q] = calls[q]
    BY <1>2, <1>4, <1>5 DEF Alike
  <2> QED BY <1>7, <2>1, <2>2, <2>3, <2>4 DEF ContOK
<1>10. ASSUME x.is # "promise" PROVE ContOK(host', running', calls'[m + 1], ResultIds', m + 1)
  <2>1. host'.promises[m + 1].exposed = FALSE
    BY <1>1, <1>2, <1>10 DEF AwaitedValue, Awaited, AwaitRoom
  <2> QED BY <1>1, <1>4, <1>5, <1>6, <1>7, <1>10, <2>1, ContSettled
<1>11. \A i \in Made(host') : i \in Made(host) \/ (x.is # "promise" /\ i = m + 1)
  <2>1. CASE x.is = "promise"
    BY <1>2, <1>3, <2>1 DEF AwaitRoom
  <2>2. CASE x.is # "promise"
    BY <1>2, <1>3, <2>2 DEF AwaitRoom
  <2> QED BY <2>1, <2>2
<1>12. running'.kind = "thenable" => host'.promises[running'.to].exposed
  BY <1>4 DEF Nobody
<1> QED BY <1>8, <1>9, <1>10, <1>11, <1>12 DEF Cont

LEMMA ContCombine ==
  ASSUME Shape, Cont, NEW mode \in Mode, NEW p \in Ids, NEW r \in Ids, Combine(mode, <<p, r>>)
  PROVE  Cont'
<1> DEFINE m == Newest(host)
           q == m + 1
           t == Len(combinators) + 1
           c == NewCombinator(mode, q, <<p, r>>)
<1>1. /\ Effect(host, host', Items(combinators'), {}) /\ Newest(host') = q
      /\ Fresh(host', q) /\ Combined(host, host', t)
      /\ Joined(combinators, combinators', t, c)
  BY DoesCombine
<1>2. /\ m \in Nat /\ Made(host) = 1 .. m /\ CallsOK(calls, m) /\ Alike(host, host', {}) /\ Rest
  BY <1>1, ShapeFields DEF Effect
<1>3. Made(host') = 1 .. q
  BY <1>1, <1>2, HostFields DEF Effect
<1>4. c.result = q
  BY DEF NewCombinator
<1> HIDE DEF c
<1>5. ResultIds' = ResultIds \cup {q}
  BY <1>1, <1>4 DEF ResultIds, Joined
<1> HIDE DEF m, t
<1>6. calls' = Append(calls, <<>>) /\ <<>> \in Seq(Resolution) /\ running' = running
  BY DEF Combine
<1>7. \A i \in 1 .. m : calls'[i] = calls[i]
  BY <1>2, <1>6, AppendedFields
<1>8. \A i \in Nat : SameOut(host, host', 0, i) /\ SameOut(host, host', 3, i)
  <2>1. ASSUME NEW i \in Nat, NEW k \in Nat, k \notin 1 .. 2 PROVE SameOut(host, host', k, i)
    <3>1. Combined(host, host', t)
      BY <1>1
    <3> QED BY ONLY <2>1, <3>1 DEF Combined, SameOut
  <2>2. 0 \in Nat /\ 3 \in Nat /\ 0 \notin 1 .. 2 /\ 3 \notin 1 .. 2
    OBVIOUS
  <2> QED BY <2>1, <2>2
<1>9. ASSUME NEW i \in Made(host) PROVE ContOK(host', running', calls'[i], ResultIds', i)
  <2>1. i \in Nat /\ i # q /\ calls'[i] = calls[i]
    BY <1>2, <1>7
  <2>2. ContSame(host, host', i)
    <3>1. host'.promises[i].exposed = host.promises[i].exposed
      BY ONLY <1>2, <1>9 DEF Alike
    <3> QED BY ONLY <1>8, <2>1, <3>1 DEF ContSame, SameOut
  <2>3. ContOK(host', running', calls'[i], ResultIds, i)
    BY <1>6, <2>1, <2>2, ContKept DEF Cont
  <2>4. i \in ResultIds' <=> i \in ResultIds
    BY <1>5, <2>1
  <2> QED BY <2>3, <2>4 DEF ContOK
<1>10. ContOK(host', running', calls'[q], ResultIds', q)
  <2>1. q \notin Made(host) /\ q \in Nat
    BY <1>2
  <2>2. ~Out(host, 0, q) /\ Once(host, 0, q) /\ ~Out(host, 3, q) /\ ~Runs(running, q)
    BY <2>1, Unmade
  <2>3. ~Out(host', 0, q) /\ Once(host', 0, q) /\ ~Out(host', 3, q) /\ ~Runs(running', q)
    BY ONLY <1>6, <1>8, <2>1, <2>2 DEF SameOut
  <2>4. host'.promises[q].exposed = FALSE /\ q \in ResultIds'
    BY <1>1, <1>5 DEF Fresh
  <2> QED BY ONLY <2>3, <2>4 DEF ContOK
<1>11. running'.kind = "thenable" => host'.promises[running'.to].exposed
  BY <1>2, <1>6 DEF Cont, Alike, Rest
<1>12. \A i \in 1 .. q : i \in Made(host) \/ i = q
  BY <1>2
<1> QED BY <1>3, <1>9, <1>10, <1>11, <1>12 DEF Cont

LEMMA ContStays ==
  ASSUME Shape, Cont, NEW S, Alike(host, host', S), Made(host') = Made(host),
         Stays(host, host') \/ \A k, t : SameOut(host, host', k, t),
         UNCHANGED <<combinators, calls>>,
         running' = running \/ (running.kind \notin {"then", "async"} /\ running'.kind \notin {"then", "async", "thenable"})
  PROVE  Cont'
<1>1. Made(host) \subseteq Nat /\ Rest
  BY ShapeFields
<1>2. ResultIds' = ResultIds
  BY DEF ResultIds
<1>3. \A p : Runs(running', p) <=> Runs(running, p)
  BY DEF Runs
<1>4. \A p \in Made(host) : ContOK(host', running', calls'[p], ResultIds', p)
  <2> TAKE p \in Made(host)
  <2>1. ContSame(host, host', p)
    BY <1>1, SameContSame
  <2>2. calls'[p] = calls[p]
    OBVIOUS
  <2> QED BY <1>2, <1>3, <2>1, <2>2, ContKept DEF Cont
<1>5. running'.kind = "thenable" => host'.promises[running'.to].exposed
  BY <1>1 DEF Cont, Rest, Alike
<1> QED BY <1>4, <1>5 DEF Cont

LEMMA ContAside ==
  ASSUME Shape, Cont, UNCHANGED <<host, combinators, calls>>,
         running' = running \/ (running.kind \notin {"then", "async"} /\ running'.kind \notin {"then", "async", "thenable"})
  PROVE  Cont'
<1>1. Alike(host, host', {}) /\ Made(host') = Made(host) /\ \A k, t : SameOut(host, host', k, t)
  <2>1. Newest(host) \in Nat
    BY ShapeFields
  <2> QED BY <2>1 DEF Alike, SameOut
<1> QED BY <1>1, ContStays

LEMMA ContOther ==
  ASSUME Shape, Cont, \/ RunSubscribe \/ RunAdopt \/ TakeRejections \/ Report \/ Return \/ Throw \/ Drained
                      \/ Reported \/ Macrotask \/ UNCHANGED vars
  PROVE  Cont'
<1>1. ASSUME RunSubscribe PROVE Cont'
  BY <1>1, DoesSubscribe, ContStays DEF RunSubscribe, Does, Effect
<1>2. ASSUME RunAdopt PROVE Cont'
  BY <1>2, DoesAdopt, ContStays DEF RunAdopt
<1>3. ASSUME TakeRejections PROVE Cont'
  BY <1>3, DoesTake, ContStays DEF TakeRejections
<1>4. ASSUME Report PROVE Cont'
  <2>1. /\ Alike(host, host', {}) /\ Made(host') = Made(host) /\ \A k, t : SameOut(host, host', k, t)
    BY <1>4, DoesReport DEF Does, Effect
  <2>2. /\ UNCHANGED <<combinators, calls>> /\ running.kind = "nobody"
        /\ running' \in {running, [kind |-> "listener", to |-> 0]}
    BY <1>4 DEF Report, Run, At, InJS
  <2> QED BY <2>1, <2>2, ContStays
<1>5. ASSUME Return PROVE Cont'
  BY <1>5, ContAside DEF Return, Nobody
<1>6. ASSUME Throw PROVE Cont'
  BY <1>6, ContAside DEF Throw, Nobody
<1>7. ASSUME Drained PROVE Cont'
  BY <1>7, ContAside DEF Drained
<1>8. ASSUME Reported PROVE Cont'
  BY <1>8, ContAside DEF Reported
<1>9. ASSUME Macrotask PROVE Cont'
  BY <1>9, ContAside DEF Macrotask, At, InJS, Run
<1>10. ASSUME UNCHANGED vars PROVE Cont'
  BY <1>10, ContAside DEF vars
<1> QED BY <1>1, <1>2, <1>3, <1>4, <1>5, <1>6, <1>7, <1>8, <1>9, <1>10

(* A continuation starts. *)
LEMMA ContStarts ==
  ASSUME Shape, Cont, NEW kind \in {"then", "await"}, Take(kind), host' = Popped, NEW act \in {"then", "async"},
         Run(act, Job.to), UNCHANGED <<combinators, calls>>
  PROVE  Cont'
<1> DEFINE p == Job.to
<1>1. /\ Does({}) /\ Made(host') = Made(host) /\ Left(host, host', Job)
  BY DoesPop
<1>2. /\ running.kind = "nobody" /\ p \in Made(host) /\ Made(host) \subseteq Nat /\ Job.kind = kind
  BY Taken DEF Names
<1>3. running' = [kind |-> act, to |-> p] /\ ResultIds' = ResultIds /\ calls' = calls
  BY DEF Run, ResultIds
<1>4. Holds(Job, 0, p) /\ \A q : q # p => ~Holds(Job, 0, q)
  BY <1>2 DEF Holds
<1>5. ~Holds(Job, 3, p)
  BY <1>2 DEF Holds
<1>6. Alike(host, host', {})
  BY <1>1 DEF Does, Effect
<1> HIDE DEF p
<1>7. ASSUME NEW q \in Made(host), q # p PROVE ContOK(host', running', calls'[q], ResultIds', q)
  <2>1. ContSame(host, host', q)
    BY <1>1, <1>4, <1>6, <1>7, LeftContSame
  <2>2. ~Runs(running, q) /\ ~Runs(running', q)
    BY <1>2, <1>3, <1>7 DEF Runs
  <2> QED BY <1>3, <2>1, <2>2, ContKept DEF Cont
<1>8. ContOK(host', running', calls'[p], ResultIds', p)
  <2>1. ContOK(host, running, calls[p], ResultIds, p) /\ Runs(running', p)
    BY <1>2, <1>3 DEF Cont, Runs
  <2>2. /\ Out(host, 0, p) /\ ~Out(host', 0, p) /\ Once(host', 0, p)
        /\ (Out(host', 3, p) => Out(host, 3, p))
    BY <1>1, <1>4, <2>1 DEF Left, PoppedOut, ContOK
  <2>3. host'.promises[p].exposed = host.promises[p].exposed
    BY <1>2, <1>6 DEF Alike
  <2> QED BY <1>3, <2>1, <2>2, <2>3 DEF ContOK
<1>9. running'.kind # "thenable"
  BY <1>3
<1> QED BY <1>1, <1>7, <1>8, <1>9 DEF Cont

LEMMA ContPassThrough ==
  ASSUME Shape, Cont, PassThrough
  PROVE  Cont'
<1> DEFINE p == Job.to
<1>1. /\ Take("then") /\ p \in Made(host) /\ Resolvable(Passed(Job), Newest(host))
      /\ Passed(Job).is \in {"plain", "reason"} /\ Passed(Job) \in Resolution
      /\ host' = Resolve(Popped, p, Passed(Job)) /\ calls' = Asked(calls, p, Passed(Job))
  BY PassesThrough
<1>2. UNCHANGED <<combinators, running>> /\ p = Job.to
  BY DEF PassThrough
<1> HIDE DEF p
<1>3. Does({p}) /\ Made(host') = Made(host) /\ Newest(host') = Newest(host) /\ Left(host, host', Job)
  BY <1>1, DoesPass
<1>4. /\ running.kind = "nobody" /\ Newest(host) \in Nat /\ Made(host) = 1 .. Newest(host)
      /\ CallsOK(calls, Newest(host)) /\ Job.kind = "then"
  BY <1>1, Taken
<1>5. calls'[p] # <<>> /\ \A q \in Made(host) : q # p => calls'[q] = calls[q]
  BY <1>1, <1>4, AskedFields
<1>6. Holds(Job, 0, p) /\ \A q : q # p => ~Holds(Job, 0, q)
  BY <1>2, <1>4 DEF Holds
<1>7. Alike(host, host', {p}) /\ ResultIds' = ResultIds /\ \A q : ~Runs(running, q)
  BY <1>2, <1>3, <1>4 DEF Does, Effect, ResultIds, Runs
<1>8. ASSUME NEW q \in Made(host), q # p PROVE ContOK(host', running', calls'[q], ResultIds', q)
  <2>1. ContSame(host, host', q)
    BY <1>3, <1>6, <1>7, <1>8, LeftContSame
  <2> QED BY <1>2, <1>5, <1>7, <1>8, <2>1, ContKept DEF Cont
<1>9. ContOK(host', running', calls'[p], ResultIds', p)
  <2>1. ContOK(host, running, calls[p], ResultIds, p)
    BY <1>1 DEF Cont
  <2>2. /\ Out(host, 0, p) /\ ~Out(host', 0, p) /\ Once(host', 0, p)
        /\ (Out(host', 3, p) => Out(host, 3, p))
    BY <1>3, <1>6, <2>1 DEF Left, PoppedOut, ContOK
  <2>3. host'.promises[p].exposed = host.promises[p].exposed
    BY <1>1, <1>7 DEF Alike
  <2> QED BY <1>2, <1>5, <1>7, <2>1, <2>2, <2>3 DEF ContOK
<1> QED BY <1>2, <1>3, <1>4, <1>8, <1>9 DEF Cont

LEMMA ContThenable ==
  ASSUME Shape, Cont, RunThenable
  PROVE  Cont'
<1> DEFINE p == Job.to
<1>1. /\ Made(host') = Made(host) /\ p \in Made(host) /\ Exposed(host, host', p) /\ Stays(host, host')
  BY DoesExpose
<1>2. /\ Take("thenable") /\ calls' = [calls EXCEPT ![p] = <<>>] /\ running' = [kind |-> "thenable", to |-> p]
      /\ UNCHANGED combinators /\ p = Job.to
  BY DEF RunThenable, Run
<1> HIDE DEF p
<1>3. /\ running.kind = "nobody" /\ Newest(host) \in Nat /\ Made(host) = 1 .. Newest(host)
      /\ CallsOK(calls, Newest(host)) /\ Job.kind = "thenable" /\ HostOK(host, Items(combinators))
      /\ host.microtasks # <<>> /\ Job = Head(host.microtasks)
  BY <1>2, Taken
<1>4. \A q \in Made(host) : q # p => calls'[q] = calls[q]
  BY <1>2, <1>3 DEF CallsOK
<1>5. ResultIds' = ResultIds /\ \A q : ~Runs(running, q) /\ ~Runs(running', q)
  BY <1>2, <1>3 DEF ResultIds, Runs
<1>6. Out(host, 3, p)
  <2> DEFINE j == Job
             b == Pop(host)
  <2>1. Front(host, b, j) /\ j = Job
    BY <1>3 DEF Front
  <2> HIDE DEF j, b
  <2>2. Left(host, b, j)
    BY ONLY <1>3, <2>1, Pops
  <2> QED BY <1>2, <1>3, <2>1, <2>2 DEF Left, PoppedOut, Holds
<1>7. \A q \in Made(host) : host'.promises[q].exposed = (q = p \/ host.promises[q].exposed)
  BY <1>1 DEF Exposed
<1>8. \A q \in Made(host) : SameOut(host, host', 0, q) /\ (Out(host', 3, q) => Out(host, 3, q))
  <2>1. 0 \in 0 .. 2 /\ Made(host) \subseteq Nat
    BY <1>3
  <2> QED BY <1>1, <2>1 DEF Stays
<1>9. ASSUME NEW q \in Made(host), q # p PROVE ContOK(host', running', calls'[q], ResultIds', q)
  <2>1. host.promises[q].exposed \in BOOLEAN
    BY <1>3, HostFields DEF Cell
  <2>2. ContSame(host, host', q)
    <3>1. host'.promises[q].exposed = host.promises[q].exposed
      BY <1>7, <1>9, <2>1
    <3> QED BY <1>8, <3>1 DEF ContSame, SameOut
  <2> QED BY <1>4, <1>5, <1>9, <2>2, ContKept DEF Cont
<1>10. ContOK(host', running', calls'[p], ResultIds', p)
  <2>1. ContOK(host, running, calls[p], ResultIds, p)
    BY <1>1 DEF Cont
  <2>2. p \notin ResultIds /\ ~Out(host, 0, p) /\ Once(host, 0, p)
    BY <1>6, <2>1 DEF ContOK
  <2>3. ~Out(host', 0, p) /\ Once(host', 0, p)
    BY <1>1, <1>8, <2>2 DEF SameOut
  <2>4. host'.promises[p].exposed
    BY <1>1, <1>7
  <2> QED BY <1>5, <2>2, <2>3, <2>4 DEF ContOK
<1>11. host'.promises[running'.to].exposed
  BY <1>1, <1>2, <1>7
<1> QED BY <1>1, <1>9, <1>10, <1>11 DEF Cont

(* A combinator keeps its result. *)
LEMMA ElementResults ==
  ASSUME Shape, RunElement
  PROVE  ResultIds' = ResultIds
<1>1. Job.to \in DOMAIN combinators /\ combinators[Job.to] \in Combinator
  BY ElementTaken
<1>2. CASE UNCHANGED combinators
  BY <1>2 DEF ResultIds
<1>3. CASE combinators' = [combinators EXCEPT ![Job.to] = Fill(combinators[Job.to], Job)]
  <2>1. Fill(combinators[Job.to], Job).result = combinators[Job.to].result
    BY <1>1 DEF Fill, Combinator
  <2>2. DOMAIN combinators' = DOMAIN combinators
    BY <1>3
  <2>3. \A t \in DOMAIN combinators : combinators'[t].result = combinators[t].result
    BY <1>1, <1>3, <2>1
  <2> QED BY <2>2, <2>3 DEF ResultIds
<1> QED BY <1>2, <1>3, ElementSteps

LEMMA ContElement ==
  ASSUME Shape, Cont, RunElement
  PROVE  Cont'
<1> DEFINE p == combinators[Job.to].result
<1>1. /\ Made(host') = Made(host) /\ Left(host, host', Job) /\ Alike(host, host', {p})
  BY ElementDoes DEF DoesElement
<1>2. /\ Take("element") /\ Job.to \in DOMAIN combinators /\ p \in Made(host)
      /\ combinators[Job.to] \in Combinator /\ Job \in Reaction
  BY ElementTaken
<1>3. /\ running.kind = "nobody" /\ Newest(host) \in Nat /\ Made(host) = 1 .. Newest(host)
      /\ CallsOK(calls, Newest(host)) /\ Job.kind = "element"
  BY <1>2, Taken
<1>4. ResultIds' = ResultIds
  BY ElementResults
<1>5. p \in ResultIds /\ running' = running
  BY <1>2 DEF ResultIds, RunElement
<1>6. \A q \in Made(host) : q # p => calls'[q] = calls[q]
  <2> DEFINE x == Passed(Job)
             y == Last(combinators[Job.to], Passed(Job))
  <2>1. x \in Resolution
    BY <1>2, PassedOK
  <2>2. combinators[Job.to].mode # "race" => y \in Resolution
    BY <1>2, LastOK
  <2>3. \/ calls' = Asked(calls, p, x)
        \/ combinators[Job.to].mode # "race" /\ calls' = Asked(calls, p, y)
        \/ calls' = calls
    BY ElementSteps
  <2> HIDE DEF x, y, p
  <2> QED BY <1>2, <1>3, <2>1, <2>2, <2>3, AskedFields
<1> HIDE DEF p
<1>7. \A q \in Made(host) : ContSame(host, host', q)
  <2> TAKE q \in Made(host)
  <2>1. ~Holds(Job, 0, q)
    BY <1>3 DEF Holds
  <2> QED BY <1>1, <2>1, LeftContSame
<1>8. ASSUME NEW q \in Made(host), q # p PROVE ContOK(host', running', calls'[q], ResultIds', q)
  BY <1>4, <1>5, <1>6, <1>7, <1>8, ContKept DEF Cont
<1>9. ContOK(host', running', calls'[p], ResultIds', p)
  <2>1. ContOK(host', running', calls[p], ResultIds', p)
    BY <1>2, <1>4, <1>5, <1>7, ContKept DEF Cont
  <2> QED BY <1>4, <1>5, <2>1 DEF ContOK
<1> QED BY <1>1, <1>3, <1>5, <1>8, <1>9 DEF Cont

LEMMA ContInit ==
  ASSUME Init
  PROVE  Cont
<1>1. Made(host) = {} /\ running.kind = "main"
  BY DEF Init, Made
<1> QED BY <1>1 DEF Cont

LEMMA ContNext ==
  ASSUME Shape, Cont, [Next]_vars
  PROVE  Cont'
<1>1. ASSUME JS PROVE Cont'
  <2>1. ASSUME NEW p \in Ids, NEW x \in Resolutions(p), CallResolver(p, x) PROVE Cont'
    <3>1. Asks(p, x)
      BY <2>1, CallResolverAsks
    <3>2. UNCHANGED <<combinators>> /\ running' = running /\ host.promises[p].exposed
      BY <2>1 DEF CallResolver
    <3> QED BY <3>1, <3>2, ContAsks
  <2>2. ASSUME NEW x \in Resolutions(running.to), FinishJob(x) PROVE Cont'
    <3>1. Asks(running.to, x)
      BY <2>2, FinishJobAsks
    <3>2. UNCHANGED <<combinators>> /\ running' = Nobody /\ running.kind \in {"then", "async", "thenable"}
      BY <2>2 DEF FinishJob
    <3> QED BY <3>1, <3>2, ContAsks
  <2>3. ASSUME NEW v \in Value, ThenableThrows(v) PROVE Cont'
    <3>1. Asks(running.to, Reason(v))
      BY <2>3, ThenableThrowsAsks
    <3>2. UNCHANGED <<combinators>> /\ running' = Nobody /\ running.kind \in {"then", "async", "thenable"}
      BY <2>3 DEF ThenableThrows
    <3> QED BY <3>1, <3>2, ContAsks
  <2>4. ASSUME NEW p \in Ids, NEW f \in BOOLEAN, NEW r \in BOOLEAN, PromiseThen(p, f, r) PROVE Cont'
    BY <2>4, ContPromiseThen
  <2>5. ASSUME NEW x \in Awaitable, CallAsync(x) \/ AwaitAgain(x) PROVE Cont'
    BY <2>5, ContCallAsync, ContAwaitAgain
  <2>6. ASSUME NEW m \in Mode, NEW p \in Ids, NEW q \in Ids, Combine(m, <<p, q>>) PROVE Cont'
    BY <2>6, ContCombine
  <2> QED BY <1>1, <2>1, <2>2, <2>3, <2>4, <2>5, <2>6, ContNewPromise, ContOther DEF JS
<1>2. ASSUME Loop PROVE Cont'
  <2>1. ASSUME RunHandler PROVE Cont'
    <3>1. Take("then") /\ host' = Popped /\ Run("then", Job.to) /\ UNCHANGED <<combinators, calls>>
      BY <2>1 DEF RunHandler
    <3> QED BY <3>1, ContStarts
  <2>2. ASSUME RunAwait PROVE Cont'
    <3>1. Take("await") /\ host' = Popped /\ Run("async", Job.to) /\ UNCHANGED <<combinators, calls>>
      BY <2>2 DEF RunAwait
    <3> QED BY <3>1, ContStarts
  <2> QED BY <1>2, <2>1, <2>2, ContThenable, ContPassThrough, ContElement, ContOther DEF Loop
<1>3. ASSUME UNCHANGED vars PROVE Cont'
  BY <1>3, ContOther
<1> QED BY <1>1, <1>2, <1>3 DEF Next

LEMMA ContAlways == Spec => [](Shape /\ Cont)
<1>1. Init => Shape /\ Cont
  BY ShapeInit, ContInit
<1>2. Shape /\ Cont /\ [Next]_vars => Shape' /\ Cont'
  BY ShapeNext, ContNext
<1> QED BY <1>1, <1>2, PTL DEF Spec

(* The places of a continuation, counted. *)
LEMMA SettlingHolds ==
  ASSUME NEW rs, NEW p
  PROVE  Settling(rs, p) = {i \in DOMAIN rs : Holds(rs[i], 0, p)}
BY DEF Settling, Holds

\* A continuation of p waits on promise a at i.
LEMMA AwaitingMember ==
  ASSUME Shape, NEW p
  PROVE  \A e : e \in Awaiting(p) <=>
           \E a \in Made(host) : \E i \in DOMAIN Line(host, a) : Holds(Line(host, a)[i], 0, p) /\ e = <<a, i>>
<1> DEFINE Part(a) == {a} \X Settling(Cells[a].reactions, p)
<1>1. Made(host) \subseteq Nat /\ 0 \notin Made(host) /\ Ids = Made(host)
  BY ShapeFields
<1>2. \A a \in Made(host) : Cells[a].reactions = Line(host, a)
  BY <1>1 DEF Cells, Line
<1>3. \A e : e \in Awaiting(p) <=> \E a \in Made(host) : e \in Part(a)
  BY <1>1 DEF Awaiting
<1>4. ASSUME NEW a \in Made(host), NEW e
      PROVE  e \in Part(a) <=> \E i \in DOMAIN Line(host, a) : Holds(Line(host, a)[i], 0, p) /\ e = <<a, i>>
  <2>1. Settling(Cells[a].reactions, p) = {i \in DOMAIN Line(host, a) : Holds(Line(host, a)[i], 0, p)}
    BY <1>2, SettlingHolds
  <2> QED BY <2>1
<1> QED BY <1>3, <1>4

LEMMA ContCounted ==
  ASSUME Shape, NEW p
  PROVE  /\ ~Out(host, 0, p) => Cardinality(Awaiting(p)) = 0 /\ Cardinality(Scheduled(p)) = 0
         /\ Out(host, 0, p) /\ Once(host, 0, p) =>
              \/ Cardinality(Awaiting(p)) = 1 /\ Cardinality(Scheduled(p)) = 0
              \/ Cardinality(Awaiting(p)) = 0 /\ Cardinality(Scheduled(p)) = 1
<1>1. /\ Scheduled(p) = {i \in DOMAIN Line(host, 0) : Holds(Line(host, 0)[i], 0, p)}
      /\ Lines(host) = {0} \cup Made(host) /\ 0 \notin Made(host)
  BY ShapeFields, SettlingHolds DEF Scheduled, Line, Lines, Made
<1>2. \A e : e \in Awaiting(p) <=>
           \E a \in Made(host) : \E i \in DOMAIN Line(host, a) : Holds(Line(host, a)[i], 0, p) /\ e = <<a, i>>
  BY AwaitingMember
<1>3. ASSUME ~Out(host, 0, p) PROVE Cardinality(Awaiting(p)) = 0 /\ Cardinality(Scheduled(p)) = 0
  <2>1. Awaiting(p) = {} /\ Scheduled(p) = {}
    BY <1>1, <1>2, <1>3 DEF Out
  <2> QED BY <2>1, FS_EmptySet
<1>4. ASSUME Once(host, 0, p), NEW a \in Lines(host), NEW i \in DOMAIN Line(host, a), Holds(Line(host, a)[i], 0, p)
      PROVE  \/ Cardinality(Awaiting(p)) = 1 /\ Cardinality(Scheduled(p)) = 0
             \/ Cardinality(Awaiting(p)) = 0 /\ Cardinality(Scheduled(p)) = 1
  <2>1. \A b \in Lines(host) : \A j \in DOMAIN Line(host, b) : Holds(Line(host, b)[j], 0, p) => a = b /\ i = j
    BY <1>4 DEF Once
  <2>2. CASE a = 0
    <3>1. Scheduled(p) = {i}
      BY <1>1, <1>4, <2>1, <2>2
    <3>2. Awaiting(p) = {}
      <4>1. \A b \in Made(host) : \A j \in DOMAIN Line(host, b) : ~Holds(Line(host, b)[j], 0, p)
        BY <1>1, <2>1, <2>2
      <4> QED BY <1>2, <4>1
    <3> QED BY <3>1, <3>2, FS_EmptySet, FS_Singleton
  <2>3. CASE a # 0
    <3>1. Scheduled(p) = {}
      BY <1>1, <2>1, <2>3
    <3>2. Awaiting(p) = {<<a, i>>}
      BY <1>1, <1>2, <1>4, <2>1, <2>3
    <3> QED BY <3>1, <3>2, FS_EmptySet, FS_Singleton
  <2> QED BY <2>2, <2>3
<1> QED BY <1>3, <1>4 DEF Out

LEMMA RunsCounted ==
  ASSUME Shape, NEW p
  PROVE  Cardinality(Resumed(p)) = IF Runs(running, p) THEN 1 ELSE 0
<1>1. running = [kind |-> running.kind, to |-> running.to]
  BY ShapeFields DEF Rest, Activation
<1>2. CASE Runs(running, p)
  <2>1. Resumed(p) = {running.kind}
    BY <1>1, <1>2 DEF Resumed, Runs
  <2> QED BY <1>2, <2>1, FS_Singleton
<1>3. CASE ~Runs(running, p)
  <2>1. Resumed(p) = {}
    BY <1>1, <1>3 DEF Resumed, Runs
  <2> QED BY <1>3, <2>1, FS_EmptySet
<1> QED BY <1>2, <1>3

LEMMA ContOnce ==
  ASSUME Shape, Cont
  PROVE  OneContinuation
<1> SUFFICES ASSUME NEW p \in Ids, ~Cells[p].exposed, p \notin ResultIds
             PROVE  Cardinality(Awaiting(p)) + Cardinality(Scheduled(p)) + Cardinality(Resumed(p))
                      = IF calls[p] = <<>> THEN 1 ELSE 0
  BY DEF OneContinuation
<1>1. ContOK(host, running, calls[p], ResultIds, p) /\ ~host.promises[p].exposed
  BY ShapeFields DEF Cont, Cells
<1>2. /\ calls[p] = <<>> <=> Out(host, 0, p) \/ Runs(running, p)
      /\ Once(host, 0, p) /\ ~(Out(host, 0, p) /\ Runs(running, p))
  BY <1>1 DEF ContOK
<1>3. Cardinality(Resumed(p)) = IF Runs(running, p) THEN 1 ELSE 0
  BY RunsCounted
<1>4. CASE Out(host, 0, p)
  <2>1. \/ Cardinality(Awaiting(p)) = 1 /\ Cardinality(Scheduled(p)) = 0
        \/ Cardinality(Awaiting(p)) = 0 /\ Cardinality(Scheduled(p)) = 1
    BY <1>2, <1>4, ContCounted
  <2> QED BY <1>2, <1>3, <1>4, <2>1
<1>5. CASE ~Out(host, 0, p)
  <2>1. Cardinality(Awaiting(p)) = 0 /\ Cardinality(Scheduled(p)) = 0
    BY <1>5, ContCounted
  <2> QED BY <1>2, <1>3, <1>5, <2>1
<1> QED BY <1>4, <1>5

\* A promise made by then or by an async call waits for exactly one continuation
\* until something is asked of it, and for none afterwards.
THEOREM OneContinuationCorrect == Spec => []OneContinuation
<1>1. Shape /\ Cont => OneContinuation
  BY ContOnce
<1> QED BY <1>1, ContAlways, PTL

----------------------------------------------------------------------------
(* What a combinator settles with. *)

Matches(x, y) == x.state # "pending" /\ x.state = y.state /\ x.value = y.value

\* A filled slot has the outcome of its item.
Filled(h, c) == \A i \in 1 .. 2 : c.slots[i].state # "pending" => Matches(c.slots[i], h.promises[c.items[i]])

\* What would settle the combinator at once fills no slot.
Late(c) == \A i \in 1 .. 2 : /\ c.mode = "all" => c.slots[i].state # "rejected"
                             /\ c.mode = "any" => c.slots[i].state # "fulfilled"

Copied(h, c) == \E i \in 1 .. 2 : Matches(h.promises[c.result], h.promises[c.items[i]])
Decided(h, c) ==
  /\ h.promises[c.result].state = "fulfilled" =>
       \/ c.mode \in {"all", "allSettled"} /\ c.remaining = 0
       \/ c.mode \in {"race", "any"} /\ Copied(h, c)
  /\ h.promises[c.result].state = "rejected" =>
       \/ c.mode = "any" /\ c.remaining = 0
       \/ c.mode \in {"race", "all"} /\ Copied(h, c)
AgreeOK(h, c) == Filled(h, c) /\ Late(c) /\ Decided(h, c)

Apart(cs) == \A k, l \in DOMAIN cs : cs[k].result = cs[l].result => k = l
Agree == (\A k \in DOMAIN combinators : AgreeOK(host, combinators[k])) /\ Apart(combinators)

\* The promises outside S keep their outcomes, and settled ones do.
Outcomes(h, g, S) ==
  \A p \in Made(h) : p \notin S \/ h.promises[p].state # "pending" =>
    g.promises[p].state = h.promises[p].state /\ g.promises[p].value = h.promises[p].value

LEMMA FilledKept ==
  ASSUME NEW h, NEW g, NEW S, Outcomes(h, g, S), NEW c, CombinatorOK(c, h), Filled(h, c)
  PROVE  Filled(g, c)
<1>1. \A i \in 1 .. 2 : c.items[i] \in Made(h)
  BY DEF CombinatorOK
<1> QED BY <1>1 DEF Filled, Matches, Outcomes

LEMMA CopiedKept ==
  ASSUME NEW h, NEW g, NEW S, Outcomes(h, g, S), NEW c, CombinatorOK(c, h), Copied(h, c)
  PROVE  Copied(g, c)
<1>1. c.result \in Made(h) /\ \A i \in 1 .. 2 : c.items[i] \in Made(h)
  BY DEF CombinatorOK
<1> QED BY <1>1 DEF Copied, Matches, Outcomes

LEMMA AgreeKept ==
  ASSUME NEW h, NEW g, NEW S, Outcomes(h, g, S), NEW c, CombinatorOK(c, h), c.result \notin S, AgreeOK(h, c)
  PROVE  AgreeOK(g, c)
<1>1. Filled(g, c) /\ Late(c)
  BY FilledKept DEF AgreeOK
<1>2. g.promises[c.result].state = h.promises[c.result].state
  BY DEF CombinatorOK, Outcomes
<1>3. Copied(h, c) => Copied(g, c)
  BY CopiedKept
<1> QED BY <1>1, <1>2, <1>3 DEF AgreeOK, Decided

\* A step that settles no combinator's promise.
LEMMA AgreeOther ==
  ASSUME Shape, Agree, NEW S, Outcomes(host, host', S), S \cap ResultIds = {}, UNCHANGED combinators
  PROVE  Agree'
<1>1. \A k \in DOMAIN combinators : CombinatorOK(combinators[k], host) /\ combinators[k].result \notin S
  BY ShapeFields DEF HostInv, ResultIds
<1>2. \A k \in DOMAIN combinators : AgreeOK(host', combinators[k])
  BY <1>1, AgreeKept DEF Agree
<1> QED BY <1>2 DEF Agree

LEMMA AlikeOutcomes ==
  ASSUME NEW h, NEW g, NEW S, Alike(h, g, S)
  PROVE  Outcomes(h, g, S)
BY DEF Alike, Outcomes

LEMMA AgreeAlike ==
  ASSUME Shape, Agree, Alike(host, host', {}) \/ UNCHANGED host, UNCHANGED combinators
  PROVE  Agree'
<1>1. Outcomes(host, host', {})
  BY DEF Alike, Outcomes
<1> QED BY <1>1, AgreeOther

\* The promise of a job that was taken.
LEMMA TakenOut ==
  ASSUME Shape, NEW kind, Take(kind), NEW k, NEW t, Holds(Job, k, t)
  PROVE  Out(host, k, t)
<1> DEFINE j == Job
           b == Pop(host)
<1>1. Front(host, b, j) /\ HostOK(host, Items(combinators)) /\ j = Job
  BY Taken DEF Front
<1> HIDE DEF j, b
<1>2. Left(host, b, j)
  BY ONLY <1>1, Pops
<1> QED BY <1>1, <1>2 DEF Left, PoppedOut

LEMMA NoResult ==
  ASSUME Cont, NEW p \in Made(host),
         Out(host, 0, p) \/ Out(host, 3, p) \/ Runs(running, p) \/ host.promises[p].exposed
  PROVE  {p} \cap ResultIds = {}
BY DEF Cont, ContOK

LEMMA AgreeSettles ==
  ASSUME Shape, Cont, Agree, NEW p \in Made(host),
         Out(host, 0, p) \/ Out(host, 3, p) \/ Runs(running, p) \/ host.promises[p].exposed,
         Alike(host, host', {p}), UNCHANGED combinators
  PROVE  Agree'
BY NoResult, AlikeOutcomes, AgreeOther

LEMMA AgreeAsks ==
  ASSUME Shape, Cont, Agree, NEW p, NEW x, Asks(p, x), Runs(running, p) \/ host.promises[p].exposed,
         UNCHANGED combinators
  PROVE  Agree'
<1>1. p \in Made(host) /\ Alike(host, host', {p})
  BY DoesAsks DEF Asks, Does, Effect
<1> QED BY <1>1, AgreeSettles

LEMMA AgreeCombine ==
  ASSUME Shape, Agree, NEW mode \in Mode, NEW p \in Ids, NEW r \in Ids, Combine(mode, <<p, r>>)
  PROVE  Agree'
<1> DEFINE q == Newest(host) + 1
           t == Len(combinators) + 1
           c == NewCombinator(mode, q, <<p, r>>)
<1>1. /\ Effect(host, host', Items(combinators'), {}) /\ Fresh(host', q)
      /\ Joined(combinators, combinators', t, c)
  BY DoesCombine
<1>2. Newest(host) \in Nat /\ Made(host) = 1 .. Newest(host) /\ HostInv(host, combinators)
  BY ShapeFields
<1>3. q \notin Made(host)
  BY <1>2
<1>4. c.result = q /\ \A i \in 1 .. 2 : c.slots[i].state = "pending"
  BY DEF NewCombinator
<1> HIDE DEF c, q, t
<1>5. \A k \in DOMAIN combinators : CombinatorOK(combinators[k], host)
  BY <1>2 DEF HostInv
<1>6. AgreeOK(host', c)
  BY <1>1, <1>4 DEF AgreeOK, Filled, Late, Decided, Fresh
<1>7. \A k \in DOMAIN combinators : AgreeOK(host', combinators[k])
  <2>1. Outcomes(host, host', {})
    BY <1>1, AlikeOutcomes DEF Effect
  <2> QED BY <1>5, <2>1, AgreeKept DEF Agree
<1>8. \A k \in DOMAIN combinators : combinators[k].result # q
  BY <1>3, <1>5 DEF CombinatorOK
<1> QED BY <1>1, <1>4, <1>6, <1>7, <1>8 DEF Agree, Apart, Joined

(* An item is taken into account. *)

\* Promise p gets outcome x, unless it is settled.
Given(h, g, p, x) ==
  h.promises[p].state = "pending" =>
    /\ g.promises[p].value = x.value
    /\ x.is = "plain" => g.promises[p].state = "fulfilled"
    /\ x.is = "reason" => g.promises[p].state = "rejected"

\* The job of an item of combinator c brings the outcome of that item.
Brings(h, c, job) ==
  /\ CombinatorOK(c, h) /\ job.at \in 1 .. 2 /\ job \in Reaction /\ job.state # "pending"
  /\ c.slots[job.at].state = "pending"
  /\ job.state = h.promises[c.items[job.at]].state /\ job.value = h.promises[c.items[job.at]].value

LEMMA DecidedKept ==
  ASSUME NEW h, NEW g, NEW S, Outcomes(h, g, S), NEW c, CombinatorOK(c, h), AgreeOK(h, c),
         h.promises[c.result].state # "pending"
  PROVE  Decided(g, c)
<1>1. g.promises[c.result].state = h.promises[c.result].state
  BY DEF CombinatorOK, Outcomes
<1>2. Copied(h, c) => Copied(g, c)
  BY CopiedKept
<1> QED BY <1>1, <1>2 DEF AgreeOK, Decided

LEMMA EarlyAgrees ==
  ASSUME NEW h, NEW g, NEW c, NEW job, Outcomes(h, g, {c.result}), AgreeOK(h, c), Brings(h, c, job), Early(c, job),
         Given(h, g, c.result, Passed(job))
  PROVE  AgreeOK(g, c)
<1>1. Filled(g, c) /\ Late(c)
  BY FilledKept DEF AgreeOK, Brings
<1>2. CASE h.promises[c.result].state # "pending"
  BY <1>1, <1>2, DecidedKept DEF AgreeOK, Brings
<1>3. CASE h.promises[c.result].state = "pending"
  <2>1. /\ Passed(job).value = job.value /\ Passed(job).is \in {"plain", "reason"}
        /\ (Passed(job).is = "reason" <=> job.state = "rejected") /\ job.state \in {"fulfilled", "rejected"}
    BY PassedOK DEF Brings, Reaction, State
  <2>2. g.promises[c.result].state = job.state /\ g.promises[c.result].value = job.value
    BY <1>3, <2>1 DEF Given
  <2>3. /\ c.items[job.at] \in Made(h) /\ job.at \in 1 .. 2 /\ job.state # "pending"
        /\ job.state = h.promises[c.items[job.at]].state /\ job.value = h.promises[c.items[job.at]].value
    BY DEF Brings, CombinatorOK
  <2>4. job.state = g.promises[c.items[job.at]].state /\ job.value = g.promises[c.items[job.at]].value
    BY <2>3 DEF Outcomes
  <2>5. Copied(g, c)
    BY <2>2, <2>3, <2>4 DEF Copied, Matches
  <2>6. Decided(g, c)
    BY <2>2, <2>5 DEF Decided, Early
  <2> QED BY <1>1, <2>6 DEF AgreeOK
<1> QED BY <1>2, <1>3

LEMMA FillFields ==
  ASSUME NEW h, NEW c, NEW job, Brings(h, c, job)
  PROVE  LET d == Fill(c, job)
         IN  /\ d.mode = c.mode /\ d.result = c.result /\ d.items = c.items
             /\ d.remaining = c.remaining - 1 /\ c.remaining \in {1, 2}
             /\ d.slots[job.at].state = job.state /\ d.slots[job.at].value = job.value
             /\ \A i \in 1 .. 2 : i # job.at => d.slots[i] = c.slots[i]
<1>1. c \in Combinator /\ DOMAIN c.slots = 1 .. 2 /\ job.at \in 1 .. 2
  BY DEF Brings, CombinatorOK
<1>2. c.remaining \in {1, 2}
  <2>1. c.remaining = Unfilled(c.slots[1]) + Unfilled(c.slots[2]) /\ c.slots[job.at].state = "pending"
    BY DEF Brings, CombinatorOK
  <2> QED BY <1>1, <2>1 DEF Unfilled
<1> QED BY <1>1, <1>2 DEF Fill, Combinator

LEMMA FillAgrees ==
  ASSUME NEW h, NEW g, NEW c, NEW job, Outcomes(h, g, {c.result}), AgreeOK(h, c), Brings(h, c, job), ~Early(c, job),
         c.mode # "race", NEW x,
         \/ c.remaining = 1 /\ Given(h, g, c.result, Last(c, x))
         \/ c.remaining # 1 /\ g.promises = h.promises,
         NEW d, d = Fill(c, job)
  PROVE  AgreeOK(g, d)
<1>1. /\ d.mode = c.mode /\ d.result = c.result /\ d.items = c.items
      /\ d.remaining = c.remaining - 1 /\ c.remaining \in {1, 2}
      /\ d.slots[job.at].state = job.state /\ d.slots[job.at].value = job.value
      /\ \A i \in 1 .. 2 : i # job.at => d.slots[i] = c.slots[i]
  BY FillFields
<1>2. Filled(g, c) /\ Late(c) /\ CombinatorOK(c, h)
  BY FilledKept DEF AgreeOK, Brings
<1>3. /\ c.items[job.at] \in Made(h) /\ job.at \in 1 .. 2 /\ job.state # "pending"
      /\ job.state = h.promises[c.items[job.at]].state /\ job.value = h.promises[c.items[job.at]].value
  BY DEF Brings, CombinatorOK
<1>4. job.state = g.promises[c.items[job.at]].state /\ job.value = g.promises[c.items[job.at]].value
  BY <1>3 DEF Outcomes
<1>5. Filled(g, d)
  BY <1>1, <1>2, <1>3, <1>4 DEF Filled, Matches
<1>6. Late(d)
  <2>1. c.mode = "all" => job.state # "rejected"
    BY DEF Early
  <2>2. c.mode = "any" => job.state # "fulfilled"
    BY DEF Early
  <2> QED BY <1>1, <1>2, <2>1, <2>2 DEF Late
<1>7. Copied(g, d) <=> Copied(g, c)
  BY <1>1 DEF Copied
<1>8. Decided(g, d)
  <2>1. CASE h.promises[c.result].state # "pending"
    <3>1. g.promises[c.result].state = h.promises[c.result].state
      BY <1>2, <2>1 DEF CombinatorOK, Outcomes
    <3>2. Decided(h, c) /\ (Copied(h, c) => Copied(g, c))
      BY <1>2, CopiedKept DEF AgreeOK
    <3>3. c.remaining # 0
      BY <1>1
    <3> QED BY <1>1, <1>7, <3>1, <3>2, <3>3 DEF Decided
  <2>2. CASE h.promises[c.result].state = "pending" /\ c.remaining # 1
    BY <1>1, <2>2 DEF Decided
  <2>3. CASE h.promises[c.result].state = "pending" /\ c.remaining = 1
    <3>1. d.remaining = 0 /\ Given(h, g, c.result, Last(c, x))
      BY <1>1, <2>3
    <3>2. c.mode \in {"all", "allSettled", "any"}
      BY <1>2 DEF CombinatorOK, Combinator, Mode
    <3>3. CASE c.mode \in {"all", "allSettled"}
      <4>1. Last(c, x).is = "plain"
        BY <3>3 DEF Last, Plain
      <4>2. g.promises[c.result].state = "fulfilled"
        BY <2>3, <3>1, <4>1 DEF Given
      <4> QED BY <1>1, <3>1, <3>3, <4>2 DEF Decided
    <3>4. CASE c.mode = "any"
      <4>1. Last(c, x).is = "reason"
        BY <3>4 DEF Last, Reason
      <4>2. g.promises[c.result].state = "rejected"
        BY <2>3, <3>1, <4>1 DEF Given
      <4> QED BY <1>1, <3>1, <3>4, <4>2 DEF Decided
    <3> QED BY <3>2, <3>3, <3>4
  <2> QED BY <2>1, <2>2, <2>3
<1> QED BY <1>5, <1>6, <1>8 DEF AgreeOK

LEMMA GivenOutcome ==
  ASSUME Shape, Take("element"), NEW p \in Made(host), NEW x, Resolvable(x, Newest(host)), x.is \in {"plain", "reason"},
         host' = Resolve(Popped, p, x)
  PROVE  Given(host, host', p, x)
<1> DEFINE b == Pop(host)
<1>1. SettlesPlainly(b, host', p, x)
  BY DoesPass
<1>2. b.promises = host.promises
  BY DEF Pop
<1> HIDE DEF b
<1> QED BY <1>1, <1>2 DEF SettlesPlainly, Given

\* Combinator t is given its outcome early, or its slot is filled.
AgreeElementOK(t, c, job) ==
  \/ Early(c, job) /\ UNCHANGED combinators /\ Given(host, host', c.result, Passed(job))
  \/ /\ ~Early(c, job) /\ c.mode # "race"
     /\ combinators' = [combinators EXCEPT ![t] = Fill(c, job)]
     /\ \/ c.remaining = 1 /\ Given(host, host', c.result, Last(c, Passed(job)))
        \/ c.remaining # 1 /\ host'.promises = host.promises

LEMMA ElementGives ==
  ASSUME Shape, RunElement
  PROVE  AgreeElementOK(Job.to, combinators[Job.to], Job)
<1> DEFINE c == combinators[Job.to]
<1>1. Take("element") /\ c \in Combinator /\ c.result \in Made(host) /\ Job \in Reaction
  BY ElementTaken
<1>2. Resolvable(Passed(Job), Newest(host)) /\ Passed(Job).is \in {"plain", "reason"}
  BY <1>1, PassedOK
<1>3. host' = Resolve(Popped, c.result, Passed(Job)) => Given(host, host', c.result, Passed(Job))
  BY <1>1, <1>2, GivenOutcome
<1>4. c.mode # "race" /\ host' = Resolve(Popped, c.result, Last(c, Passed(Job)))
        => Given(host, host', c.result, Last(c, Passed(Job)))
  BY <1>1, LastOK, GivenOutcome
<1>5. host' = Popped => host'.promises = host.promises
  BY DEF Popped
<1> QED BY <1>3, <1>4, <1>5, ElementSteps DEF AgreeElementOK

LEMMA AgreeElement ==
  ASSUME Shape, Agree, RunElement
  PROVE  Agree'
<1> DEFINE t == Job.to
           c == combinators[t]
           job == Job
<1>1. t \in DOMAIN combinators /\ Brings(host, c, job)
  BY ElementTaken DEF Brings
<1>2. AgreeElementOK(t, c, job)
  BY ElementGives
<1>3. Outcomes(host, host', {c.result})
  BY ElementDoes, AlikeOutcomes DEF DoesElement
<1>4. c = combinators[t]
  OBVIOUS
<1> HIDE DEF t, c, job
<1>5. \A k \in DOMAIN combinators : CombinatorOK(combinators[k], host)
  BY ShapeFields DEF HostInv
<1>6. ASSUME NEW k \in DOMAIN combinators, k # t PROVE AgreeOK(host', combinators[k])
  <2>1. combinators[k].result \notin {c.result}
    BY <1>1, <1>4, <1>6 DEF Agree, Apart
  <2> QED BY <1>3, <1>5, <2>1, AgreeKept DEF Agree
<1>7. AgreeOK(host, c)
  BY <1>1, <1>4 DEF Agree
<1>8. CASE Early(c, job)
  <2>1. AgreeOK(host', c) /\ UNCHANGED combinators
    BY <1>1, <1>2, <1>3, <1>7, <1>8, EarlyAgrees DEF AgreeElementOK
  <2> QED BY <1>4, <1>6, <2>1 DEF Agree
<1>9. CASE ~Early(c, job)
  <2> DEFINE d == Fill(c, job)
  <2>1. combinators' = [combinators EXCEPT ![t] = d]
    BY <1>2, <1>9 DEF AgreeElementOK
  <2>2. AgreeOK(host', d)
    BY <1>1, <1>2, <1>3, <1>7, <1>9, FillAgrees DEF AgreeElementOK
  <2>3. d.result = c.result
    BY <1>1, FillFields
  <2> HIDE DEF d
  <2>4. /\ DOMAIN combinators' = DOMAIN combinators /\ combinators'[t] = d
        /\ \A k \in DOMAIN combinators : k # t => combinators'[k] = combinators[k]
    BY <1>1, <2>1
  <2>5. Apart(combinators')
    BY <1>1, <1>4, <2>3, <2>4 DEF Agree, Apart
  <2> QED BY <1>6, <2>2, <2>4, <2>5 DEF Agree
<1> QED BY <1>8, <1>9

LEMMA AgreeInit ==
  ASSUME Init
  PROVE  Agree
<1>1. DOMAIN combinators = {}
  BY DEF Init
<1> QED BY <1>1 DEF Agree, Apart

LEMMA AgreeNext ==
  ASSUME Shape, Cont, Agree, [Next]_vars
  PROVE  Agree'
<1>1. ASSUME JS PROVE Agree'
  <2>1. ASSUME NEW p \in Ids, NEW x \in Resolutions(p), CallResolver(p, x) PROVE Agree'
    <3>1. Asks(p, x)
      BY <2>1, CallResolverAsks
    <3>2. UNCHANGED combinators /\ host.promises[p].exposed
      BY <2>1 DEF CallResolver
    <3> QED BY <3>1, <3>2, AgreeAsks
  <2>2. ASSUME NEW x \in Resolutions(running.to), FinishJob(x) PROVE Agree'
    <3>1. Asks(running.to, x)
      BY <2>2, FinishJobAsks
    <3>2. UNCHANGED combinators /\ Runs(running, running.to)
      BY <2>2 DEF FinishJob, Runs
    <3> QED BY <3>1, <3>2, AgreeAsks
  <2>3. ASSUME NEW v \in Value, ThenableThrows(v) PROVE Agree'
    <3>1. Asks(running.to, Reason(v))
      BY <2>3, ThenableThrowsAsks
    <3>2. UNCHANGED combinators /\ host.promises[running.to].exposed
      BY <2>3 DEF ThenableThrows, Cont
    <3> QED BY <3>1, <3>2, AgreeAsks
  <2>4. ASSUME NewPromise PROVE Agree'
    BY <2>4, DoesNewPromise, AgreeAlike DEF NewPromise, Does, Effect
  <2>5. ASSUME NEW p \in Ids, NEW f \in BOOLEAN, NEW r \in BOOLEAN, PromiseThen(p, f, r) PROVE Agree'
    BY <2>5, DoesThen, AgreeAlike DEF PromiseThen, Does, Effect
  <2>6. ASSUME NEW x \in Awaitable, CallAsync(x) PROVE Agree'
    BY <2>6, DoesAsync, AgreeAlike DEF CallAsync, Does, Effect
  <2>7. ASSUME NEW x \in Awaitable, AwaitAgain(x) PROVE Agree'
    BY <2>7, DoesAwaitAgain, AgreeAlike DEF AwaitAgain, Does, Effect
  <2>8. ASSUME NEW m \in Mode, NEW p \in Ids, NEW q \in Ids, Combine(m, <<p, q>>) PROVE Agree'
    BY <2>8, AgreeCombine
  <2>9. ASSUME Return \/ Throw PROVE Agree'
    BY <2>9, AgreeAlike DEF Return, Throw
  <2> QED BY <1>1, <2>1, <2>2, <2>3, <2>4, <2>5, <2>6, <2>7, <2>8, <2>9 DEF JS
<1>2. ASSUME Loop PROVE Agree'
  <2>1. ASSUME RunSubscribe PROVE Agree'
    BY <2>1, DoesSubscribe, AgreeAlike DEF RunSubscribe, Does, Effect
  <2>2. ASSUME RunAdopt PROVE Agree'
    <3>1. Take("adopt") /\ UNCHANGED combinators
      BY <2>2 DEF RunAdopt
    <3>2. Alike(host, host', {Job.to}) /\ Job.to \in Made(host)
      BY <2>2, DoesAdopt
    <3>3. Out(host, 3, Job.to)
      <4>1. Holds(Job, 3, Job.to)
        BY <3>1, Taken DEF Holds
      <4> QED BY <3>1, <4>1, TakenOut
    <3> QED BY <3>1, <3>2, <3>3, AgreeSettles
  <2>3. ASSUME RunThenable PROVE Agree'
    <3>1. Outcomes(host, host', {})
      BY <2>3, DoesExpose DEF Exposed, Outcomes
    <3> QED BY <2>3, <3>1, AgreeOther DEF RunThenable
  <2>4. ASSUME RunHandler PROVE Agree'
    <3>1. Does({})
      BY <2>4, DoesPop DEF RunHandler
    <3> QED BY <2>4, <3>1, AgreeAlike DEF RunHandler, Does, Effect
  <2>5. ASSUME RunAwait PROVE Agree'
    <3>1. Does({})
      BY <2>5, DoesPop DEF RunAwait
    <3> QED BY <2>5, <3>1, AgreeAlike DEF RunAwait, Does, Effect
  <2>6. ASSUME PassThrough PROVE Agree'
    <3>1. /\ Take("then") /\ Job.to \in Made(host) /\ Resolvable(Passed(Job), Newest(host))
          /\ Passed(Job).is \in {"plain", "reason"} /\ host' = Resolve(Popped, Job.to, Passed(Job))
      BY <2>6, PassesThrough
    <3>2. UNCHANGED combinators
      BY <2>6 DEF PassThrough
    <3>3. Alike(host, host', {Job.to})
      BY <3>1, DoesPass DEF Does, Effect
    <3>4. Out(host, 0, Job.to)
      <4>1. Holds(Job, 0, Job.to)
        BY <3>1, Taken DEF Holds
      <4> QED BY <3>1, <4>1, TakenOut
    <3> QED BY <3>1, <3>2, <3>3, <3>4, AgreeSettles
  <2>7. ASSUME TakeRejections PROVE Agree'
    BY <2>7, DoesTake, AgreeAlike DEF TakeRejections
  <2>8. ASSUME Report PROVE Agree'
    BY <2>8, DoesReport, AgreeAlike DEF Report, Does, Effect
  <2>9. ASSUME Drained \/ Reported \/ Macrotask PROVE Agree'
    BY <2>9, AgreeAlike DEF Drained, Reported, Macrotask
  <2> QED BY <1>2, <2>1, <2>2, <2>3, <2>4, <2>5, <2>6, <2>7, <2>8, <2>9, AgreeElement DEF Loop
<1>3. ASSUME UNCHANGED vars PROVE Agree'
  BY <1>3, AgreeAlike DEF vars
<1> QED BY <1>1, <1>2, <1>3 DEF Next

LEMMA AgreeAlways == Spec => [](Shape /\ Cont /\ Agree)
<1>1. Init => Shape /\ Cont /\ Agree
  BY ShapeInit, ContInit, AgreeInit
<1>2. Shape /\ Cont /\ Agree /\ [Next]_vars => Shape' /\ Cont' /\ Agree'
  BY ShapeNext, ContNext, AgreeNext
<1> QED BY <1>1, <1>2, PTL DEF Spec

\* With nothing remaining, the slots are the outcomes of the items.
Complete(h, c) ==
  \A i \in 1 .. 2 :
    /\ c.slots[i].state \in {"fulfilled", "rejected"} /\ c.slots[i].state = h.promises[c.items[i]].state
    /\ c.slots[i] = [state |-> h.promises[c.items[i]].state, value |-> h.promises[c.items[i]].value]

LEMMA NothingRemains ==
  ASSUME NEW h, NEW c, CombinatorOK(c, h), AgreeOK(h, c), c.remaining = 0
  PROVE  Complete(h, c)
<1> USE DEF Complete
<1> TAKE i \in 1 .. 2
<1>1. c.slots[i] \in Slot
  BY DEF CombinatorOK, Combinator
<1>2. c.slots[i].state # "pending"
  BY DEF CombinatorOK, Unfilled
<1>3. c.slots[i].state = h.promises[c.items[i]].state /\ c.slots[i].value = h.promises[c.items[i]].value
  BY <1>2 DEF AgreeOK, Filled, Matches
<1>4. c.slots[i] = [state |-> c.slots[i].state, value |-> c.slots[i].value] /\ c.slots[i].state \in State
  BY <1>1 DEF Slot
<1> QED BY <1>2, <1>3, <1>4 DEF State

LEMMA Agrees ==
  ASSUME Shape, Agree
  PROVE  CombinatorsAgree
<1> SUFFICES ASSUME NEW k \in DOMAIN combinators
             PROVE  LET c == combinators[k]
                        r == Cells[c.result]
                        Copies(i) == r.state = Cells[c.items[i]].state /\ r.value = Cells[c.items[i]].value
                    IN  /\ c.mode = "all" => /\ r.state = "fulfilled" => ItemsOf(c, "fulfilled") = 1 .. 2
                                             /\ r.state = "rejected" => \E i \in 1 .. 2 : Copies(i)
                        /\ c.mode = "allSettled" => /\ r.state # "rejected"
                                                    /\ r.state = "fulfilled" => ItemsOf(c, "pending") = {}
                        /\ c.mode = "race" /\ r.state # "pending" => \E i \in 1 .. 2 : Copies(i)
                        /\ c.mode = "any" => /\ r.state = "fulfilled" => \E i \in 1 .. 2 : Copies(i)
                                             /\ r.state = "rejected" => ItemsOf(c, "rejected") = 1 .. 2
                        /\ \/ c.mode \in {"all", "allSettled"} /\ r.state = "fulfilled"
                           \/ c.mode = "any" /\ r.state = "rejected"
                           =>
                             \A i \in 1 .. 2 : c.slots[i] = [state |-> Cells[c.items[i]].state,
                                                             value |-> Cells[c.items[i]].value]
  BY DEF CombinatorsAgree
<1> DEFINE c == combinators[k]
           s == host.promises[c.result].state
<1>1. CombinatorOK(c, host) /\ AgreeOK(host, c)
  BY ShapeFields DEF HostInv, Agree
<1>2. Cells = host.promises
  BY DEF Cells
<1>3. s \in {"pending", "fulfilled", "rejected"}
  <2>1. HostOK(host, Items(combinators)) /\ c.result \in Made(host)
    BY <1>1, ShapeFields DEF CombinatorOK
  <2> QED BY <2>1, HostFields DEF Cell, State
<1> HIDE DEF c
<1>4. Copied(host, c) => \E i \in 1 .. 2 : /\ host.promises[c.result].state = host.promises[c.items[i]].state
                                          /\ host.promises[c.result].value = host.promises[c.items[i]].value
  BY DEF Copied, Matches
<1>5. Late(c) /\ Decided(host, c)
  BY <1>1 DEF AgreeOK
<1>6. ASSUME c.remaining = 0
      PROVE  /\ \A i \in 1 .. 2 : c.slots[i] = [state |-> host.promises[c.items[i]].state,
                                                value |-> host.promises[c.items[i]].value]
             /\ c.mode = "all" => ItemsOf(c, "fulfilled") = 1 .. 2
             /\ c.mode = "allSettled" => ItemsOf(c, "pending") = {}
             /\ c.mode = "any" => ItemsOf(c, "rejected") = 1 .. 2
  <2>1. Complete(host, c)
    BY <1>1, <1>6, NothingRemains
  <2> QED BY <1>2, <1>5, <2>1 DEF ItemsOf, Late, Complete
<1>7. c.mode = "all" => (s = "fulfilled" => c.remaining = 0) /\ (s = "rejected" => Copied(host, c))
  BY <1>5 DEF Decided
<1>8. c.mode = "allSettled" => s # "rejected" /\ (s = "fulfilled" => c.remaining = 0)
  BY <1>5 DEF Decided
<1>9. c.mode = "race" => (s # "pending" => Copied(host, c))
  BY <1>3, <1>5 DEF Decided
<1>10. c.mode = "any" => (s = "fulfilled" => Copied(host, c)) /\ (s = "rejected" => c.remaining = 0)
  BY <1>5 DEF Decided
<1>11. c = combinators[k]
  BY DEF c
<1> QED BY <1>2, <1>4, <1>6, <1>7, <1>8, <1>9, <1>10, <1>11

\* A combinator settles with what its items settled with, and its slots are their
\* outcomes when it needed all of them.
THEOREM CombinatorsAgreeCorrect == Spec => []CombinatorsAgree
<1>1. Shape /\ Cont /\ Agree => CombinatorsAgree
  BY Agrees
<1> QED BY <1>1, AgreeAlways, PTL

----------------------------------------------------------------------------
(***************************************************************************)
(* A promise of which one thing is asked at a time follows the promise it  *)
(* was resolved with, and comes to the outcome of that one.                *)
(***************************************************************************)

Asking(s, is) == s # <<>> /\ Head(s).is = is

\* Promise p, of which s was asked.  A thenable job of p, or an adoption by it, is out
\* only when that is what was asked of it.
FollowOK(h, s, res, p) ==
  /\ Once(h, 4, p)
  /\ Out(h, 4, p) => Asking(s, "thenable")
  /\ \A f \in Nat : Out(h, 5 + f, p) => Asking(s, "promise") /\ Head(s).promise = f
  /\ p \in res => ~Asking(s, "promise")

Follow ==
  /\ \A p \in Made(host) : FollowOK(host, calls[p], ResultIds, p)
  /\ Newest(host) <= MaxPromises

\* A step that resolves nothing with a promise or a thenable.
FollowSame(h, g, p) ==
  /\ Once(h, 4, p) => Once(g, 4, p)
  /\ \A k \in Nat : k > 3 /\ Out(g, k, p) => Out(h, k, p)

LEMMA FollowKept ==
  ASSUME NEW h, NEW s, NEW res, NEW p, FollowOK(h, s, res, p), NEW g, FollowSame(h, g, p),
         NEW all, p \in all => p \in res
  PROVE  FollowOK(g, s, all, p)
<1>1. \A f \in Nat : 5 + f \in Nat /\ 5 + f > 3
  OBVIOUS
<1>2. \A f \in Nat : Out(g, 5 + f, p) => Out(h, 5 + f, p)
  BY <1>1 DEF FollowSame
<1>3. Out(g, 4, p) => Out(h, 4, p)
  BY DEF FollowSame
<1> QED BY <1>2, <1>3 DEF FollowOK, FollowSame

(* What is asked first. *)
LEMMA AskedFirst ==
  ASSUME NEW cs, NEW m \in Nat, CallsOK(cs, m), NEW p \in 1 .. m, NEW x \in Resolution
  PROVE  /\ Asked(cs, p, x)[p] # <<>>
         /\ Head(Asked(cs, p, x)[p]) = IF cs[p] = <<>> THEN x ELSE Head(cs[p])
<1>1. cs \in Seq(Seq(Resolution)) /\ DOMAIN cs = 1 .. m /\ cs[p] \in Seq(Resolution)
  BY LenProperties DEF CallsOK
<1>2. Asked(cs, p, x)[p] = Append(cs[p], x)
  BY <1>1 DEF Asked
<1>3. ASSUME NEW s \in Seq(Resolution)
      PROVE  Append(s, x) # <<>> /\ Head(Append(s, x)) = IF s = <<>> THEN x ELSE Head(s)
  <2>1. Append(s, x) # <<>> /\ Head(Append(s, x)) = Append(s, x)[1] /\ Len(s) \in Nat
    BY AppendProperties, EmptySeq, HeadTailProperties
  <2>2. CASE s = <<>>
    BY <2>1, <2>2
  <2>3. CASE s # <<>>
    BY <2>1, <2>3
  <2> QED BY <2>2, <2>3
<1> QED BY <1>1, <1>2, <1>3

(* The frames. *)
LEMMA OutFollowSame ==
  ASSUME NEW h, NEW g, NEW p \in Nat, Stays(h, g) \/ (\A k, t : SameOut(h, g, k, t)) \/ (\E job : Left(h, g, job))
  PROVE  FollowSame(h, g, p)
<1>1. CASE Stays(h, g)
  BY <1>1 DEF Stays, FollowSame
<1>2. CASE \A k, t : SameOut(h, g, k, t)
  BY <1>2 DEF SameOut, FollowSame
<1>3. ASSUME NEW job, Left(h, g, job) PROVE FollowSame(h, g, p)
  BY <1>3 DEF Left, PoppedOut, FollowSame
<1> QED BY <1>1, <1>2, <1>3

LEMMA ContinuedFollowSame ==
  ASSUME NEW h, NEW g, NEW q, Continued(h, g, q), NEW p \in Nat
  PROVE  FollowSame(h, g, p)
<1>1. ASSUME NEW k \in Nat, k > 3 PROVE (Out(g, k, p) <=> Out(h, k, p)) /\ (Once(h, k, p) => Once(g, k, p))
  <2>1. k # 0
    BY <1>1
  <2> QED BY <2>1 DEF Continued, AwaitOut
<1>2. 4 \in Nat /\ 4 > 3
  OBVIOUS
<1> QED BY <1>1, <1>2 DEF FollowSame

LEMMA CombinedFollowSame ==
  ASSUME NEW h, NEW g, NEW t, Combined(h, g, t), NEW p \in Nat
  PROVE  FollowSame(h, g, p)
<1>1. ASSUME NEW k \in Nat, k > 3 PROVE (Out(g, k, p) <=> Out(h, k, p)) /\ (Once(h, k, p) => Once(g, k, p))
  <2>1. k \notin 1 .. 2
    BY <1>1
  <2> QED BY <2>1 DEF Combined
<1>2. 4 \in Nat /\ 4 > 3
  OBVIOUS
<1> QED BY <1>1, <1>2 DEF FollowSame

(* The steps that create promises. *)
LEMMA FollowGrows ==
  ASSUME Shape, Follow, NEW n \in Nat, Made(host') = 1 .. n, Newest(host') = n, Newest(host) <= n, n <= MaxPromises,
         \A p \in Nat : FollowSame(host, host', p),
         \A p \in Made(host) : calls'[p] = calls[p] /\ (p \in ResultIds' => p \in ResultIds),
         \A p \in Made(host') : p \in Made(host) \/ ~Asking(calls'[p], "promise")
  PROVE  Follow'
<1>1. HostOK(host, Items(combinators)) /\ Made(host) = 1 .. Newest(host) /\ Newest(host) \in Nat
  BY ShapeFields
<1>2. ASSUME NEW p \in Made(host) PROVE FollowOK(host', calls'[p], ResultIds', p)
  <2>1. p \in Nat
    BY <1>1
  <2>2. FollowOK(host, calls[p], ResultIds, p) /\ FollowSame(host, host', p)
    BY <2>1 DEF Follow
  <2> QED BY ONLY <1>2, <2>2, FollowKept,
                  \A q \in Made(host) : calls'[q] = calls[q] /\ (q \in ResultIds' => q \in ResultIds)
<1>3. ASSUME NEW p \in Made(host'), p \notin Made(host) PROVE FollowOK(host', calls'[p], ResultIds', p)
  <2>1. p \in Nat /\ (\A f \in Nat : 5 + f \in Nat /\ 5 + f > 3) /\ 4 \in Nat /\ 4 > 3
    OBVIOUS
  <2>2. ASSUME NEW k \in Nat, k > 3 PROVE ~Out(host, k, p)
    <3>1. k \notin 1 .. 2
      BY <2>2
    <3> QED BY <1>1, <1>3, <3>1, OutNames
  <2>3. Once(host, 4, p)
    BY <2>1, <2>2 DEF Once, Out
  <2> QED BY <1>3, <2>1, <2>2, <2>3 DEF FollowOK, FollowSame
<1> QED BY <1>2, <1>3 DEF Follow

(* The steps that leave the promises as many. *)
LEMMA FollowStep ==
  ASSUME Shape, Follow, Made(host') = Made(host), Newest(host') = Newest(host), ResultIds' = ResultIds,
         NEW p, \A q \in Made(host) : q # p => FollowSame(host, host', q) /\ calls'[q] = calls[q],
         p \in Made(host) => FollowOK(host', calls'[p], ResultIds, p)
  PROVE  Follow'
<1>1. ASSUME NEW q \in Made(host), q # p PROVE FollowOK(host', calls'[q], ResultIds', q)
  <2>1. FollowOK(host, calls[q], ResultIds, q)
    BY DEF Follow
  <2> QED BY <1>1, <2>1, FollowKept
<1> QED BY <1>1 DEF Follow

LEMMA FollowAside ==
  ASSUME Shape, Follow, Made(host') = Made(host), Newest(host') = Newest(host), ResultIds' = ResultIds,
         Stays(host, host') \/ (\A k, t : SameOut(host, host', k, t)) \/ (\E job : Left(host, host', job)),
         calls' = calls
  PROVE  Follow'
<1>1. Made(host) \subseteq Nat /\ 0 \notin Made(host)
  BY ShapeFields
<1>2. \A q \in Made(host) : FollowSame(host, host', q)
  BY <1>1, OutFollowSame
<1> QED BY <1>1, <1>2, FollowStep

(* A promise is resolved. *)
LEMMA FollowAsks ==
  ASSUME MaxCalls <= 1, Shape, Cont, Follow, NEW p, NEW x, Asks(p, x), UNCHANGED <<combinators>>, calls[p] = <<>>,
         host.promises[p].exposed \/ Runs(running, p)
  PROVE  Follow'
<1>1. /\ Made(host') = Made(host) /\ Newest(host') = Newest(host)
      /\ ResolveOutOK(host, host', p, x) /\ p \in Made(host) /\ x \in Resolution
      /\ calls' = Asked(calls, p, x)
  BY DoesAsks DEF Asks, Resolvable
<1>2. Newest(host) \in Nat /\ Made(host) = 1 .. Newest(host) /\ CallsOK(calls, Newest(host)) /\ p \in Nat
  BY <1>1, ShapeFields
<1>3. calls'[p] # <<>> /\ Head(calls'[p]) = x /\ \A q \in Made(host) : q # p => calls'[q] = calls[q]
  BY <1>1, <1>2, AskedFields, AskedFirst
<1>4. ResultIds' = ResultIds /\ p \notin ResultIds
  <2>1. ContOK(host, running, calls[p], ResultIds, p)
    BY <1>1 DEF Cont
  <2> QED BY <2>1 DEF ResultIds, ContOK
<1>5. Queued(x, p).to = p
  BY DEF Queued, Continue
<1>6. ASSUME NEW q \in Made(host), q # p PROVE FollowSame(host, host', q)
  <2>1. \A k \in Nat : ~Holds(Queued(x, p), k, q)
    BY <1>5, <1>6 DEF Holds
  <2>2. \A k, t : SameOut(host, host', k, t) \/ MoreOut(host, host', Queued(x, p), k, t)
    BY <1>1 DEF ResolveOutOK
  <2> QED BY ONLY <2>1, <2>2 DEF SameOut, MoreOut, FollowSame
<1>7. FollowOK(host', calls'[p], ResultIds, p)
  <2>1. FollowOK(host, <<>>, ResultIds, p)
    BY <1>1 DEF Follow
  <2>2. Once(host, 4, p) /\ ~Out(host, 4, p) /\ \A f \in Nat : ~Out(host, 5 + f, p)
    BY <2>1 DEF FollowOK, Asking
  <2>3. \A k, t : SameOut(host, host', k, t) \/ MoreOut(host, host', Queued(x, p), k, t)
    BY <1>1 DEF ResolveOutOK
  <2>4. x.is \in {"plain", "promise", "thenable", "reason"} /\ x.promise \in Nat
    BY <1>1 DEF Resolution
  <2>5. x.is \in {"plain", "reason"} => \A k, t : SameOut(host, host', k, t)
    BY <1>1 DEF ResolveOutOK
  <2>6. Holds(Queued(x, p), 4, p) => x.is # "promise"
    BY DEF Queued, Holds, Continue
  <2>7. ASSUME NEW f \in Nat, Holds(Queued(x, p), 5 + f, p) PROVE x.is = "promise" /\ x.promise = f
    <3>1. Queued(x, p).kind \in {"subscribe", "adopt"} /\ Queued(x, p).from = f
      BY <2>7 DEF Holds
    <3> QED BY <3>1 DEF Queued, Continue
  <2>8. Once(host', 4, p)
    BY ONLY <2>2, <2>3 DEF SameOut, MoreOut
  <2>9. Out(host', 4, p) => x.is = "thenable"
    BY ONLY <2>2, <2>3, <2>4, <2>5, <2>6 DEF SameOut, MoreOut
  <2>10. ASSUME NEW f \in Nat, Out(host', 5 + f, p) PROVE x.is = "promise" /\ x.promise = f
    BY ONLY <2>2, <2>3, <2>7, <2>10 DEF SameOut, MoreOut
  <2> QED BY <1>3, <1>4, <2>8, <2>9, <2>10 DEF FollowOK, Asking
<1> QED BY <1>1, <1>3, <1>4, <1>6, <1>7, FollowStep

\* A resolving function, a handler, a body and a thenable's then are the only ones to ask
\* something of their promise.
LEMMA AsksFirst ==
  ASSUME MaxCalls <= 1, Shape, Cont, NEW p \in Made(host),
         Len(calls[p]) < MaxCalls \/ Runs(running, p)
  PROVE  calls[p] = <<>>
<1>1. CASE Runs(running, p)
  BY <1>1 DEF Cont, ContOK
<1>2. CASE Len(calls[p]) < MaxCalls
  <2>1. CallsOK(calls, Newest(host)) /\ Made(host) = 1 .. Newest(host) /\ Newest(host) \in Nat
    BY ShapeFields
  <2>2. calls[p] \in Seq(Resolution)
    BY <2>1, LenProperties DEF CallsOK
  <2>3. MaxCalls \in Nat
    BY PromiseAssumption
  <2>4. Len(calls[p]) \in Nat /\ Len(calls[p]) = 0
    BY <1>2, <2>2, <2>3, LenProperties
  <2> QED BY <2>2, <2>4, EmptySeq
<1> QED BY <1>1, <1>2

(* A reaction resolves with a plain value or a reason, *)
LEMMA FollowGiven ==
  ASSUME Shape, Follow, Made(host') = Made(host), Newest(host') = Newest(host), ResultIds' = ResultIds,
         \E job : Left(host, host', job), NEW p \in Made(host), NEW x \in Resolution, x.is \in {"plain", "reason"},
         calls' = Asked(calls, p, x)
  PROVE  Follow'
<1>1. Newest(host) \in Nat /\ Made(host) = 1 .. Newest(host) /\ CallsOK(calls, Newest(host)) /\ p \in Nat
  BY ShapeFields
<1>2. /\ calls'[p] # <<>> /\ Head(calls'[p]) = (IF calls[p] = <<>> THEN x ELSE Head(calls[p]))
      /\ \A q \in Made(host) : q # p => calls'[q] = calls[q]
  BY <1>1, AskedFields, AskedFirst
<1>3. \A q \in Made(host) : FollowSame(host, host', q)
  BY <1>1, OutFollowSame
<1>4. FollowOK(host', calls[p], ResultIds, p)
  BY <1>3, FollowKept DEF Follow
<1>5. FollowOK(host', calls'[p], ResultIds, p)
  BY <1>2, <1>4 DEF FollowOK, Asking
<1> QED BY <1>2, <1>3, <1>5, FollowStep

LEMMA FollowPassThrough ==
  ASSUME Shape, Follow, PassThrough
  PROVE  Follow'
<1> DEFINE p == Job.to
           x == Passed(Job)
<1>1. /\ Take("then") /\ p \in Made(host) /\ Resolvable(x, Newest(host)) /\ x.is \in {"plain", "reason"}
      /\ x \in Resolution /\ host' = Resolve(Popped, p, x) /\ calls' = Asked(calls, p, x)
  BY PassesThrough
<1>2. ResultIds' = ResultIds
  BY DEF PassThrough, ResultIds
<1> HIDE DEF p, x
<1>3. Made(host') = Made(host) /\ Newest(host') = Newest(host) /\ Left(host, host', Job)
  BY <1>1, DoesPass
<1>4. \E job : Left(host, host', job)
  BY ONLY <1>3
<1> QED BY <1>1, <1>2, <1>3, <1>4, FollowGiven

(* and so does a combinator. *)
\* What a combinator's step asks of its result.
ElementAsks(p) ==
  \/ calls' = calls /\ host' = Popped
  \/ \E x \in Resolution : /\ x.is \in {"plain", "reason"} /\ Resolvable(x, Newest(host))
                           /\ calls' = Asked(calls, p, x) /\ host' = Resolve(Popped, p, x)

LEMMA ElementAsked ==
  ASSUME Shape, RunElement
  PROVE  ElementAsks(combinators[Job.to].result)
<1> DEFINE x == Passed(Job)
           y == Last(combinators[Job.to], x)
           p == combinators[Job.to].result
<1>1. combinators[Job.to] \in Combinator /\ Job \in Reaction
  BY ElementTaken
<1>2. x \in Resolution /\ Resolvable(x, Newest(host)) /\ x.is \in {"plain", "reason"}
  BY <1>1, PassedOK
<1>3. combinators[Job.to].mode # "race" =>
        y \in Resolution /\ Resolvable(y, Newest(host)) /\ y.is \in {"plain", "reason"}
  BY <1>1, LastOK
<1>4. \/ calls' = Asked(calls, p, x) /\ host' = Resolve(Popped, p, x)
      \/ combinators[Job.to].mode # "race" /\ calls' = Asked(calls, p, y) /\ host' = Resolve(Popped, p, y)
      \/ calls' = calls /\ host' = Popped
  BY ElementSteps
<1> HIDE DEF x, y, p
<1>5. ElementAsks(p)
  BY <1>2, <1>3, <1>4 DEF ElementAsks
<1> QED BY <1>5 DEF p

LEMMA FollowElement ==
  ASSUME Shape, Follow, RunElement
  PROVE  Follow'
<1> DEFINE p == combinators[Job.to].result
<1>1. /\ Made(host') = Made(host) /\ Newest(host') = Newest(host) /\ Left(host, host', Job) /\ ResultIds' = ResultIds
  BY ElementDoes, ElementResults DEF DoesElement
<1>2. p \in Made(host) /\ ElementAsks(p)
  BY ElementTaken, ElementAsked
<1> HIDE DEF p
<1>3. \E job : Left(host, host', job)
  BY ONLY <1>1
<1>4. CASE calls' = calls
  BY <1>1, <1>3, <1>4, FollowAside
<1>5. ASSUME NEW x \in Resolution, x.is \in {"plain", "reason"}, calls' = Asked(calls, p, x) PROVE Follow'
  BY <1>1, <1>2, <1>3, <1>5, FollowGiven
<1> QED BY <1>2, <1>4, <1>5 DEF ElementAsks

(* A thenable takes over. *)
LEMMA FollowThenable ==
  ASSUME Shape, Follow, RunThenable
  PROVE  Follow'
<1> DEFINE p == Job.to
<1>1. /\ Made(host') = Made(host) /\ Newest(host') = Newest(host) /\ p \in Made(host) /\ Left(host, host', Job)
  BY DoesExpose
<1>2. /\ Take("thenable") /\ calls' = [calls EXCEPT ![p] = <<>>] /\ UNCHANGED combinators /\ p = Job.to
  BY DEF RunThenable
<1> HIDE DEF p
<1>3. /\ Newest(host) \in Nat /\ Made(host) = 1 .. Newest(host) /\ CallsOK(calls, Newest(host)) /\ Job.kind = "thenable"
  BY <1>2, Taken
<1>4. calls'[p] = <<>> /\ \A q \in Made(host) : q # p => calls'[q] = calls[q]
  BY <1>1, <1>2, <1>3 DEF CallsOK
<1>5. ResultIds' = ResultIds
  BY <1>2 DEF ResultIds
<1>6. \A q \in Made(host) : FollowSame(host, host', q)
  <2>1. Made(host) \subseteq Nat /\ \E job : Left(host, host', job)
    BY <1>1, <1>3
  <2> QED BY <2>1, OutFollowSame
<1>7. FollowOK(host', calls'[p], ResultIds, p)
  <2>1. FollowOK(host, calls[p], ResultIds, p)
    BY <1>1 DEF Follow
  <2>2. FollowOK(host', calls[p], ResultIds, p)
    BY <1>1, <1>6, <2>1, FollowKept
  <2>3. Holds(Job, 4, p)
    BY <1>2, <1>3 DEF Holds
  <2>4. Out(host, 4, p) /\ ~Out(host', 4, p)
    BY <1>1, <2>1, <2>3 DEF Left, PoppedOut, FollowOK
  <2>5. \A f \in Nat : ~Out(host', 5 + f, p)
    BY <2>1, <2>2, <2>4 DEF FollowOK, Asking
  <2> QED BY <1>4, <2>2, <2>4, <2>5 DEF FollowOK, Asking
<1> QED BY <1>1, <1>4, <1>5, <1>6, <1>7, FollowStep

(* A promise is created. *)
LEMMA FollowNewPromise ==
  ASSUME Shape, Follow, NewPromise
  PROVE  Follow'
<1> DEFINE m == Newest(host)
           q == m + 1
<1>1. /\ Does({}) /\ Newest(host') = q /\ \A k, t : SameOut(host, host', k, t)
  BY DoesNewPromise
<1>2. /\ m \in Nat /\ Made(host) = 1 .. m /\ CallsOK(calls, m) /\ HostOK(host', Items(combinators))
  BY <1>1, ShapeFields DEF Does, Effect
<1>3. Made(host') = 1 .. q
  BY <1>1, <1>2, HostFields
<1>4. /\ calls' = Append(calls, <<>>) /\ <<>> \in Seq(Resolution) /\ UNCHANGED combinators /\ q <= MaxPromises
  BY DEF NewPromise, Room, Newest
<1> HIDE DEF m
<1>5. (\A i \in 1 .. m : calls'[i] = calls[i]) /\ calls'[q] = <<>>
  BY <1>2, <1>4, AppendedFields
<1>6. ResultIds' = ResultIds
  BY <1>4 DEF ResultIds
<1>7. \A p \in Nat : FollowSame(host, host', p)
  BY <1>1, OutFollowSame
<1>8. m <= q /\ q \in Nat /\ \A i \in 1 .. q : i \in 1 .. m \/ i = q
  BY <1>2
<1>9. \A i \in Made(host') : i \in Made(host) \/ ~Asking(calls'[i], "promise")
  BY <1>2, <1>3, <1>5, <1>8 DEF Asking
<1> QED BY <1>1, <1>2, <1>3, <1>4, <1>5, <1>6, <1>7, <1>8, <1>9, FollowGrows DEF m

LEMMA FollowPromiseThen ==
  ASSUME Shape, Follow, NEW p \in Ids, NEW f \in BOOLEAN, NEW r \in BOOLEAN, PromiseThen(p, f, r)
  PROVE  Follow'
<1> DEFINE m == Newest(host)
           q == m + 1
<1>1. Does({}) /\ Newest(host') = q /\ Continued(host, host', q)
  BY DoesThen
<1>2. /\ m \in Nat /\ Made(host) = 1 .. m /\ CallsOK(calls, m) /\ HostOK(host', Items(combinators))
  BY <1>1, ShapeFields DEF Does, Effect
<1>3. Made(host') = 1 .. q
  BY <1>1, <1>2, HostFields
<1>4. /\ calls' = Append(calls, <<>>) /\ <<>> \in Seq(Resolution) /\ UNCHANGED combinators /\ q <= MaxPromises
  BY DEF PromiseThen, Room, Newest
<1> HIDE DEF m
<1>5. (\A i \in 1 .. m : calls'[i] = calls[i]) /\ calls'[q] = <<>>
  BY <1>2, <1>4, AppendedFields
<1>6. ResultIds' = ResultIds
  BY <1>4 DEF ResultIds
<1>7. \A i \in Nat : FollowSame(host, host', i)
  BY <1>1, ContinuedFollowSame
<1>8. m <= q /\ q \in Nat /\ \A i \in 1 .. q : i \in 1 .. m \/ i = q
  BY <1>2
<1>9. \A i \in Made(host') : i \in Made(host) \/ ~Asking(calls'[i], "promise")
  BY <1>2, <1>3, <1>5, <1>8 DEF Asking
<1> QED BY <1>1, <1>2, <1>3, <1>4, <1>5, <1>6, <1>7, <1>8, <1>9, FollowGrows DEF m

LEMMA FollowCombine ==
  ASSUME Shape, Follow, NEW mode \in Mode, NEW p \in Ids, NEW r \in Ids, Combine(mode, <<p, r>>)
  PROVE  Follow'
<1> DEFINE m == Newest(host)
           q == m + 1
           t == Len(combinators) + 1
           c == NewCombinator(mode, q, <<p, r>>)
<1>1. /\ Effect(host, host', Items(combinators'), {}) /\ Newest(host') = q
      /\ Combined(host, host', t) /\ Joined(combinators, combinators', t, c)
  BY DoesCombine
<1>2. /\ m \in Nat /\ Made(host) = 1 .. m /\ CallsOK(calls, m)
  BY ShapeFields
<1>3. Made(host') = 1 .. q
  BY <1>1, HostFields DEF Effect
<1>4. c.result = q
  BY DEF NewCombinator
<1> HIDE DEF c
<1>5. ResultIds' = ResultIds \cup {q}
  BY <1>1, <1>4 DEF ResultIds, Joined
<1>6. calls' = Append(calls, <<>>) /\ <<>> \in Seq(Resolution) /\ q <= MaxPromises
  BY DEF Combine, Room, Newest
<1> HIDE DEF m, t
<1>7. (\A i \in 1 .. m : calls'[i] = calls[i]) /\ calls'[q] = <<>>
  BY <1>2, <1>6, AppendedFields
<1>8. \A i \in Nat : FollowSame(host, host', i)
  BY <1>1, CombinedFollowSame
<1>9. m <= q /\ q \in Nat /\ q \notin 1 .. m /\ \A i \in 1 .. q : i \in 1 .. m \/ i = q
  BY <1>2
<1>10. \A i \in Made(host) : calls'[i] = calls[i] /\ (i \in ResultIds' => i \in ResultIds)
  BY <1>2, <1>5, <1>7, <1>9
<1>11. \A i \in Made(host') : i \in Made(host) \/ ~Asking(calls'[i], "promise")
  BY <1>2, <1>3, <1>7, <1>9 DEF Asking
<1> QED BY <1>1, <1>2, <1>3, <1>6, <1>8, <1>9, <1>10, <1>11, FollowGrows DEF m

\* What is recorded of an awaited value.
LEMMA AwaitedFirst ==
  ASSUME NEW cs, NEW m \in Nat, CallsOK(cs, m), NEW x \in Resolution, x.is = "plain"
  PROVE  ~Asking(AwaitCalls(cs, x)[m + 1], "promise")
<1> DEFINE y == <<x>>
<1>1. y \in Seq(Resolution) /\ Head(y) = x
  OBVIOUS
<1>2. AwaitCalls(cs, x) = Append(cs, y)
  BY DEF AwaitCalls
<1> HIDE DEF y
<1>3. Append(cs, y)[m + 1] = y
  BY <1>1, AppendedFields
<1> QED BY <1>1, <1>2, <1>3 DEF Asking

\* The calls of an async function that is called, or awaits again.
AsyncCalls(m) ==
  /\ \A i \in 1 .. m : calls'[i] = calls[i]
  /\ \A i \in Nat : i > m /\ i <= Newest(host') => ~Asking(calls'[i], "promise")

LEMMA FollowAwaits ==
  ASSUME Shape, Follow, Does({}), NEW q, Continued(host, host', q), UNCHANGED combinators,
         Newest(host) <= Newest(host'), Newest(host') <= MaxPromises, AsyncCalls(Newest(host))
  PROVE  Follow'
<1> DEFINE m == Newest(host)
           n == Newest(host')
<1>1. /\ m \in Nat /\ Made(host) = 1 .. m /\ HostOK(host', Items(combinators))
  BY ShapeFields DEF Does, Effect
<1>2. Made(host') = 1 .. n /\ n \in Nat
  BY <1>1, HostFields
<1>3. \A i \in Nat : FollowSame(host, host', i)
  BY ContinuedFollowSame
<1>4. ResultIds' = ResultIds
  BY DEF ResultIds
<1>5. \A i \in Made(host) : calls'[i] = calls[i] /\ (i \in ResultIds' => i \in ResultIds)
  BY <1>1, <1>4 DEF AsyncCalls
<1>6. \A i \in Made(host') : i \in Made(host) \/ ~Asking(calls'[i], "promise")
  BY <1>1, <1>2 DEF AsyncCalls
<1> HIDE DEF m, n
<1> QED BY <1>1, <1>2, <1>3, <1>5, <1>6, FollowGrows DEF m, n

LEMMA CallAsyncCalls ==
  ASSUME Shape, NEW x \in Awaitable, CallAsync(x)
  PROVE  LET m == Newest(host)
         IN  /\ AsyncCalls(m) /\ calls'[m + 1] = <<>>
             /\ m <= Newest(host') /\ Newest(host') <= MaxPromises
             /\ x.is # "promise" => Head(calls'[m + 2]) = x /\ calls'[m + 2] # <<>>
<1> DEFINE m == Newest(host)
           q == m + 1
           cs == Append(calls, <<>>)
<1>1. Newest(host') = q + AwaitRoom(x)
  BY DoesAsync
<1>2. /\ m \in Nat /\ CallsOK(calls, m) /\ Awaited(host, x) /\ (x \in Resolution \/ x.is = "promise")
  BY ShapeFields, AwaitableOK
<1>3. calls' = AwaitCalls(cs, x) /\ <<>> \in Seq(Resolution) /\ m + (1 + AwaitRoom(x)) <= MaxPromises
  BY DEF CallAsync, Room, Newest
<1> HIDE DEF m
<1>4. CallsOK(cs, q) /\ cs[q] = <<>> /\ \A i \in 1 .. m : cs[i] = calls[i]
  BY <1>2, <1>3, AppendedFields, CallsNew
<1> HIDE DEF cs
<1>5. q \in Nat /\ q \in 1 .. q /\ \A i \in 1 .. m : i \in 1 .. q
  BY <1>2
<1>6. \A i \in 1 .. q : calls'[i] = cs[i]
  BY <1>2, <1>3, <1>4, <1>5, AwaitFields
<1>7. calls'[q] = <<>> /\ \A i \in 1 .. m : calls'[i] = calls[i]
  BY <1>4, <1>5, <1>6
<1>8. CASE x.is = "promise"
  <2>1. Newest(host') = q
    BY <1>1, <1>2, <1>8 DEF AwaitRoom
  <2>2. \A i \in Nat : i > m /\ i <= q => i = q
    BY <1>2
  <2>3. q <= MaxPromises /\ m <= q
    BY <1>2, <1>3, <1>8 DEF AwaitRoom
  <2> QED BY <1>7, <1>8, <2>1, <2>2, <2>3 DEF AsyncCalls, Asking, m
<1>9. CASE x.is # "promise"
  <2>1. Newest(host') = q + 1 /\ AwaitRoom(x) = 1
    BY <1>1, <1>9 DEF AwaitRoom
  <2>2. \A i \in Nat : i > m /\ i <= q + 1 => i = q \/ i = q + 1
    BY <1>2
  <2>3. q + 1 <= MaxPromises /\ m <= q + 1
    BY <1>2, <1>3, <2>1, PromiseAssumption
  <2>4. x \in Resolution /\ x.is = "plain"
    BY <1>2, <1>9 DEF Awaited
  <2>5. ~Asking(calls'[q + 1], "promise")
    BY <1>3, <1>4, <1>5, <2>4, AwaitedFirst
  <2>6. calls'[q + 1] = <<x>>
    <3> DEFINE y == <<x>>
    <3>1. y \in Seq(Resolution) /\ AwaitCalls(cs, x) = Append(cs, y)
      BY <1>9, <2>4 DEF AwaitCalls
    <3> HIDE DEF y
    <3>2. Append(cs, y)[q + 1] = y
      BY ONLY <1>4, <1>5, <3>1, AppendedFields
    <3>3. calls'[q + 1] = y
      BY ONLY <1>3, <3>1, <3>2
    <3> QED BY <3>3 DEF y
  <2>7. q + 1 = m + 2
    BY <1>2
  <2>8. Head(calls'[m + 2]) = x /\ calls'[m + 2] # <<>>
    BY <2>6, <2>7
  <2>9. AsyncCalls(m)
    BY <1>7, <2>1, <2>2, <2>5 DEF AsyncCalls, Asking
  <2> QED BY <1>7, <2>1, <2>3, <2>8, <2>9 DEF m
<1> QED BY <1>8, <1>9

LEMMA AwaitAgainCalls ==
  ASSUME Shape, NEW x \in Awaitable, AwaitAgain(x), Newest(host) <= MaxPromises
  PROVE  LET m == Newest(host)
         IN  /\ AsyncCalls(m)
             /\ m <= Newest(host') /\ Newest(host') <= MaxPromises
<1> DEFINE m == Newest(host)
<1>1. Newest(host') = m + AwaitRoom(x)
  BY DoesAwaitAgain
<1>2. /\ m \in Nat /\ CallsOK(calls, m) /\ Awaited(host, x) /\ (x \in Resolution \/ x.is = "promise")
      /\ m <= MaxPromises
  BY ShapeFields, AwaitableOK
<1>3. calls' = AwaitCalls(calls, x) /\ m + AwaitRoom(x) <= MaxPromises
  BY DEF AwaitAgain, Room, Newest
<1> HIDE DEF m
<1>4. \A i \in 1 .. m : calls'[i] = calls[i]
  BY <1>2, <1>3, AwaitFields
<1>5. CASE x.is = "promise"
  <2>1. Newest(host') = m
    BY <1>1, <1>2, <1>5 DEF AwaitRoom
  <2>2. \A i \in Nat : ~(i > m /\ i <= m)
    BY <1>2
  <2> QED BY <1>2, <1>4, <2>1, <2>2 DEF AsyncCalls, m
<1>6. CASE x.is # "promise"
  <2>1. Newest(host') = m + 1 /\ m + 1 <= MaxPromises
    BY <1>1, <1>3, <1>6 DEF AwaitRoom
  <2>2. \A i \in Nat : i > m /\ i <= m + 1 => i = m + 1
    BY <1>2
  <2>3. x \in Resolution /\ x.is = "plain"
    BY <1>2, <1>6 DEF Awaited
  <2>4. ~Asking(calls'[m + 1], "promise")
    BY <1>2, <1>3, <2>3, AwaitedFirst
  <2> QED BY <1>2, <1>4, <2>1, <2>2, <2>4 DEF AsyncCalls, m
<1> QED BY <1>5, <1>6

LEMMA FollowAsync ==
  ASSUME Shape, Follow, NEW x \in Awaitable, CallAsync(x) \/ AwaitAgain(x)
  PROVE  Follow'
<1>1. ASSUME CallAsync(x) PROVE Follow'
  BY <1>1, DoesAsync, CallAsyncCalls, FollowAwaits DEF CallAsync
<1>2. ASSUME AwaitAgain(x) PROVE Follow'
  BY <1>2, DoesAwaitAgain, AwaitAgainCalls, FollowAwaits DEF AwaitAgain, Follow
<1> QED BY <1>1, <1>2

(* The other steps. *)
LEMMA FollowOther ==
  ASSUME Shape, Follow, \/ RunSubscribe \/ RunAdopt \/ RunHandler \/ RunAwait \/ TakeRejections \/ Report
                        \/ Return \/ Throw \/ Drained \/ Reported \/ Macrotask \/ UNCHANGED vars
  PROVE  Follow'
<1>1. ASSUME RunSubscribe PROVE Follow'
  BY <1>1, DoesSubscribe, FollowAside DEF RunSubscribe, ResultIds
<1>2. ASSUME RunAdopt PROVE Follow'
  BY <1>2, DoesAdopt, FollowAside DEF RunAdopt, ResultIds
<1>3. ASSUME NEW kind, Take(kind), host' = Popped, UNCHANGED <<combinators, calls>> PROVE Follow'
  <2>1. Made(host') = Made(host) /\ Newest(host') = Newest(host) /\ \E job : Left(host, host', job)
    BY <1>3, DoesPop
  <2> QED BY <1>3, <2>1, FollowAside DEF ResultIds
<1>4. ASSUME TakeRejections PROVE Follow'
  BY <1>4, DoesTake, FollowAside DEF TakeRejections, ResultIds
<1>5. ASSUME Report PROVE Follow'
  <2>1. /\ Newest(host') = Newest(host) /\ Made(host') = Made(host) /\ \A k, t : SameOut(host, host', k, t)
    BY <1>5, DoesReport
  <2>2. UNCHANGED <<combinators, calls>>
    BY <1>5 DEF Report
  <2> QED BY <2>1, <2>2, FollowAside DEF ResultIds
<1>6. ASSUME UNCHANGED <<host, combinators, calls>> PROVE Follow'
  <2>1. Made(host') = Made(host) /\ Newest(host') = Newest(host) /\ \A k, t : SameOut(host, host', k, t)
    BY <1>6 DEF SameOut
  <2> QED BY <1>6, <2>1, FollowAside DEF ResultIds
<1>7. ASSUME Return \/ Throw \/ Drained \/ Reported \/ Macrotask \/ UNCHANGED vars PROVE Follow'
  BY <1>6, <1>7 DEF Return, Throw, Drained, Reported, Macrotask, vars
<1>8. ASSUME RunHandler \/ RunAwait PROVE Follow'
  BY <1>3, <1>8 DEF RunHandler, RunAwait
<1> QED BY <1>1, <1>2, <1>4, <1>5, <1>7, <1>8

LEMMA FollowInit ==
  ASSUME Init
  PROVE  Follow
<1>1. Made(host) = {} /\ Newest(host) = 0
  BY DEF Init, Made, Newest
<1>2. 0 <= MaxPromises
  BY PromiseAssumption
<1> QED BY <1>1, <1>2 DEF Follow

\* The steps that ask something of a promise.
Solves(p, x) ==
  /\ Asks(p, x) /\ UNCHANGED combinators /\ calls[p] = <<>>
  /\ host.promises[p].exposed \/ Runs(running, p)

LEMMA SolvesSteps ==
  ASSUME MaxCalls <= 1, Shape, Cont
  PROVE  /\ \A p \in Ids : \A x \in Resolutions(p) : CallResolver(p, x) => Solves(p, x)
         /\ \A x \in Resolutions(running.to) : FinishJob(x) => Solves(running.to, x)
         /\ \A v \in Value : ThenableThrows(v) => Solves(running.to, Reason(v))
<1>1. ASSUME NEW p \in Ids, NEW x \in Resolutions(p), CallResolver(p, x) PROVE Solves(p, x)
  <2>1. Asks(p, x) /\ p \in Made(host)
    BY <1>1, ShapeFields, CallResolverAsks
  <2>2. host.promises[p].exposed /\ Len(calls[p]) < MaxCalls /\ UNCHANGED combinators
    BY <1>1 DEF CallResolver
  <2> QED BY <2>1, <2>2, AsksFirst DEF Solves
<1>2. ASSUME NEW x \in Resolutions(running.to), FinishJob(x) PROVE Solves(running.to, x)
  <2>1. Asks(running.to, x)
    BY <1>2, FinishJobAsks
  <2>2. Runs(running, running.to) /\ UNCHANGED combinators
    BY <1>2 DEF FinishJob, Runs
  <2> QED BY <2>1, <2>2, AsksFirst DEF Solves, Asks
<1>3. ASSUME NEW v \in Value, ThenableThrows(v) PROVE Solves(running.to, Reason(v))
  <2>1. Asks(running.to, Reason(v))
    BY <1>3, ThenableThrowsAsks
  <2>2. host.promises[running.to].exposed /\ Len(calls[running.to]) < MaxCalls /\ UNCHANGED combinators
    BY <1>3 DEF ThenableThrows, Cont
  <2> QED BY <2>1, <2>2, AsksFirst DEF Solves, Asks
<1> QED BY <1>1, <1>2, <1>3

LEMMA FollowNext ==
  ASSUME MaxCalls <= 1, Shape, Cont, Follow, [Next]_vars
  PROVE  Follow'
<1>1. ASSUME NEW p, NEW x, Solves(p, x) PROVE Follow'
  BY <1>1, FollowAsks DEF Solves
<1>2. ASSUME JS PROVE Follow'
  <2>1. ASSUME NEW p \in Ids, NEW f \in BOOLEAN, NEW r \in BOOLEAN, PromiseThen(p, f, r) PROVE Follow'
    BY <2>1, FollowPromiseThen
  <2>2. ASSUME NEW x \in Awaitable, CallAsync(x) \/ AwaitAgain(x) PROVE Follow'
    BY <2>2, FollowAsync
  <2>3. ASSUME NEW m \in Mode, NEW p \in Ids, NEW q \in Ids, Combine(m, <<p, q>>) PROVE Follow'
    BY <2>3, FollowCombine
  <2> QED BY <1>1, <1>2, <2>1, <2>2, <2>3, SolvesSteps, FollowNewPromise, FollowOther DEF JS
<1>3. ASSUME Loop PROVE Follow'
  BY <1>3, FollowThenable, FollowPassThrough, FollowElement, FollowOther DEF Loop
<1> QED BY <1>2, <1>3, FollowOther DEF Next

(* The fate of a promise. *)
FateOf(h, s, p) ==
  IF p \notin Made(h) THEN [is |-> "unborn"]
  ELSE IF h.promises[p].state # "pending"
       THEN [is |-> "settled", outcome |-> <<h.promises[p].state, h.promises[p].value>>]
  ELSE IF s # <<>> /\ Head(s).is = "promise" THEN [is |-> "following", promise |-> Head(s).promise]
  ELSE [is |-> "open"]

Mapped(f) == f = [p \in Index |-> f[p]]

LEMMA FateFields ==
  /\ Mapped(Fates) /\ \A p \in Index : Fates[p] = FateOf(host, calls[p], p)
  /\ Mapped(Fates') /\ \A p \in Index : Fates'[p] = FateOf(host', calls'[p], p)
<1> DEFINE E(q) == IF q \notin Ids THEN [is |-> "unborn"]
                  ELSE IF Cells[q].state # "pending"
                       THEN [is |-> "settled", outcome |-> <<Cells[q].state, Cells[q].value>>]
                  ELSE IF calls[q] # <<>> /\ Head(calls[q]).is = "promise"
                       THEN [is |-> "following", promise |-> Head(calls[q]).promise]
                  ELSE [is |-> "open"]
<1>1. Fates = [q \in Index |-> E(q)] /\ Fates' = [q \in Index |-> E(q)']
  BY DEF Fates
<1>2. \A q : E(q) = FateOf(host, calls[q], q) /\ E(q)' = FateOf(host', calls'[q], q)
  BY DEF FateOf, Ids, Cells, Made
<1> HIDE DEF E
<1> QED BY ONLY <1>1, <1>2 DEF Mapped

LEMMA FatesMove ==
  ASSUME NEW p, NEW f, \A q \in Index : Fates'[q] = IF q = p THEN f ELSE Fates[q]
  PROVE  Fates' = [Fates EXCEPT ![p] = f]
BY FateFields DEF Mapped

LEMMA FatesStay ==
  ASSUME \A q \in Index : Fates'[q] = Fates[q]
  PROVE  Fates' = Fates
BY FateFields DEF Mapped

\* A promise that was there keeps its fate unless it settles or is resolved with another.
SameFate(p) ==
  /\ p \in Made(host) => p \in Made(host')
  /\ p \in Made(host) => host'.promises[p].state = host.promises[p].state
  /\ p \in Made(host) => host'.promises[p].value = host.promises[p].value
  /\ p \in Made(host) => (Asking(calls'[p], "promise") <=> Asking(calls[p], "promise"))
  /\ p \in Made(host) /\ Asking(calls[p], "promise") => Head(calls'[p]) = Head(calls[p])
  /\ p \notin Made(host) => p \notin Made(host')

LEMMA FateSame ==
  ASSUME NEW p \in Index, SameFate(p)
  PROVE  Fates'[p] = Fates[p]
<1>1. FateOf(host', calls'[p], p) = FateOf(host, calls[p], p)
  BY DEF SameFate, FateOf, Asking
<1> QED BY <1>1, FateFields

LEMMA AlikeSameFate ==
  ASSUME NEW S, Alike(host, host', S), NEW p \in Made(host), p \in Made(host'), p \notin S \/ host.promises[p].state # "pending",
         calls'[p] = calls[p]
  PROVE  SameFate(p)
BY DEF Alike, SameFate

\* What the contract lets happen.
Moves == Contract!ContractNext \/ UNCHANGED Fates

LEMMA MovesCreate ==
  ASSUME NEW p \in Index, Fates[p] = [is |-> "unborn"], Fates' = [Fates EXCEPT ![p] = [is |-> "open"]]
  PROVE  Moves
<1>1. Contract!Create(p)
  BY DEF Contract!Create, Contract!Become, Contract!Unborn, Contract!Open
<1> QED BY <1>1 DEF Moves, Contract!ContractNext

LEMMA MovesSettle ==
  ASSUME NEW p \in Index, NEW s \in {"fulfilled", "rejected"}, NEW v \in AnyValue, Fates[p] = [is |-> "open"],
         Fates' = [Fates EXCEPT ![p] = [is |-> "settled", outcome |-> <<s, v>>]]
  PROVE  Moves
<1>1. Contract!Settle(p, <<s, v>>)
  BY DEF Contract!Settle, Contract!Become, Contract!Settled, Contract!Open
<1>2. <<s, v>> \in {"fulfilled", "rejected"} \X AnyValue
  OBVIOUS
<1> QED BY <1>1, <1>2 DEF Moves, Contract!ContractNext

LEMMA MovesFollow ==
  ASSUME NEW p \in Index, NEW q \in Index, q # p, Fates[p] = [is |-> "open"], Fates[q].is # "unborn",
         Fates' = [Fates EXCEPT ![p] = [is |-> "following", promise |-> q]]
  PROVE  Moves
<1>1. Fates[q] # [is |-> "unborn"]
  OBVIOUS
<1>2. Contract!Follow(p, q)
  BY <1>1 DEF Contract!Follow, Contract!Become, Contract!Following, Contract!Open, Contract!Unborn
<1> QED BY <1>2 DEF Moves, Contract!ContractNext

LEMMA MovesCarry ==
  ASSUME NEW p \in Index, NEW q \in Index, Fates[p] = [is |-> "following", promise |-> q], Fates[q].is = "settled",
         Fates' = [Fates EXCEPT ![p] = Fates[q]]
  PROVE  Moves
<1>1. Contract!Carry(p, q)
  BY DEF Contract!Carry, Contract!Become, Contract!Following
<1> QED BY <1>1 DEF Moves, Contract!ContractNext

LEMMA MovesCreateSettled ==
  ASSUME NEW p \in Index, NEW q \in Index, q # p, NEW s \in {"fulfilled", "rejected"}, NEW v \in AnyValue,
         Fates[p] = [is |-> "unborn"], Fates[q].is = "unborn" => Fates[q] = [is |-> "unborn"],
         \A i \in Index : Fates'[i] = IF i = p THEN [is |-> "settled", outcome |-> <<s, v>>]
                                      ELSE IF i = q /\ Fates[q].is = "unborn" THEN [is |-> "open"]
                                      ELSE Fates[i]
  PROVE  Moves
<1> DEFINE o == <<s, v>>
<1>1. o \in {"fulfilled", "rejected"} \X AnyValue
  OBVIOUS
<1>2. Fates[q] = [is |-> "unborn"] <=> Fates[q].is = "unborn"
  OBVIOUS
<1> HIDE DEF o
<1>3. Fates' = [Fates EXCEPT ![p] = Contract!Settled(o),
                             ![q] = IF @ = Contract!Unborn THEN Contract!Open ELSE @]
  BY <1>2, FateFields DEF Mapped, Contract!Settled, Contract!Unborn, Contract!Open, o
<1>4. Contract!CreateSettled(p, o, q)
  BY <1>3 DEF Contract!CreateSettled, Contract!Unborn
<1> QED BY <1>1, <1>4 DEF Moves, Contract!ContractNext

LEMMA MadeIndex ==
  ASSUME Shape, Follow
  PROVE  /\ Made(host) \subseteq Index /\ Newest(host) \in Nat /\ Made(host) = 1 .. Newest(host)
         /\ CallsOK(calls, Newest(host)) /\ HostOK(host, Items(combinators))
<1>1. /\ Newest(host) \in Nat /\ Made(host) = 1 .. Newest(host) /\ CallsOK(calls, Newest(host))
      /\ HostOK(host, Items(combinators)) /\ Newest(host) <= MaxPromises /\ MaxPromises \in Nat
  BY ShapeFields, PromiseAssumption DEF Follow
<1> QED BY <1>1 DEF Index

\* The fates of one that is pending, and of one that is not.
LEMMA FateOpen ==
  ASSUME NEW p \in Index, p \in Made(host), host.promises[p].state = "pending", ~Asking(calls[p], "promise")
  PROVE  Fates[p] = [is |-> "open"]
<1>1. FateOf(host, calls[p], p) = [is |-> "open"]
  BY DEF FateOf, Asking
<1> QED BY <1>1, FateFields

LEMMA FateFollowing ==
  ASSUME NEW p \in Index, p \in Made(host), host.promises[p].state = "pending", Asking(calls[p], "promise")
  PROVE  Fates[p] = [is |-> "following", promise |-> Head(calls[p]).promise]
<1>1. FateOf(host, calls[p], p) = [is |-> "following", promise |-> Head(calls[p]).promise]
  BY DEF FateOf, Asking
<1> QED BY <1>1, FateFields

LEMMA FateSettled ==
  ASSUME NEW p \in Index, p \in Made(host), host.promises[p].state # "pending"
  PROVE  Fates[p] = [is |-> "settled", outcome |-> <<host.promises[p].state, host.promises[p].value>>]
<1>1. FateOf(host, calls[p], p) = [is |-> "settled", outcome |-> <<host.promises[p].state, host.promises[p].value>>]
  BY DEF FateOf
<1> QED BY <1>1, FateFields

LEMMA FateUnborn ==
  ASSUME NEW p \in Index
  PROVE  /\ p \notin Made(host) => Fates[p] = [is |-> "unborn"]
         /\ p \in Made(host) => Fates[p].is # "unborn"
<1>1. p \notin Made(host) => FateOf(host, calls[p], p) = [is |-> "unborn"]
  BY DEF FateOf
<1>2. p \in Made(host) => FateOf(host, calls[p], p).is # "unborn"
  BY DEF FateOf
<1> QED BY <1>1, <1>2, FateFields

(* A step after which nothing has another fate. *)
LEMMA SimSame ==
  ASSUME \A p \in Index : SameFate(p)
  PROVE  Moves
BY FateSame, FatesStay DEF Moves

LEMMA SimAlike ==
  ASSUME Shape, Follow, NEW S, Alike(host, host', S), Made(host') = Made(host), \A p \in S : host.promises[p].state # "pending",
         \A p \in Made(host) : calls'[p] = calls[p]
  PROVE  Moves
<1>1. ASSUME NEW p \in Index PROVE SameFate(p)
  <2>1. CASE p \in Made(host)
    BY <2>1, AlikeSameFate
  <2>2. CASE p \notin Made(host)
    BY <2>2 DEF SameFate
  <2> QED BY <2>1, <2>2
<1> QED BY <1>1, SimSame

\* Only p has another one.
SameBut(p) == \A q \in Made(host) : q # p => SameFate(q)

LEMMA SimBut ==
  ASSUME Shape, Follow, NEW p \in Made(host), Made(host') = Made(host), SameBut(p), NEW f, Fates'[p] = f
  PROVE  Fates' = [Fates EXCEPT ![p] = f]
<1>1. ASSUME NEW q \in Index, q # p PROVE Fates'[q] = Fates[q]
  <2>1. CASE q \in Made(host)
    BY <1>1, <2>1, FateSame DEF SameBut
  <2>2. CASE q \notin Made(host)
    BY <2>2, FateSame DEF SameFate
  <2> QED BY <2>1, <2>2
<1> QED BY <1>1, FatesMove

(* p, open, settles. *)
LEMMA SimSettles ==
  ASSUME Shape, Follow, NEW p \in Made(host), Made(host') = Made(host), SameBut(p),
         host.promises[p].state = "pending", ~Asking(calls[p], "promise"),
         NEW s \in {"fulfilled", "rejected"}, NEW v \in AnyValue,
         host'.promises[p].state = s, host'.promises[p].value = v
  PROVE  Moves
<1>1. p \in Index
  BY MadeIndex
<1>2. Fates[p] = [is |-> "open"]
  BY <1>1, FateOpen
<1>3. FateOf(host', calls'[p], p) = [is |-> "settled", outcome |-> <<s, v>>]
  BY DEF FateOf
<1>4. Fates'[p] = [is |-> "settled", outcome |-> <<s, v>>]
  BY <1>1, <1>3, FateFields
<1>5. Fates' = [Fates EXCEPT ![p] = [is |-> "settled", outcome |-> <<s, v>>]]
  BY <1>4, SimBut
<1> QED BY <1>1, <1>2, <1>5, MovesSettle

\* p, open, is resolved with another promise.
LEMMA SimFollows ==
  ASSUME Shape, Follow, NEW p \in Made(host), Made(host') = Made(host), SameBut(p),
         host.promises[p].state = "pending", ~Asking(calls[p], "promise"),
         NEW q \in Made(host), q # p, host'.promises[p].state = "pending",
         Asking(calls'[p], "promise"), Head(calls'[p]).promise = q
  PROVE  Moves
<1>1. p \in Index /\ q \in Index
  BY MadeIndex
<1>2. Fates[p] = [is |-> "open"] /\ Fates[q].is # "unborn"
  BY <1>1, FateOpen, FateUnborn
<1>3. FateOf(host', calls'[p], p) = [is |-> "following", promise |-> q]
  BY DEF FateOf, Asking
<1>4. Fates'[p] = [is |-> "following", promise |-> q]
  BY <1>1, <1>3, FateFields
<1>5. Fates' = [Fates EXCEPT ![p] = [is |-> "following", promise |-> q]]
  BY <1>4, SimBut
<1> QED BY <1>1, <1>2, <1>5, MovesFollow

LEMMA AskedSameBut ==
  ASSUME Shape, NEW p \in Made(host), Alike(host, host', {p}), Made(host') = Made(host),
         \A q \in Made(host) : q # p => calls'[q] = calls[q]
  PROVE  SameBut(p)
BY AlikeSameFate DEF SameBut

(* Something is asked of p, the first time. *)
LEMMA SimSolves ==
  ASSUME MaxCalls <= 1, Shape, Follow, NEW p, NEW x, Solves(p, x)
  PROVE  Moves
<1>1. /\ Does({p}) /\ Made(host') = Made(host) /\ p \in Made(host) /\ x \in Resolution
      /\ Resolvable(x, Newest(host)) /\ calls' = Asked(calls, p, x) /\ host' = Resolve(host, p, x)
      /\ (host.promises[p].state = "pending" => Outcome(host, host', p, x))
  BY DoesAsks DEF Solves, Asks, Resolvable
<1>2. Newest(host) \in Nat /\ Made(host) = 1 .. Newest(host) /\ CallsOK(calls, Newest(host)) /\ calls[p] = <<>>
  BY <1>1, ShapeFields DEF Solves
<1>3. calls'[p] # <<>> /\ Head(calls'[p]) = x /\ \A q \in Made(host) : q # p => calls'[q] = calls[q]
  BY <1>1, <1>2, AskedFields, AskedFirst
<1>4. Alike(host, host', {p})
  BY <1>1 DEF Does, Effect
<1>5. SameBut(p)
  BY <1>1, <1>3, <1>4, AskedSameBut
<1>6. CASE host.promises[p].state # "pending"
  <2>1. FateOf(host', calls'[p], p) = FateOf(host, calls[p], p)
    <3>1. host'.promises[p].state = host.promises[p].state /\ host'.promises[p].value = host.promises[p].value
      BY <1>1, <1>4, <1>6 DEF Alike
    <3> QED BY <1>1, <1>6, <3>1 DEF FateOf
  <2>2. p \in Index
    BY <1>1, MadeIndex
  <2>3. Fates'[p] = Fates[p]
    BY <2>1, <2>2, FateFields
  <2>4. Fates' = [Fates EXCEPT ![p] = Fates[p]]
    BY <1>1, <1>5, <2>3, SimBut
  <2>5. Fates' = Fates
    BY <2>4, FateFields DEF Mapped
  <2> QED BY <2>5 DEF Moves
<1>7. CASE host.promises[p].state = "pending"
  <2>1. ~Asking(calls[p], "promise")
    BY <1>2 DEF Asking
  <2>2. Outcome(host, host', p, x)
    BY <1>1, <1>7
  <2>3. x.is \in {"plain", "promise", "thenable", "reason"} /\ x.value \in AnyValue /\ x.promise \in Nat
        /\ (x.is = "promise" => x.promise \in Made(host))
    BY <1>1, <1>2 DEF Resolution, Resolvable
  <2>4. ASSUME NEW s \in {"fulfilled", "rejected"}, NEW v \in AnyValue, SettledTo(host, host', p, s, v) PROVE Moves
    <3>1. host'.promises[p].state = s /\ host'.promises[p].value = v
      BY <2>4, SettledCell DEF SettledTo
    <3> QED BY <1>1, <1>5, <1>7, <2>1, <3>1, SimSettles
  <2>5. ChainingCycle \in AnyValue
    BY DEF AnyValue
  <2>6. CASE x.is \in {"plain", "reason"} \/ (x.is = "promise" /\ x.promise = p)
    BY <2>2, <2>3, <2>4, <2>5, <2>6 DEF Outcome
  <2>7. CASE x.is = "promise" /\ x.promise # p
    <3>1. host'.promises[p].state = "pending"
      BY <1>7, <2>2, <2>7 DEF Outcome
    <3>2. Asking(calls'[p], "promise") /\ Head(calls'[p]).promise = x.promise
      BY <1>3, <2>7 DEF Asking
    <3> QED BY <1>1, <1>5, <1>7, <2>1, <2>3, <2>7, <3>1, <3>2, SimFollows
  <2>8. CASE x.is = "thenable"
    <3>1. host'.promises = host.promises
      BY <2>2, <2>8 DEF Outcome
    <3>2. ~Asking(calls'[p], "promise")
      BY <1>3, <2>8 DEF Asking
    <3>3. SameFate(p)
      BY <1>1, <2>1, <3>1, <3>2 DEF SameFate
    <3>4. ASSUME NEW q \in Index PROVE SameFate(q)
      <4>1. q \notin Made(host) => SameFate(q)
        BY <1>1 DEF SameFate
      <4> QED BY <1>5, <3>3, <4>1 DEF SameBut
    <3> QED BY <3>4, SimSame
  <2> QED BY <2>3, <2>6, <2>7, <2>8
<1> QED BY <1>6, <1>7

(* A reaction or a combinator settles p, unless it was settled. *)
LEMMA SimGiven ==
  ASSUME Shape, Follow, NEW kind, Take(kind), NEW p \in Made(host), ~Asking(calls[p], "promise"),
         NEW x \in Resolution, Resolvable(x, Newest(host)), x.is \in {"plain", "reason"},
         host' = Resolve(Popped, p, x), calls' = Asked(calls, p, x)
  PROVE  Moves
<1>1. Does({p}) /\ Made(host') = Made(host) /\ SettlesPlainly(Pop(host), host', p, x)
  BY DoesPass
<1>2. /\ Newest(host) \in Nat /\ Made(host) = 1 .. Newest(host) /\ CallsOK(calls, Newest(host))
      /\ Pop(host).promises = host.promises /\ host \in Host
  <2>1. host \in Host
    BY ShapeFields, HostFields
  <2> QED BY <2>1, ShapeFields DEF Pop, Host
<1>3. /\ calls'[p] # <<>> /\ Head(calls'[p]) = (IF calls[p] = <<>> THEN x ELSE Head(calls[p]))
      /\ \A q \in Made(host) : q # p => calls'[q] = calls[q]
  BY <1>2, AskedFields, AskedFirst
<1>4. SameBut(p) /\ Alike(host, host', {p})
  BY <1>1, <1>3, AskedSameBut DEF Does, Effect
<1>5. CASE host.promises[p].state = "pending"
  <2>1. /\ host'.promises[p].state = IF x.is = "plain" THEN "fulfilled" ELSE "rejected"
        /\ host'.promises[p].value = x.value /\ x.value \in AnyValue
    BY <1>1, <1>2, <1>5 DEF SettlesPlainly, Resolution
  <2> QED BY <1>1, <1>4, <1>5, <2>1, SimSettles
<1>6. CASE host.promises[p].state # "pending"
  <2>1. host'.promises[p].state = host.promises[p].state /\ host'.promises[p].value = host.promises[p].value
    BY <1>4, <1>6 DEF Alike
  <2>2. ~Asking(calls'[p], "promise")
    BY <1>3 DEF Asking
  <2>3. SameFate(p)
    BY <1>1, <2>1, <2>2 DEF SameFate
  <2>4. ASSUME NEW q \in Index PROVE SameFate(q)
    <3>1. q \notin Made(host) => SameFate(q)
      BY <1>1 DEF SameFate
    <3> QED BY <1>4, <2>3, <3>1 DEF SameBut
  <2> QED BY <2>4, SimSame
<1> QED BY <1>5, <1>6

LEMMA JobOut ==
  ASSUME Shape, NEW kind, Take(kind), NEW k, NEW t, Holds(Job, k, t)
  PROVE  Out(host, k, t)
<1> DEFINE j == Job
           b == Pop(host)
<1>1. HostOK(host, Items(combinators)) /\ Front(host, b, j) /\ j = Job
  BY Taken DEF Front
<1> HIDE DEF j, b
<1>2. Left(host, b, j)
  BY ONLY <1>1, Pops
<1> QED BY <1>1, <1>2 DEF Left, PoppedOut

LEMMA SimPassThrough ==
  ASSUME Shape, Cont, Follow, PassThrough
  PROVE  Moves
<1> DEFINE p == Job.to
           x == Passed(Job)
<1>1. /\ Take("then") /\ p \in Made(host) /\ Resolvable(x, Newest(host)) /\ x.is \in {"plain", "reason"}
      /\ x \in Resolution /\ host' = Resolve(Popped, p, x) /\ calls' = Asked(calls, p, x)
  BY PassesThrough
<1>2. Holds(Job, 0, p)
  BY <1>1, Taken DEF Holds
<1>3. Out(host, 0, p)
  BY <1>1, <1>2, JobOut
<1>4. ~Asking(calls[p], "promise")
  BY <1>1, <1>3 DEF Cont, ContOK, Asking
<1> HIDE DEF p, x
<1> QED BY <1>1, <1>4, SimGiven

LEMMA SimElement ==
  ASSUME Shape, Follow, RunElement
  PROVE  Moves
<1> DEFINE p == combinators[Job.to].result
<1>1. Take("element") /\ Job.to \in DOMAIN combinators /\ p \in Made(host) /\ ElementAsks(p)
  BY ElementTaken, ElementAsked
<1>2. p \in ResultIds
  BY <1>1 DEF ResultIds
<1> HIDE DEF p
<1>3. ~Asking(calls[p], "promise")
  BY <1>1, <1>2 DEF Follow, FollowOK
<1>4. CASE calls' = calls /\ host' = Popped
  <2>1. Does({}) /\ Made(host') = Made(host)
    BY <1>1, <1>4, DoesPop
  <2> QED BY <1>4, <2>1, SimAlike DEF Does, Effect
<1>5. ASSUME NEW x \in Resolution, x.is \in {"plain", "reason"}, Resolvable(x, Newest(host)),
             calls' = Asked(calls, p, x), host' = Resolve(Popped, p, x)
      PROVE  Moves
  BY <1>1, <1>3, <1>5, SimGiven
<1> QED BY <1>1, <1>4, <1>5 DEF ElementAsks

(* p comes to the outcome of the promise it follows. *)
LEMMA SimAdopt ==
  ASSUME Shape, Follow, RunAdopt
  PROVE  Moves
<1> DEFINE p == Job.to
           q == Job.from
<1>1. Take("adopt") /\ calls' = calls
  BY DEF RunAdopt
<1>2. /\ Job \in Reaction /\ Names(Job, Newest(host), Items(combinators)) /\ Carries(Job, host.promises)
      /\ Job.kind = "adopt" /\ Newest(host) \in Nat /\ Made(host) = 1 .. Newest(host)
  BY <1>1, Taken
<1>3. /\ Alike(host, host', {p}) /\ Made(host') = Made(host) /\ p \in Made(host)
      /\ (host.promises[p].state = "pending" =>
            host'.promises[p].state = Job.state /\ host'.promises[p].value = Job.value)
  BY DoesAdopt DEF BringsOutcome
<1>4. /\ q \in Made(host) /\ q \in Nat /\ Job.state # "pending"
      /\ Job.state = host.promises[q].state /\ Job.value = host.promises[q].value
  BY <1>2 DEF Names, Carries
<1>5. Holds(Job, 5 + q, p)
  <2>1. 5 + q \in Nat /\ 5 + q > 4 /\ (5 + q) - 5 = q
    BY <1>4
  <2> QED BY <1>2, <2>1 DEF Holds
<1>6. Out(host, 5 + q, p)
  BY <1>1, <1>5, JobOut
<1> HIDE DEF p, q
<1>7. SameBut(p)
  BY <1>1, <1>3, AskedSameBut
<1>8. CASE host.promises[p].state # "pending"
  BY <1>1, <1>3, <1>8, SimAlike
<1>9. CASE host.promises[p].state = "pending"
  <2>1. Asking(calls[p], "promise") /\ Head(calls[p]).promise = q
    BY <1>3, <1>4, <1>6 DEF Follow, FollowOK
  <2>2. p \in Index /\ q \in Index
    BY <1>3, <1>4, MadeIndex
  <2>3. Fates[p] = [is |-> "following", promise |-> q]
    BY <1>3, <1>9, <2>1, <2>2, FateFollowing
  <2>4. Fates[q] = [is |-> "settled", outcome |-> <<Job.state, Job.value>>]
    BY <1>4, <2>2, FateSettled
  <2>5. FateOf(host', calls'[p], p) = [is |-> "settled", outcome |-> <<Job.state, Job.value>>]
    BY <1>3, <1>4, <1>9 DEF FateOf
  <2>6. Fates'[p] = Fates[q]
    BY <2>2, <2>4, <2>5, FateFields
  <2>7. Fates' = [Fates EXCEPT ![p] = Fates[q]]
    BY <1>3, <1>7, <2>6, SimBut
  <2>8. Fates[q].is = "settled"
    BY <2>4
  <2> QED BY <2>2, <2>3, <2>7, <2>8, MovesCarry
<1> QED BY <1>8, <1>9

(* A thenable takes over, and can be asked again. *)
LEMMA SimThenable ==
  ASSUME Shape, Follow, RunThenable
  PROVE  Moves
<1> DEFINE p == Job.to
<1>1. Made(host') = Made(host) /\ p \in Made(host) /\ Exposed(host, host', p)
  BY DoesExpose
<1>2. /\ Take("thenable") /\ calls' = [calls EXCEPT ![p] = <<>>]
  BY DEF RunThenable
<1>3. Job.kind = "thenable" /\ CallsOK(calls, Newest(host)) /\ Made(host) = 1 .. Newest(host)
  BY <1>2, Taken
<1>4. Holds(Job, 4, p)
  BY <1>3 DEF Holds
<1>5. Out(host, 4, p)
  BY <1>2, <1>4, JobOut
<1> HIDE DEF p
<1>6. ~Asking(calls[p], "promise")
  BY <1>1, <1>5 DEF Follow, FollowOK, Asking
<1>7. calls'[p] = <<>> /\ \A q \in Made(host) : q # p => calls'[q] = calls[q]
  BY <1>1, <1>2, <1>3 DEF CallsOK
<1>8. ASSUME NEW q \in Index PROVE SameFate(q)
  <2>1. q \in Made(host) => (Asking(calls'[q], "promise") <=> Asking(calls[q], "promise"))
    BY <1>6, <1>7 DEF Asking
  <2>2. q \in Made(host) /\ Asking(calls[q], "promise") => calls'[q] = calls[q]
    BY <1>6, <1>7
  <2> QED BY <1>1, <2>1, <2>2 DEF Exposed, SameFate
<1> QED BY <1>8, SimSame

(* Promises are created. *)
LEMMA SimCreates ==
  ASSUME Shape, Follow, NEW q, q = Newest(host) + 1, Made(host') = 1 .. q, q <= MaxPromises, Alike(host, host', {}),
         host'.promises[q].state = "pending", calls'[q] = <<>>, \A i \in Made(host) : calls'[i] = calls[i]
  PROVE  Moves
<1>1. /\ Newest(host) \in Nat /\ Made(host) = 1 .. Newest(host) /\ MaxPromises \in Nat
  BY MadeIndex, PromiseAssumption
<1>2. q \in Index /\ q \notin Made(host) /\ q \in Made(host') /\ \A i : i \in Made(host') <=> i \in Made(host) \/ i = q
  BY <1>1 DEF Index
<1>3. Fates[q] = [is |-> "unborn"]
  BY <1>2, FateUnborn
<1>4. FateOf(host', calls'[q], q) = [is |-> "open"]
  BY <1>2 DEF FateOf
<1>5. ASSUME NEW i \in Index, i # q PROVE Fates'[i] = Fates[i]
  <2>1. CASE i \in Made(host)
    BY <1>2, <2>1, AlikeSameFate, FateSame
  <2>2. CASE i \notin Made(host)
    BY <1>2, <1>5, <2>2, FateSame DEF SameFate
  <2> QED BY <2>1, <2>2
<1>6. Fates'[q] = [is |-> "open"]
  BY <1>2, <1>4, FateFields
<1>7. Fates' = [Fates EXCEPT ![q] = [is |-> "open"]]
  <2> DEFINE f == [is |-> "open"]
  <2>1. Fates'[q] = f
    BY <1>6
  <2> HIDE DEF f
  <2>2. \A i \in Index : Fates'[i] = IF i = q THEN f ELSE Fates[i]
    BY ONLY <1>5, <2>1
  <2>3. Fates' = [Fates EXCEPT ![q] = f]
    BY ONLY <2>2, FatesMove
  <2> QED BY <2>3 DEF f
<1> QED BY <1>2, <1>3, <1>7, MovesCreate

LEMMA SimNewPromise ==
  ASSUME Shape, Follow, NewPromise
  PROVE  Moves
<1> DEFINE m == Newest(host)
           q == m + 1
<1>1. /\ Does({}) /\ Newest(host') = q /\ host'.promises[q].state = "pending"
  BY DoesNewPromise
<1>2. /\ m \in Nat /\ Made(host) = 1 .. m /\ CallsOK(calls, m) /\ HostOK(host', Items(combinators))
      /\ Alike(host, host', {})
  BY <1>1, ShapeFields DEF Does, Effect
<1>3. Made(host') = 1 .. q
  BY <1>1, <1>2, HostFields
<1>4. /\ calls' = Append(calls, <<>>) /\ <<>> \in Seq(Resolution) /\ q <= MaxPromises
  BY DEF NewPromise, Room, Newest
<1>5. q = Newest(host) + 1
  OBVIOUS
<1> HIDE DEF m
<1>6. (\A i \in 1 .. m : calls'[i] = calls[i]) /\ calls'[q] = <<>>
  BY <1>2, <1>4, AppendedFields
<1> HIDE DEF q
<1> QED BY <1>1, <1>2, <1>3, <1>4, <1>5, <1>6, SimCreates

LEMMA SimPromiseThen ==
  ASSUME Shape, Follow, NEW p \in Ids, NEW f \in BOOLEAN, NEW r \in BOOLEAN, PromiseThen(p, f, r)
  PROVE  Moves
<1> DEFINE m == Newest(host)
           q == m + 1
<1>1. Does({}) /\ Newest(host') = q /\ host'.promises[q].state = "pending"
  BY DoesThen DEF Fresh
<1>2. /\ m \in Nat /\ Made(host) = 1 .. m /\ CallsOK(calls, m) /\ HostOK(host', Items(combinators))
      /\ Alike(host, host', {})
  BY <1>1, ShapeFields DEF Does, Effect
<1>3. Made(host') = 1 .. q
  BY <1>1, <1>2, HostFields
<1>4. /\ calls' = Append(calls, <<>>) /\ <<>> \in Seq(Resolution) /\ q <= MaxPromises
  BY DEF PromiseThen, Room, Newest
<1>5. q = Newest(host) + 1
  OBVIOUS
<1> HIDE DEF m
<1>6. (\A i \in 1 .. m : calls'[i] = calls[i]) /\ calls'[q] = <<>>
  BY <1>2, <1>4, AppendedFields
<1> HIDE DEF q
<1> QED BY <1>1, <1>2, <1>3, <1>4, <1>5, <1>6, SimCreates

LEMMA SimCombine ==
  ASSUME Shape, Follow, NEW mode \in Mode, NEW p \in Ids, NEW r \in Ids, Combine(mode, <<p, r>>)
  PROVE  Moves
<1> DEFINE m == Newest(host)
           q == m + 1
<1>1. /\ Effect(host, host', Items(combinators'), {}) /\ Newest(host') = q /\ host'.promises[q].state = "pending"
  BY DoesCombine DEF Fresh
<1>2. /\ m \in Nat /\ Made(host) = 1 .. m /\ CallsOK(calls, m) /\ Alike(host, host', {})
  BY <1>1, ShapeFields DEF Effect
<1>3. Made(host') = 1 .. q
  BY <1>1, HostFields DEF Effect
<1>4. calls' = Append(calls, <<>>) /\ <<>> \in Seq(Resolution) /\ q <= MaxPromises
  BY DEF Combine, Room, Newest
<1>5. q = Newest(host) + 1
  OBVIOUS
<1> HIDE DEF m
<1>6. (\A i \in 1 .. m : calls'[i] = calls[i]) /\ calls'[q] = <<>>
  BY <1>2, <1>4, AppendedFields
<1> HIDE DEF q
<1> QED BY <1>1, <1>2, <1>3, <1>4, <1>5, <1>6, SimCreates

\* The promise p of an awaited value v, for the async function that settles q.
LEMMA SimAwaitsValue ==
  ASSUME Shape, Follow, NEW q \in Index, NEW p, q # p, p \in Index, p \notin Made(host),
         \A i : i \in Made(host') <=> i \in Made(host) \/ i = p \/ i = q,
         Alike(host, host', {}), NEW v \in AnyValue,
         host'.promises[p].state = "fulfilled", host'.promises[p].value = v,
         q \notin Made(host) => host'.promises[q].state = "pending" /\ calls'[q] = <<>>,
         \A i \in Made(host) : calls'[i] = calls[i]
  PROVE  Moves
<1>1. Fates[p] = [is |-> "unborn"] /\ (Fates[q].is = "unborn" => Fates[q] = [is |-> "unborn"] /\ q \notin Made(host))
  BY FateUnborn
<1>2. Fates'[p] = [is |-> "settled", outcome |-> <<"fulfilled", v>>]
  <2>1. FateOf(host', calls'[p], p) = [is |-> "settled", outcome |-> <<"fulfilled", v>>]
    BY DEF FateOf
  <2> QED BY <2>1, FateFields
<1>3. q \notin Made(host) => Fates'[q] = [is |-> "open"] /\ Fates[q].is = "unborn"
  <2>1. q \notin Made(host) => FateOf(host', calls'[q], q) = [is |-> "open"]
    BY DEF FateOf
  <2> QED BY <2>1, FateFields, FateUnborn
<1>4. ASSUME NEW i \in Index, i # p, i # q \/ q \in Made(host) PROVE Fates'[i] = Fates[i]
  <2>1. CASE i \in Made(host)
    BY <2>1, AlikeSameFate, FateSame
  <2>2. CASE i \notin Made(host)
    BY <1>4, <2>2, FateSame DEF SameFate
  <2> QED BY <2>1, <2>2
<1> DEFINE settled == [is |-> "settled", outcome |-> <<"fulfilled", v>>]
           open == [is |-> "open"]
<1>5. ASSUME NEW i \in Index
      PROVE  Fates'[i] = IF i = p THEN settled ELSE IF i = q /\ Fates[q].is = "unborn" THEN open ELSE Fates[i]
  <2>1. Fates'[p] = settled /\ (q \notin Made(host) => Fates'[q] = open /\ Fates[q].is = "unborn")
    BY <1>2, <1>3
  <2> HIDE DEF settled, open
  <2>2. CASE i = p
    BY <2>1, <2>2
  <2>3. CASE i # p /\ i = q /\ q \notin Made(host)
    BY <2>1, <2>3
  <2>4. CASE i # p /\ (i # q \/ q \in Made(host))
    BY <1>1, <1>4, <2>4
  <2> QED BY <2>2, <2>3, <2>4
<1> QED BY <1>1, <1>5, MovesCreateSettled

LEMMA SimCallAsync ==
  ASSUME Shape, Follow, NEW x \in Awaitable, CallAsync(x)
  PROVE  Moves
<1> DEFINE m == Newest(host)
           q == m + 1
<1>1. /\ Does({}) /\ Newest(host') = q + AwaitRoom(x) /\ AwaitedValue(host', x) /\ host'.promises[q].state = "pending"
  BY DoesAsync DEF Fresh
<1>2. /\ m \in Nat /\ Made(host) = 1 .. m /\ HostOK(host', Items(combinators))
      /\ Alike(host, host', {}) /\ Awaited(host, x) /\ MaxPromises \in Nat
  BY <1>1, ShapeFields, AwaitableOK, PromiseAssumption DEF Does, Effect
<1>3. Made(host') = 1 .. q + AwaitRoom(x)
  BY <1>1, <1>2, HostFields
<1>4. AsyncCalls(m) /\ calls'[q] = <<>> /\ Newest(host') <= MaxPromises
  BY CallAsyncCalls
<1>5. q = Newest(host) + 1 /\ \A i \in Made(host) : calls'[i] = calls[i]
  BY <1>2, <1>4 DEF AsyncCalls
<1> HIDE DEF m
<1>6. CASE x.is = "promise"
  <2>1. Made(host') = 1 .. q /\ q <= MaxPromises
    BY <1>1, <1>2, <1>3, <1>4, <1>6 DEF AwaitRoom
  <2> HIDE DEF q
  <2> QED BY <1>1, <1>2, <1>4, <1>5, <2>1, SimCreates
<1>7. CASE x.is # "promise"
  <2>1. /\ Newest(host') = q + 1 /\ Made(host') = 1 .. q + 1 /\ x.is = "plain" /\ x \in Resolution
    BY <1>1, <1>2, <1>3, <1>7 DEF AwaitRoom, Awaited
  <2>2. host'.promises[q + 1].state = "fulfilled" /\ host'.promises[q + 1].value = x.value /\ x.value \in AnyValue
    BY <1>1, <2>1 DEF AwaitedValue, Resolution
  <2>3. q \in Index /\ q + 1 \in Index /\ q + 1 # q /\ q + 1 \notin Made(host)
    BY <1>2, <1>4, <2>1 DEF Index
  <2>4. \A i : i \in Made(host') <=> i \in Made(host) \/ i = q + 1 \/ i = q
    BY <1>2, <2>1
  <2> DEFINE p == q + 1
  <2> HIDE DEF p, q
  <2> QED BY <1>1, <1>2, <1>4, <1>5, <2>2, <2>3, <2>4, SimAwaitsValue
<1> QED BY <1>6, <1>7

LEMMA SimAwaitAgain ==
  ASSUME Shape, Follow, NEW x \in Awaitable, AwaitAgain(x)
  PROVE  Moves
<1> DEFINE m == Newest(host)
           q == running.to
<1>1. /\ Does({}) /\ Newest(host') = m + AwaitRoom(x) /\ AwaitedValue(host', x)
  BY DoesAwaitAgain
<1>2. /\ m \in Nat /\ Made(host) = 1 .. m /\ HostOK(host', Items(combinators)) /\ Made(host) \subseteq Index
      /\ Alike(host, host', {}) /\ Awaited(host, x) /\ MaxPromises \in Nat /\ q \in Made(host)
  BY <1>1, ShapeFields, MadeIndex, AwaitableOK, PromiseAssumption DEF Does, Effect, AwaitAgain, Rest
<1>3. Made(host') = 1 .. m + AwaitRoom(x)
  BY <1>1, <1>2, HostFields
<1>4. AsyncCalls(m) /\ Newest(host') <= MaxPromises
  BY AwaitAgainCalls DEF Follow
<1>5. \A i \in Made(host) : calls'[i] = calls[i]
  BY <1>2, <1>4 DEF AsyncCalls
<1> HIDE DEF m, q
<1>6. CASE x.is = "promise"
  <2>1. Made(host') = Made(host)
    BY <1>1, <1>2, <1>3, <1>6 DEF AwaitRoom
  <2> QED BY <1>2, <1>5, <2>1, SimAlike
<1>7. CASE x.is # "promise"
  <2>1. /\ Newest(host') = m + 1 /\ Made(host') = 1 .. m + 1 /\ x.is = "plain" /\ x \in Resolution
    BY <1>1, <1>2, <1>3, <1>7 DEF AwaitRoom, Awaited
  <2>2. host'.promises[m + 1].state = "fulfilled" /\ host'.promises[m + 1].value = x.value /\ x.value \in AnyValue
    BY <1>1, <2>1 DEF AwaitedValue, Resolution
  <2>3. q \in Index /\ m + 1 \in Index /\ m + 1 # q /\ m + 1 \notin Made(host)
    BY <1>2, <1>4, <2>1 DEF Index
  <2>4. \A i : i \in Made(host') <=> i \in Made(host) \/ i = m + 1 \/ i = q
    BY <1>2, <2>1
  <2> QED BY <1>2, <1>5, <2>2, <2>3, <2>4, SimAwaitsValue
<1> QED BY <1>6, <1>7

(* The other steps. *)
LEMMA SimOther ==
  ASSUME Shape, Follow, \/ RunSubscribe \/ RunHandler \/ RunAwait \/ TakeRejections \/ Report
                        \/ Return \/ Throw \/ Drained \/ Reported \/ Macrotask \/ UNCHANGED vars
  PROVE  Moves
<1>1. ASSUME NEW S, Alike(host, host', S), S = {}, Made(host') = Made(host), calls' = calls PROVE Moves
  BY <1>1, SimAlike
<1>2. ASSUME RunSubscribe PROVE Moves
  BY <1>1, <1>2, DoesSubscribe DEF RunSubscribe, Does, Effect
<1>3. ASSUME NEW kind, Take(kind), host' = Popped, UNCHANGED <<combinators, calls>> PROVE Moves
  BY <1>1, <1>3, DoesPop DEF Does, Effect
<1>4. ASSUME TakeRejections PROVE Moves
  BY <1>1, <1>4, DoesTake DEF TakeRejections
<1>5. ASSUME Report PROVE Moves
  BY <1>1, <1>5, DoesReport DEF Report, Does, Effect
<1>6. ASSUME UNCHANGED <<host, combinators, calls>> PROVE Moves
  <2>1. Fates' = Fates
    BY <1>6 DEF Fates, Ids, Cells
  <2> QED BY <2>1 DEF Moves
<1>7. ASSUME Return \/ Throw \/ Drained \/ Reported \/ Macrotask \/ UNCHANGED vars PROVE Moves
  BY <1>6, <1>7 DEF Return, Throw, Drained, Reported, Macrotask, vars
<1>8. ASSUME RunHandler \/ RunAwait PROVE Moves
  BY <1>3, <1>8 DEF RunHandler, RunAwait
<1> QED BY <1>2, <1>4, <1>5, <1>7, <1>8

LEMMA SimNext ==
  ASSUME MaxCalls <= 1, Shape, Cont, Follow, [Next]_vars
  PROVE  Moves
<1>1. ASSUME NEW p, NEW x, Solves(p, x) PROVE Moves
  BY <1>1, SimSolves
<1>2. ASSUME JS PROVE Moves
  <2>1. ASSUME NEW p \in Ids, NEW f \in BOOLEAN, NEW r \in BOOLEAN, PromiseThen(p, f, r) PROVE Moves
    BY <2>1, SimPromiseThen
  <2>2. ASSUME NEW x \in Awaitable, CallAsync(x) \/ AwaitAgain(x) PROVE Moves
    BY <2>2, SimCallAsync, SimAwaitAgain
  <2>3. ASSUME NEW m \in Mode, NEW p \in Ids, NEW q \in Ids, Combine(m, <<p, q>>) PROVE Moves
    BY <2>3, SimCombine
  <2> QED BY <1>1, <1>2, <2>1, <2>2, <2>3, SolvesSteps, SimNewPromise, SimOther DEF JS
<1>3. ASSUME Loop PROVE Moves
  BY <1>3, SimThenable, SimPassThrough, SimElement, SimAdopt, SimOther DEF Loop
<1> QED BY <1>2, <1>3, SimOther DEF Next

LEMMA SimInit ==
  ASSUME Init
  PROVE  Contract!ContractInit
<1>1. Made(host) = {}
  BY DEF Init, Made
<1>2. \A p \in Index : Fates[p] = [is |-> "unborn"]
  BY <1>1, FateUnborn
<1>3. Fates = [p \in Index |-> [is |-> "unborn"]]
  BY <1>2, FateFields DEF Mapped
<1> QED BY <1>3 DEF Contract!ContractInit, Contract!Unborn

\* A promise that is asked one thing at a time keeps the contract: it comes to the
\* outcome it is resolved with, or to that of the promise it is resolved with, and
\* stays there.
THEOREM ContractCorrect ==
  ASSUME MaxCalls <= 1
  PROVE  Spec => ImplementsContract
<1>1. Init => Shape /\ Cont /\ Follow
  BY ShapeInit, ContInit, FollowInit
<1>2. Shape /\ Cont /\ Follow /\ [Next]_vars => Shape' /\ Cont' /\ Follow'
  BY ShapeNext, ContNext, FollowNext
<1>3. Init => Contract!ContractInit
  BY SimInit
<1>4. Shape /\ Cont /\ Follow /\ [Next]_vars => [Contract!ContractNext]_Fates
  BY SimNext DEF Moves
<1> QED BY <1>1, <1>2, <1>3, <1>4, PTL DEF Spec, ImplementsContract, Contract!ContractSpec
=============================================================================
