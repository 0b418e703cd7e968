-------------------------- MODULE PromiseContract --------------------------
(***************************************************************************)
(* What a promise promises: its first resolution decides.  It is fulfilled *)
(* or rejected then and there, or it follows another promise and comes to  *)
(* the outcome of that one; once settled it never changes.                 *)
(***************************************************************************)
EXTENDS Naturals

CONSTANTS Id, Outcome

VARIABLE fate   \* of each promise

Unborn == [is |-> "unborn"]
Open == [is |-> "open"]
Following(q) == [is |-> "following", promise |-> q]
Settled(o) == [is |-> "settled", outcome |-> o]

Fate == {Unborn, Open} \cup {Following(q) : q \in Id} \cup {Settled(o) : o \in Outcome}

ContractInit == fate = [p \in Id |-> Unborn]

Become(p, f) == fate' = [fate EXCEPT ![p] = f]

Create(p) == fate[p] = Unborn /\ Become(p, Open)
Settle(p, o) == fate[p] = Open /\ Become(p, Settled(o))
Follow(p, q) == fate[p] = Open /\ q # p /\ fate[q] # Unborn /\ Become(p, Following(q))
Carry(p, q) == fate[p] = Following(q) /\ fate[q].is = "settled" /\ Become(p, fate[q])

\* Awaiting a plain value creates a promise already settled, and may be the first
\* thing the body of another new one does.
CreateSettled(p, o, q) ==
  /\ fate[p] = Unborn
  /\ fate' = [fate EXCEPT ![p] = Settled(o), ![q] = IF @ = Unborn THEN Open ELSE @]

ContractNext ==
  \E p \in Id :
    \/ Create(p)
    \/ \E o \in Outcome : Settle(p, o)
    \/ \E q \in Id : Follow(p, q) \/ Carry(p, q)
    \/ \E q \in Id, o \in Outcome : CreateSettled(p, o, q)

ContractSpec == ContractInit /\ [][ContractNext]_fate
=============================================================================
