----------------------- MODULE AsyncGeneratorContract -----------------------
(***************************************************************************)
(* What an async generator promises its consumers: requests are answered   *)
(* one by one in the order they were made, and after a request that was    *)
(* answered `done` no later one gets a value.                              *)
(***************************************************************************)
EXTENDS Naturals, Sequences

VARIABLES
  asked,     \* how many requests were made
  answers    \* the outcomes of the first of them

Answer == {"value", "done", "rejected"}
Ended == \E i \in DOMAIN answers : answers[i] = "done"

ContractInit == asked = 0 /\ answers = <<>>

Ask == asked' = asked + 1 /\ UNCHANGED answers

Reply(a) ==
  /\ Len(answers) < asked
  /\ a = "value" => ~Ended
  /\ answers' = Append(answers, a)
  /\ UNCHANGED asked

ContractNext == Ask \/ \E a \in Answer : Reply(a)

ContractSpec == ContractInit /\ [][ContractNext]_<<asked, answers>>
=============================================================================
