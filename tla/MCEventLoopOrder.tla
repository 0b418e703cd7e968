-------------------------- MODULE MCEventLoopOrder --------------------------
(* Instances of EventLoopOrder for TLC. *)
EXTENDS EventLoopOrder, TLC

CONSTANTS a, b

MCSymmetry == Permutations(Callback)

\* Any callback may be scheduled in any way.
AnyUse == [f \in Callback |-> Way]
=============================================================================
