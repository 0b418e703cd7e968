----------------------------- MODULE MCPromises -----------------------------
(* Instances of Promises for TLC. *)
EXTENDS Promises, TLC

CONSTANTS v, w

MCSymmetry == Permutations(Value)
=============================================================================
