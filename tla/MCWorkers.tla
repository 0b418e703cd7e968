----------------------------- MODULE MCWorkers -----------------------------
(* Instances of Workers for TLC. *)
EXTENDS Workers, TLC

CONSTANTS a, b

MCSymmetry == Permutations(Worker)
=============================================================================
