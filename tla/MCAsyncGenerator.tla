-------------------------- MODULE MCAsyncGenerator --------------------------
(* Instances of AsyncGenerator for TLC. *)
EXTENDS AsyncGenerator, TLC

CONSTANTS p, q

MCSymmetry == Permutations(External)
=============================================================================
