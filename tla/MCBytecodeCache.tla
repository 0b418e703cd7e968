-------------------------- MODULE MCBytecodeCache --------------------------
(* Three runs of two binaries.  Two sources collide for the first binary,  *)
(* and the second one's keys are those of a binary that cannot be stat'd.  *)
EXTENDS BytecodeCache, TLC

CONSTANTS r1, r2, r3, s1, s2, k1, k2, k3

Collide(id, s) == IF id = 1 THEN k1 ELSE IF s = s1 THEN k2 ELSE k3
MCKeyOf == [p \in Id \X Source |-> Collide(p[1], p[2])]
MCRuns == Permutations(Run)
============================================================================
