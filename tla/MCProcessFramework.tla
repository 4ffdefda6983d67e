------------------------- MODULE MCProcessFramework -------------------------
(* Instances of ProcessFramework for TLC: a scene with rooms and actors.   *)
EXTENDS ProcessFrameworkTree, TLC

CONSTANTS scene, room, a, b, r1, r2
RequestSymmetry == Permutations({r1, r2})
=============================================================================
