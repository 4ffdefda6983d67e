---------------------------- MODULE MCProcessTree ----------------------------
(* The abstract tree with two nodes and two actors.                        *)
EXTENDS ProcessTree, TLC

CONSTANTS scene, room, a, b
Symmetry == Permutations({scene, room}) \union Permutations({a, b})
==============================================================================
