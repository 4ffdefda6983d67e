-------------------------- MODULE MCOSMessageQueue --------------------------
(* Instances of OSMessageQueue for TLC.                                    *)
EXTENDS OSMessageQueue, TLC

CONSTANTS t1, t2, t3, m1, m2
QueueSymmetry == Permutations({t1, t2, t3}) \union Permutations({m1, m2})
=============================================================================
