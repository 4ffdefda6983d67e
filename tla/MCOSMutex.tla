----------------------------- MODULE MCOSMutex -----------------------------
(* An instance of OSMutex for TLC.                                         *)
EXTENDS OSMutex, TLC

CONSTANTS t1, t2, t3
ThreadSymmetry == Permutations({t1, t2, t3})
=============================================================================
