---------------------------- MODULE MCDvdThread ----------------------------
(* An instance of DvdThread for TLC.                                       *)
EXTENDS DvdThread

CONSTANTS c1, c2, c3
=============================================================================
