------------------------- MODULE MCResourceControl -------------------------
(* Instances of ResourceControl for TLC.                                   *)
EXTENDS ResourceControl

CONSTANTS a1, a2

Clothes == [g \in {"clothes"} |-> {"Kmdl", "Zmdl"}]
=============================================================================
