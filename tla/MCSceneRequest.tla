--------------------------- MODULE MCSceneRequest ---------------------------
(* Instances of SceneRequest for TLC.                                      *)
EXTENDS SceneRequest

CONSTANTS s1, s2, room, f1, f2, r1, r2, play, opening
=============================================================================
