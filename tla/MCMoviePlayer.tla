--------------------------- MODULE MCMoviePlayer ---------------------------
(* Instances of MoviePlayer for TLC.                                       *)
EXTENDS MoviePlayer
=============================================================================
