----------------------------- MODULE MCMemCard -----------------------------
(* Instances of MemCard for TLC; the cfgs choose the users and the failures.*)
EXTENDS MemCard
=============================================================================
