----------------------------- MODULE MCCatchUp -----------------------------
(* Instances of CatchUp.tla for TLC. *)
EXTENDS CatchUp
=============================================================================
