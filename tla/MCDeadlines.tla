---------------------------- MODULE MCDeadlines ----------------------------
(* Instances of Deadlines.tla for TLC. *)
EXTENDS Deadlines
=============================================================================
