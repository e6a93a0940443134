---------------------------- MODULE MCTaskQueue ----------------------------
(* TaskQueue for TLC: workers are interchangeable. *)
EXTENDS TaskQueue, TLC

OwnerSymmetry == Permutations(Owner)
=============================================================================
