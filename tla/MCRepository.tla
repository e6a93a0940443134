---------------------------- MODULE MCRepository ----------------------------
(* Instances of Repository.tla for TLC. *)
EXTENDS Repository, TLC

\* Callers are interchangeable, and so are the shapes where all are declared.
ClientSymmetry == Permutations(Client)
Symmetry == Permutations(Client) \cup Permutations(Shape)
=============================================================================
