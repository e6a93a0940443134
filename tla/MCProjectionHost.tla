------------------------- MODULE MCProjectionHost -------------------------
(* Instances of ProjectionHost.tla for TLC. *)
EXTENDS ProjectionHost

\* WithMaxRestarts(-1): no restart limit.
Unlimited == -1
=============================================================================
