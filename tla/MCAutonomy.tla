----------------------------- MODULE MCAutonomy -----------------------------
(* Autonomy with the acknowledgements it builds. *)
EXTENDS Autonomy

MCStatuses == {1} \X {0, 1}
=============================================================================
