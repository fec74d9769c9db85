-------------------------- MODULE MCRotatingWriter --------------------------
(* Instances of RotatingWriter for TLC. *)
EXTENDS RotatingWriter

NoFaults == {}
=============================================================================
