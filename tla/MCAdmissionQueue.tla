-------------------------- MODULE MCAdmissionQueue --------------------------
(* The admission queue on small instances, for TLC. *)
EXTENDS AdmissionQueue
=============================================================================
