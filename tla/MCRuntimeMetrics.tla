-------------------------- MODULE MCRuntimeMetrics --------------------------
(* The runtime metrics of one backend on small instances, for TLC. *)
EXTENDS RuntimeMetrics
=============================================================================
