------------------------ MODULE MCTrajectoryEmitter ------------------------
(* The event emitter on a small instance, for TLC. *)
EXTENDS TrajectoryEmitter
=============================================================================
