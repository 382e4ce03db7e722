----------------------------- MODULE MCGateway -----------------------------
(* Instances of Gateway: two backends and one retry. *)
EXTENDS Gateway

MCAttempts == 0..MaxRetries
=============================================================================
