------------------------------ MODULE MCRouting ------------------------------
(* Instances of Routing: two backends, the default coefficients of the      *)
(* policy and a prefix worth 20 ms of prefill.                              *)
EXTENDS Routing

=============================================================================
