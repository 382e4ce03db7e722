----------------------------- MODULE MCSidecar -----------------------------
(* The data plane of a sidecar on a small instance, for TLC. *)
EXTENDS Sidecar

\* A prefix longer than the prompt, and a request without prefix key and
\* without max_tokens.
MCShape ==
    [r1 |-> [input |-> 2, prefix |-> 4, keyed |-> TRUE, output |-> 2],
     r2 |-> [input |-> 3, prefix |-> 0, keyed |-> FALSE, output |-> 0]]
=============================================================================
