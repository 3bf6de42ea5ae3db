------------------------------ MODULE MCMonitor ------------------------------
(* Instances of Monitor for TLC. *)
EXTENDS Monitor

CONSTANTS t1, k1, k2    \* a token, connection tasks
=============================================================================
