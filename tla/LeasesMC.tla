------------------------------ MODULE LeasesMC ------------------------------
(* A small instance of Leases for TLC: the timeouts in the proportions of  *)
(* the code, 300, 300 and 60 seconds.                                      *)
EXTENDS Leases

CodePreset == [stale |-> 2, ws |-> 2, pool |-> 1]
=============================================================================
