----------------------------- MODULE ServicesMC -----------------------------
(* Small instances of Services for TLC. *)
EXTENDS Services

(* A pool within its limits, and one asked to start with more than that. *)
SomeConfigs == {[min |-> 1, max |-> 2], [min |-> 2, max |-> 0]}

(* The default, a short life and none at all *)
SomeTtls == {0, 1, -1}

(* The timeouts in the proportions of the code, 300, 300 and 60 seconds *)
CodePreset == [stale |-> 2, ws |-> 2, pool |-> 1]
=============================================================================
