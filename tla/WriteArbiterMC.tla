--------------------------- MODULE WriteArbiterMC ---------------------------
(* A small instance of WriteArbiter for TLC: two requests with the same    *)
(* dedup_key and, unless the process ends in between, a third without.     *)
EXTENDS WriteArbiter

SharedKey == [r \in Requests |-> IF r = "r3" THEN NoKey ELSE "k"]

WhatMayHappen ==
    {[requests |-> Requests, faults |-> {}],
     [requests |-> Requests, faults |-> {"beginfail", "execfail"}],
     [requests |-> Requests \ {"r3"}, faults |-> {"commitfail", "stop", "crash"}]}
=============================================================================
