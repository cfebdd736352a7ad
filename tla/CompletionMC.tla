---------------------------- MODULE CompletionMC ----------------------------
(* Small instances of Completion for TLC: two or three jobs on one queue.  *)
EXTENDS Completion

OneQueue     == [j \in Jobs |-> "q"]
SamePriority == [j \in Jobs |-> 5]
OneAttempt   == [j \in Jobs |-> 1]
TwoAttempts  == [j \in Jobs |-> 2]
=============================================================================
