---------------------------- MODULE WsDispatchMC ----------------------------
(* Small instances of WsDispatch for TLC: one or two jobs and connections, *)
(* on one queue.                                                           *)
EXTENDS WsDispatchRefinement

OneQueueForJobs    == [j \in Jobs |-> "q1"]
OneQueueForWorkers == [w \in Workers |-> "q1"]

SamePriority == [j \in Jobs |-> 5]
HighIdFirst  == [j \in Jobs |-> IF j = 2 THEN 8 ELSE 5]
OneAttempt   == [j \in Jobs |-> 1]
TwoAttempts  == [j \in Jobs |-> 2]
=============================================================================
