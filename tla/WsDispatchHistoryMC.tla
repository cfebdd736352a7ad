------------------------- MODULE WsDispatchHistoryMC ------------------------
(* Small instances of WsDispatchHistory for TLC, all on one queue.         *)
EXTENDS WsDispatchHistory

OneQueueForJobs    == [j \in Jobs |-> "q1"]
OneQueueForWorkers == [w \in Workers |-> "q1"]
SamePriority       == [j \in Jobs |-> 5]
TwoAttempts        == [j \in Jobs |-> 2]
=============================================================================
