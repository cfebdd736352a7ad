CONSTANTS
    Jobs = {1, 2, 3}
    Queues = {"q"}
    JobQueue <- OneQueue
    Prio <- SamePriority
    Limit <- TwoAttempts
    BatchJobs = {1, 2}
    Chained = {3}
    PoolWorkers = {"p1", "p2"}
    WsWorkers = {"x1"}
    Conditions = {{}, {"ws", "fail", "cancel"}, {"early"}, {"early", "crash"}, {"crash", "fail"}}
SPECIFICATION FairSpec
CHECK_DEADLOCK FALSE
INVARIANTS FollowUpsOnce ThenMeansAllDone
PROPERTIES FinallyFollows ChainFollows
