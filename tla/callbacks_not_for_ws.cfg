CONSTANTS
    Jobs = {1, 2}
    Queues = {"q"}
    JobQueue <- OneQueue
    Prio <- SamePriority
    Limit <- OneAttempt
    BatchJobs = {1, 2}
    Chained = {}
    PoolWorkers = {}
    WsWorkers = {"x1"}
    Conditions = {{"ws"}}
SPECIFICATION FairSpec
CHECK_DEADLOCK FALSE
PROPERTIES FinallyAlwaysFollows
