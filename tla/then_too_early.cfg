CONSTANTS
    Jobs = {1, 2}
    Queues = {"q"}
    JobQueue <- OneQueue
    Prio <- SamePriority
    Limit <- OneAttempt
    BatchJobs = {1, 2}
    Chained = {}
    PoolWorkers = {"p1"}
    WsWorkers = {}
    Conditions = {{"early"}}
SPECIFICATION Spec
CHECK_DEADLOCK FALSE
INVARIANTS ThenAlwaysMeansAllDone
