CONSTANTS
    Jobs = {1, 2}
    Queues = {"q1"}
    JobQueue <- OneQueueForJobs
    Prio <- SamePriority
    Limit <- OneAttempt
    Workers = {"w1", "w2"}
    WorkerQueue <- OneQueueForWorkers
    MaxBatch = 2
    Env = {"disconnect", "earlyreap"}
    EnvBudget = 2
SPECIFICATION FairSpec
INVARIANTS IdleMeansFree ResultIsAwaited
PROPERTIES NoJobStuckRunning WorkConserving
