CONSTANTS
    Jobs = {1, 2}
    Queues = {"q1"}
    JobQueue <- OneQueueForJobs
    Prio <- HighIdFirst
    Limit <- TwoAttempts
    Workers = {"w1", "w2"}
    WorkerQueue <- OneQueueForWorkers
    MaxBatch = 2
    Env = {"disconnect", "heartbeat", "cancel", "crash"}
    EnvBudget = 2
SPECIFICATION Spec
INVARIANTS TypeOK OneHolder
PROPERTIES ImplementsLifecycle SuccessIsFinal
