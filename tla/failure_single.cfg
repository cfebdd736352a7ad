CONSTANTS
    Jobs = {1}
    Queues = {"q1"}
    JobQueue <- OneQueueForJobs
    Prio <- SamePriority
    Limit <- TwoAttempts
    Workers = {"w1", "w2"}
    WorkerQueue <- OneQueueForWorkers
    MaxBatch = 2
    Env = {"pause", "delay", "fail", "disconnect", "kick", "cancel", "ratelimit"}
    EnvBudget = 3
SPECIFICATION Spec
INVARIANTS DeadLetterAgrees
PROPERTIES ImplementsLifecycle
