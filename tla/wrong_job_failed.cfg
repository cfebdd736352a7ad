CONSTANTS
    Jobs = {1, 2}
    Queues = {"q1"}
    JobQueue <- OneQueueForJobs
    Prio <- SamePriority
    Limit <- TwoAttempts
    Workers = {"w1"}
    WorkerQueue <- OneQueueForWorkers
    MaxBatch = 2
    Env = {"fail"}
    EnvBudget = 1
SPECIFICATION Spec
INVARIANTS FailureChargedToReported
