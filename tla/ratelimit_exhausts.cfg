CONSTANTS
    Jobs = {1}
    Queues = {"q1"}
    JobQueue <- OneQueueForJobs
    Prio <- SamePriority
    Limit <- TwoAttempts
    Workers = {"w1"}
    WorkerQueue <- OneQueueForWorkers
    MaxBatch = 2
    Env = {"fail", "ratelimit"}
    EnvBudget = 2
SPECIFICATION HistorySpec
INVARIANTS RateLimitNeverExhausts
