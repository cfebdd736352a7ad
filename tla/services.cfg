CONSTANTS
    RateLimits = {1, 2}
    RateWindow = 2
    RateTime = 5
    Dashboards = {d1, d2}
    BufferCap = 2
    MaxChanges = 4
    MaxOwed = 2
    PoolRequests = {p1, p2}
    PoolConfigs <- SomeConfigs
    ScaleUpAt = 1
    DefaultMax = 1
    MaxBacklog = 2
    Ids = {w1, w2}
    Steady = {w1}
    Timeout = 2
    LastBeat = 2
    BeatTime = 5
    VacuumRequests = {v1, v2}
    RequiredIdle = 2
    MaxRuns = 2
    Readers = {g1, g2}
    Ttls <- SomeTtls
    DefaultTtl = 2
    CacheTime = 4
    Executors = {e1, e2}
    Admins = {a1, a2}
    MaxAttempts = 2
    MaxJobs = 2
    TableTime = 1
    Lengths = {125, 126, 65536}
    MaxFrames = 2
    Remote = {"h1"}
    Local = {"g1"}
    Settings = {0, 3}
    Preset <- CodePreset
    JobTimeouts = {0, 1, 5}
    MaxDelay = 1
    MaxLeases = 2
    LeaseTime = 6
    Tasks = {t1, t2}
    Concurrency = 1
    MaxLinks = 2
    Tokens = {k1, k2}
    Visits = {y1, y2}
    Lifetime = 1
    SessionTime = 3
    Duties = {j1, j2}
    Followed = {j1}
    Hands = {u1, u2}
SPECIFICATION Spec
CHECK_DEADLOCK FALSE
INVARIANTS TypeOK SteadyStay StateTellsTruth FailedHasLetter ExecutorsKeepTheirJob FramesAgree LiveLeaseIsKept AnswersAsAsked BegunAreAwaited
PROPERTIES AtMostLimit DashboardCatchesUp BacklogScalesUp SilentAreForgotten LiveEntriesStay EveryJobAnswered SessionsEndOnTime
