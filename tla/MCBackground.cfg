CONSTANTS
    Focus = {"pool", "worker", "acquisition", "scheduler", "daemon"}
    Tokens = {"t1", "t2"}
    Config <- MCConfig
    Jobs = {j1, j2}
    Admins = {}
    Syncs = {s1}
    MaxDays = 1
    NoToken = NoToken
    PTasks = {a1}
    PWorkers = {w1}
    Me = w1
    SpoolQuota = 1
    Concurrency = 2
    MaxCrashes = 1
    NoTask = NoTask
    Papers = {p1, p2}
    WithDOI = {p1}
    MaxScheduled = 1
    PoolSize = 1
    LocalSlots = 1
    MaxRequests <- MCOneRequest
    MaxFaults = 1
    QueueLength = 3
    BatchSize = 2
    DailyCap = 1
    MaxMidnights = 0
    ServerProcs = {a1}
    SchemaAttempts = 1
    MaxBoots = 2
SPECIFICATION BackgroundFairSpec
INVARIANTS
    BackgroundTypeOK
    SpoolSafe
    SchedulerSound
PROPERTIES
    ConversionsEnd
    SpoolEmpties
    AcquisitionSettles
    TerminateEnds
CHECK_DEADLOCK FALSE
