CONSTANTS
    MaxTasks = 1
    Workers = {w1}
    Identities = {i1}
    Requests = {}
    IdentityOf <- MCIdentityOf
    Procs = {p1}
    Digests = {d1}
    Size <- MCSize
    Gens = {g1, g2}
    Null = Null
    Capacities = {1}
    ClaimLimits = {1}
    Budgets = {1, 2}
    MaxInFlight = 1
    MaxWorkerInFlight = 1
    TaskTimeout = 2
    WorkerTimeout = 1
    LeaseDuration = 1
    UploadTimeout = 1
    Retention = 1
    SpoolMaxBytes = 1
    HookLimit = 1
    BackoffCap = 1
    HookDelay <- MCHookDelay
SPECIFICATION FairSpec
PROPERTIES
    TasksSettle
    SpoolDrains
CHECK_DEADLOCK FALSE
