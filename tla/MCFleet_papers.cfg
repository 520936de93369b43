CONSTANTS
    MaxTasks = 2
    Workers = {w1}
    Identities = {i1, i2}
    Requests = {r1}
    IdentityOf <- MCIdentityOf
    Procs = {p1}
    Digests = {d1}
    Size <- MCSize
    Gens = {g1, g2}
    Null = Null
    Capacities = {2}
    ClaimLimits = {2}
    Budgets = {1}
    MaxInFlight = 2
    MaxWorkerInFlight = 2
    TaskTimeout = 1
    WorkerTimeout = 1
    LeaseDuration = 1
    UploadTimeout = 1
    Retention = 1
    SpoolMaxBytes = 1
    HookLimit = 1
    BackoffCap = 1
    HookDelay <- MCHookDelay
SPECIFICATION Spec
SYMMETRY Symmetry
INVARIANTS
    PapersShareSpool
CHECK_DEADLOCK FALSE
