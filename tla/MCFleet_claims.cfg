CONSTANTS
    MaxTasks = 2
    Workers = {w1, w2}
    Identities = {i1, i2}
    Requests = {}
    IdentityOf <- MCIdentityOf
    Procs = {}
    Digests = {d1}
    Size <- MCSize
    Gens = {g1}
    Null = Null
    Capacities = {2}
    ClaimLimits = {2}
    Budgets = {2}
    MaxInFlight = 2
    MaxWorkerInFlight = 1
    TaskTimeout = 2
    WorkerTimeout = 1
    LeaseDuration = 1
    UploadTimeout = 1
    Retention = 1
    SpoolMaxBytes = 1
    HookLimit = 1
    BackoffCap = 1
    HookDelay <- MCHookDelay
SPECIFICATION Spec
SYMMETRY WorkerSymmetry
INVARIANTS
    ClaimsBounded
CHECK_DEADLOCK FALSE
