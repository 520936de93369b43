CONSTANTS
    MaxTasks = 1
    Workers = {w1}
    Identities = {i1}
    Requests = {}
    IdentityOf <- MCIdentityOf
    Procs = {p1, p2}
    Digests = {d1}
    Size <- MCSize
    Gens = {g1, g2, g3}
    Null = Null
    Capacities = {1}
    ClaimLimits = {1}
    Budgets = {2}
    MaxInFlight = 1
    MaxWorkerInFlight = 1
    TaskTimeout = 3
    WorkerTimeout = 2
    LeaseDuration = 2
    UploadTimeout = 2
    Retention = 1
    SpoolMaxBytes = 1
    HookLimit = 2
    BackoffCap = 1
    HookDelay <- MCHookDelay
SPECIFICATION Spec
SYMMETRY Symmetry
INVARIANTS
    TypeOK
    LiveAttemptIsCurrent
    StagedBytesSafe
    LiveTransferReserved
    IInv
    DoneIsArchived
    RowsSound
PROPERTIES
    ResultsKept
    KeepsPromise
CHECK_DEADLOCK FALSE
