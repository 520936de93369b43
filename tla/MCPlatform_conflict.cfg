CONSTANTS
    Focus = {"accounts"}
    a1 = a1
    a2 = a2
    b1 = b1
    b2 = b2
    Subscribers = {"u1"}
    Searchers = {a1, a2}
    SearcherUser <- MCSearcher
    SystemPat = SystemPat
    DefaultAllowance = 0
    Allowances = {1}
    GateTotal <- MCTotal
    GateUser <- MCUser
    GatePerMinute <- MCPerMinute
    LastDay = 1
    LastMinute = 1
    MaxEdits = 1
    Pages = {"u", "v"}
    Target = "u"
    Frames = {"main", "ad"}
    MainFrame = "main"
    MaxNavigations = 2
    MaxRedirects = 1
    ChannelSize = 1
    MaxNetRequests = 4
    NoPage = "nopage"
    Clients = {a1, a2}
    FileHandlers = {b1, b2}
    FileTTL = 1
    Hour = 2
    LastTime = 4
    Nobody = Nobody
    Calls = {c1}
    Refs <- MCRefs
    Resolvers <- MCResolvers
    Deployments <- MCDeployments
    FetchRetryMax = 1
    MaxURLs = 2
    ApiKeys = {"k1", "k2"}
    Origins = {"base", "sub", "foreign"}
    ArchivePaths <- MCPaths
    MaxEntries = 3
    MaxHops = 2
    NoKey = "nokey"
    Idents = {"gh", "gx"}
    ProviderOf <- MCProvider
    LoginOf <- MCLogin
    EmailOf <- MCOneEmail
    AllowedLogins = {"ann"}
    SeedAdmins <- MCAdmins
    SeedSupers <- MCSupers
    Visits = {v1}
    Edits = {e1}
    KeyValues = {x1}
    Binds <- MCBinds
    Depositors = {"gh"}
    NoOne = NoOne
    Fetching = {a1, a2}
    Rps = 1
    Burst = 1
    RetryMax = 1
    ArxivReplies <- MCReplies
    MinWait = 1
    MaxWait = 2
    MaxSent = 4
    MaxTime = 3
    Operators = {a1, a2}
    Logins <- MCLogins
    UnitOptions <- MCUnitOptions
    SkipLock = FALSE
    ProbeTargets = {b1, b2}
    ProbeWidth = 1
    MaxCommands = 3
    Buckets <- MCBuckets
    Configured = TRUE
    Callers = {a1, a2}
    MaxReports = 2
    MaxOutages = 2
    MissLimit = 3
    MaxSpawns = 4
    MaxCrashes = 3
    Externals = {"sub", "old"}
    Remotes = {"remote"}
    OldABI = {"old"}
    Subscribing = {"sub"}
    PluginsOn = {}
    PluginsOff = {}
    PluginConns = {a1, a2}
    Backlog = 1
    MaxEvents = 2
    MaxToggles = 1
SPECIFICATION PlatformSpec
PROPERTIES
    ConflictInterrupts
CHECK_DEADLOCK FALSE
