CONSTANTS
    Focus = {"pool", "acquisition", "daemon", "conversion", "comments", "access", "storage", "catalog", "reading"}
    a1 = a1
    a2 = a2
    b1 = b1
    b2 = b2
    pub = pub
    ver = ver
    Tokens = {"t1", "t2"}
    Config <- MCConfig
    Jobs = {j1}
    Admins = {m1}
    Syncs = {s1}
    MaxDays = 0
    NoToken = NoToken
    Papers = {p1, p2}
    WithDOI = {p1}
    MaxScheduled = 1
    PoolSize = 1
    LocalSlots = 1
    MaxRequests <- MCRequests
    MaxFaults = 0
    ServerProcs = {a1, a2}
    SchemaAttempts = 1
    MaxBoots = 2
    Edges = {a1, a2}
    PdfEditions = {b1, b2}
    Revisions = {1}
    JobSlots = 1
    MaxDamage = 1
    NoEdition = NoEdition
    Clients = {a1, a2}
    Users = {u1}
    UserOf <- MCUserOf
    Writers = {a1, a2}
    CommentAdmins = {}
    Keys = {k1}
    Bodies = {x1}
    Statuses = {"pending"}
    CacheSize = 1
    PageSize = 1
    MaxComments = 2
    MaxTime = 1
    MaxChanges = 1
    TicksPerMilli = 1
    NoKey = NoKey
    DevCodes = {1}
    AccTokens = {b1, b2}
    AccUsers = {u1}
    Callers = {a1, a2}
    CodeLife = 0
    PollGap = 1
    TokenLife = 0
    CacheLife = 1
    PollCap = 1
    LastTick = 1
    NoUser = NoUser
    Movers = {a1, a2}
    Pruners = {b1, b2}
    Readers = {r1}
    KeepLast = 0
    MaxWrites = 5
    CatKeys <- MCCatKeys
    LeaseHolders = {a1, a2}
    Seeded <- MCSeeded
    MaxCalls = 3
    MaxLeases = 2
    Visitors = {v1}
    ShelfSources = {pub, ver}
    PaperOf <- MCPaperOf
    OriginOf <- MCOriginOf
    ShelfRevisions = {1, 2}
    ParsedFrom <- MCParsedFrom
    BlocksOf <- MCBlocksOf
    WindowLimit = 2
    MaxPieces = 3
    MaxMishaps = 1
    Unset = Unset
SPECIFICATION ServicesSpec
SYMMETRY MCSymmetry
INVARIANTS
    ServicesTypeOK
    AdmissionSound
    PoolsOutliveUsers
    CommentsShown
    TokensSound
    AssetsSound
    LeaseExclusive
    
PROPERTIES
    MineruSound
CHECK_DEADLOCK FALSE
