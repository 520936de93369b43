CONSTANTS
    Focus = {"engine", "originals", "resolver", "corpus", "intake", "reconcile", "objects", "ingest", "catalog"}
    a1 = a1
    a2 = a2
    b1 = b1
    b2 = b2
    DoiIds = {"d1", "d2"}
    Entries = {"text", "x1"}
    Searches = {a1, a2}
    Found <- MCFound
    WorkOf <- MCWorkOf
    MaxResults = 2
    MaxCandidates = 1
    PaperRows = 4
    DeskClients = {c1}
    Parses = {"flat", "native", "odd"}
    Artifact <- MCArtifact
    SourceOf <- MCSourceOf
    PdfPages <- MCPdfPages
    PerPage = {2}
    Renderer = TRUE
    MaxVisits = 1
    MaxLost = 1
    Askers = {a1, a2}
    Dois = {"d"}
    WorkRecords <- MCRecords
    Mailto = TRUE
    PositiveTTL = 2
    NegativeTTL = 1
    MaxCacheSize = 1
    MaxAsks = 3
    MaxChanges = 1
    MaxNow = 3
    WorkIds = {1, 2}
    Parts <- MCParts
    Lookers = {a1, a2}
    RefLists <- MCRefLists
    Indexes = 1
    PartBatch = 2
    MaxBoots = 2
    MaxLookups = 2
    MaxTroubles = 1
    ArxivVersions = {1, 2}
    Pdfs = {b1, b2}
    Contributors = {a1, a2}
    ExternalSlots = 1
    MaxContributions = 2
    MaxLosses = 1
    MaxLegacy = 1
    NoPdf = NoPdf
    Works = {1, 2}
    Bucket <- MCBucket
    Outside = {"x"}
    Reports <- MCReports
    BatchSize = 1
    MaxRuns = 2
    MaxMishaps = 2
    NoId = "none"
    Kinds = {"pdf"}
    Uploaders = {a1, a2}
    Getters = {g1}
    Digests = {b1, b2}
    Nil = Nil
    MaxBody = 3
    HeadPeek = 1
    Shelf <- MCShelf
    AskedFor <- MCPrefixes
    MaxDeletes = 1
    Papers = {1, 2}
    RefOf <- MCRefOf
    Workers = {a1, a2}
    QueueSize = 1
    PageSize = 2
    HasResolver = TRUE
    OutsidePdfs = {x1}
    MaxMints = 1
    MaxTurmoil = 1
    CatKeys <- MCCatKeys
    LeaseHolders = {a1, a2}
    Seeded <- MCSeeded
    MaxCalls = 4
    MaxLeases = 0
SPECIFICATION ContentSpec
SYMMETRY MCSymmetry
INVARIANTS
    ContentTypeOK
    
    
    StoreHonest
PROPERTIES
    PapersSound
CHECK_DEADLOCK FALSE
