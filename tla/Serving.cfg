SPECIFICATION ServingSpec
CONSTANTS
    \* SchemaBoot
    Texts = {"x", "y"}
    MsgIds = {"m"}
    NoMsgId = ""
    SCHEMA_VERSION = 21
    OldVersions = {8, 12, 21}
    MaxRowIds = 2
    MaxStarts = 3
    MaxRowWrites = 2
    \* Folders
    FolderAgents = {"a"}
    FolderProjects = {"", "p"}
    FolderNames = {"x", "y"}
    MaxFolders = 3
    FolderRecords = {1}
    Ceiling = 3
    Limits = {2, 3}
    FirstLimit = 2
    \* Calibration
    CalServers = {"p1", "p2"}
    CalAgents = {"a1", "a2"}
    GlobalScope = "global"
    Betas = {2}
    DefaultBeta = 1
    None_ = None_
    Current_ = Current_
    Calls_ = {1, 2}
    MaxCalibrations = 2
    MaxTroubles = 1
    \* ScopeStats
    StatScopes = {"s", "t"}
    Callers = {"c", "d"}
    EntryCap = 1
    Ttl = 1
    CacheEnabled = TRUE
    MaxCommits = 2
    MaxClock = 1
    MaxAsks = 2
    \* Access
    Servers = {"p", "q"}
    Subjects = {"s1", "s2"}
    AliasNames = {"u1", "u2"}
    PlainAgents = {"a", "b"}
    NoSubject = "-"
    Omitted = ""
    Wild = "*"
    Me = "@me"
    AclRequests <- SomeCalls
    MaxAclCalls = 2
    MaxLedgerEdits = 1
    \* UpdateCheck
    Versions = {1, 2, 3}
    PreReleases = {1}
    Running = 1
    RunningFinal = 2
    Sessions = {"s", "t"}
    NoticeCap = 1
    Interval = 1
    Fetchers = {"f", "g"}
    InstallSteps = 2
    Probes = {"branch", "detached"}
    MaxTicks = 3
    MaxPublished = 1
    MaxFetches = 2
    \* StdioProxy
    MaxInflight = 2
    MaxLines = 3
    WriterMayDie = TRUE
    \* EmbeddingHealth
    AdvisoryKeys = {"k1", "k2"}
    ADVISORY_SESSION_CAP = 1
    FAULT_PROMOTE_THRESHOLD = 2
    SharedTransport = TRUE
    MaxFailures = 4
    \* FrontDoor
    Issuers = {"i", "w"}
    PairwiseIssuers = {"w"}
    KidlessIssuers = {"w"}
    KeyNumbers = {1, 2, 3}
    EncryptionKeys = {3}
    JwksUriOverride = TRUE
    JWKS_TTL_SECONDS = 2
    JWKS_MIN_REFETCH_SECONDS = 1
    DoorSetups <- SomeSetups
    DoorRequests <- SomeRequests
    MaxBodyParts = 1
    DoorSlots = {1, 2}
    MaxDoorClock = 2
    MaxKnocks = 2
    MaxProviderChanges = 2
INVARIANTS DoorHolds  AggregatesKeepUp SpacesStayApart UpdatesAreHonest  OutageIsTold
PROPERTIES BootIsSafe 
CHECK_DEADLOCK FALSE
