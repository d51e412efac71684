SPECIFICATION CorpusSpec
CONSTANTS
    \* Transfer
    TransferTexts = {"", "a", "a+"}
    Cut <- CutLong
    Msgs = {"", "m"}
    Chans = {""}
    MaxRecs = 7
    NoRec = NoRec
    \* Associations
    Global = ""
    Bridge = "discord"
    Concrete = "c"
    EntityNames = {"x", "y"}
    GraphRecords = {1, 2}
    NoAnchor = 0
    NoName = NoName
    Recoverable = {1}
    RelationChannels = {"discord"}
    TraverseBounds <- SomeBounds
    MaxEntities = 4
    MaxRelations = 2
    MaxCalls = 4
    \* Segments
    Chars = {"a", " ", "nl", ".", "(", ")", "F", "Q"}
    MaxText = 5
    MaxSizes = {2, 3}
    Windows = {2, 3}
    Measure <- Tokens
    \* DerivedLayers
    DIds = {1, 2}
    DTexts = {"t", "u"}
    DChans = {"c", "d"}
    Models = {"m1", "m2"}
    Legacy = "legacy"
    Nothing_ = Nothing_
    SweepCap = 1
    MaxDocEdits = 3
    MaxFaults = 1
    \* BlockIndex
    BParents = {1, 2}
    BChans = {"x", "y"}
    BScopes = {{"x"}, {"x", "y"}}
    BVersions = {1}
    Builders = {"task", "cli"}
    NoFile = NoFile
    MaxBlocks = 3
    BlockCounts = {0, 3}
    Chunk = 2
    ExaminedCap = 3
    PerParentCap = 2
    LiveRowBound = 3
    MaxWrites = 3
    MaxBreaks = 1
    \* Recall
    RIds = {1, 2, 3}
    Profiles <- SomeProfiles
    Requests <- SomeRequests
    NoRow = NoRow
    VoteUnit = 238266
    Window = 1
    Reach = 2
    DeeperDepth = 3
    MaxGone = 1
    \* Reconstruct
    CandidateKinds <- SomeKinds
    Spans <- TwoSpans
    NoTime = NoTime
    Adjacency = 1
    ECount = 1
    MaxEvidence = 2
    Outside <- TwoOutside
    Leads <- SomeLeads
    Passages <- SomePassages
    Budgets = {0, 3, 5, 8}
    Separator = 2
    ExcerptLens <- SomeExcerpts
    MaxPool = 3
    MaxRecords = 2
    \* CoarseSearch
    RowValues <- SomeRows
    NoVec = 0
    Distance <- SomeDistances
    Cosine <- SomeCosines
    Floor = 2
    Canonical = {2, 4}
    QueryWidth = 1
    Queries <- SomeQueries
    NoEnd = 99
    NoPeriod = NoPeriod
    Seats = 1
    MaxIds = 3
    MaxEdits = 4
INVARIANTS MergeIsComplete ImportRestores DryRunPredicts
           TraverseOwnsUp TextIsTiled DerivedFollowText SweepMissesNothing BlockReadEqualsScan 
           EvidenceIsSound CoarseAnswer
PROPERTIES DeclarationsFollow
CHECK_DEADLOCK FALSE
