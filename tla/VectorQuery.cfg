CONSTANTS
    a1 = a1
    a2 = a2
    v1 = v1
    v2 = v2
    wide = wide
    NoVec = NoVec
    NoRow = NoRow
    NoFile = NoFile
    QueryAgent <- a1
    Agents <- OneAgent
    Vectors <- MixedWidths
    WideVectors <- WideOnly
    Near <- TwoVectors
    Times <- TwoTimes
    CanonicalTimes <- EarlyOnly
    MaxHoles = 1
    Window = 2
    MaxChanged = 1
    MaxRows = 4
    MaxHead = 1
    MaxGeneration = 2
    MaxCookie = 0
    MaxPurges = 0
SPECIFICATION RegionSpec
SYMMETRY VectorSymmetry
CHECK_DEADLOCK FALSE
INVARIANTS IndexEqualsScan NoStaleAnswer
