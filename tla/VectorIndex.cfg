CONSTANTS
    a1 = a1
    a2 = a2
    v1 = v1
    v2 = v2
    wide = wide
    NoVec = NoVec
    NoRow = NoRow
    NoFile = NoFile
    Agents <- OneAgent
    Vectors <- OneVector
    WideVectors <- None
    Times <- OneTime
    CanonicalTimes <- OneTime
    MaxHoles = 1
    MaxRows = 2
    MaxHead = 3
    MaxGeneration = 2
    MaxCookie = 2
    MaxPurges = 1
SPECIFICATION SmallSpec
CHECK_DEADLOCK FALSE
INVARIANTS FileExact NoResurrection
PROPERTIES  RefusalIsFinal
