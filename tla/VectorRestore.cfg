CONSTANTS
    a1 = a1
    v1 = v1
    NoVec = NoVec
    NoRow = NoRow
    NoFile = NoFile
    Agents <- OneAgent
    Vectors <- OneVector
    WideVectors <- None
    Times <- OneTime
    CanonicalTimes <- OneTime
    MaxHoles = 1
    MaxRows = 1
    MaxHead = 2
    MaxGeneration = 2
    MaxCookie = 0
    MaxPurges = 0
SPECIFICATION RSpec
CHECK_DEADLOCK FALSE
INVARIANT RestoredFileExact
