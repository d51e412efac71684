CONSTANTS
    a1 = a1
    a2 = a2
    k1 = k1
    k2 = k2
    TransportKey = TransportKey
    NoTask = NoTask
    Agents <- TwoAgents
    Keys <- TwoKeys
    Kinds <- EveryKind
    MaxRetries = 2
    MaxAttributed = 1
    MaxPaused = 2
    MaxTasks = 3
    MaxId = 3
    MaxRestarts = 1
    MaxFaults = 1
    MaxRemovals = 1
SPECIFICATION RegionSpec
CHECK_DEADLOCK FALSE
SYMMETRY KeySymmetry
INVARIANTS NoTaskLost DroppedByOwnPause WritesPassFailingBuilds
