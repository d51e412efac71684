CONSTANTS
    a1 = a1
    a2 = a2
    k1 = k1
    k2 = k2
    TransportKey = TransportKey
    NoTask = NoTask
    Agents <- OneAgent
    Keys <- NoKeys
    Kinds <- WritesToo
    MaxRetries = 2
    MaxAttributed = 1
    MaxPaused = 1
    MaxTasks = 3
    MaxId = 3
    MaxRestarts = 0
    MaxFaults = 0
    MaxRemovals = 1
SPECIFICATION Spec
CHECK_DEADLOCK FALSE
INVARIANT DeletedOnSuccess
