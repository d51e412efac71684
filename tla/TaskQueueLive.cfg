CONSTANTS
    a1 = a1
    a2 = a2
    k1 = k1
    k2 = k2
    TransportKey = TransportKey
    NoTask = NoTask
    Agents <- OneAgent
    Keys <- OneKey
    Kinds <- BuildsOnly
    MaxRetries = 2
    MaxAttributed = 1
    MaxPaused = 1
    MaxTasks = 2
    MaxId = 3
    MaxRestarts = 1
    MaxFaults = 1
    MaxRemovals = 1
SPECIFICATION LiveSpec
CHECK_DEADLOCK FALSE
PROPERTIES QueueDrains AttributionsDrain
