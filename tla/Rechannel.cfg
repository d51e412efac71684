SPECIFICATION AssocSpec
CONSTANTS
    Global = ""
    Bridge = "discord"
    Concrete = "c"
    EntityNames = {"x"}
    GraphRecords = {1, 2}
    NoAnchor = 0
    NoName = NoName
    Recoverable = {1}
    RelationChannels = {"discord"}
    TraverseBounds <- OneBound
    MaxEntities = 1
    MaxRelations = 1
    MaxCalls = 2
INVARIANTS MigrationCompletes
CHECK_DEADLOCK FALSE
