CONSTANTS
    a1 = a1
    a2 = a2
    p1 = p1
    m1 = m1
    t1 = t1
    t2 = t2
    s1 = s1
    s2 = s2
    c1 = c1
    c2 = c2
    Global = Global
    NoMsg = NoMsg
    NoRow = NoRow
    NoText = NoText
    Unscoped = Unscoped
    Callers <- TwoCallers
    Agents <- TwoAgents
    Projects <- PoolAndOne
    Channels <- PoolAndOne
    MsgIds <- OneMessage
    Texts <- TwoTexts
    Sources <- TwoSources
    PushesFail = TRUE
    MaxRows = 3
    MaxCalls = 3
    HealthIds = {1, 2, 3}
    Bodies = {"", "b"}
    HealthTexts <- SomeTexts
    HealthChans = {"", "c"}
    NoMem = NoMem
    Gone = Gone
    Same = Same
SPECIFICATION RecordsSpec
CHECK_DEADLOCK FALSE
SYMMETRY Symmetry
INVARIANTS VectorOfText RepairLosesNothing RemoteFollowsRepairs 
PROPERTIES WritesAreAtomic OwnRowsOnly LockHolds SuccessIsReal
