CONSTANTS
    a1 = a1
    a2 = a2
    p1 = p1
    m1 = m1
    t1 = t1
    t2 = t2
    s1 = s1
    s2 = s2
    c1 = c1
    c2 = c2
    Global = Global
    NoMsg = NoMsg
    NoRow = NoRow
    NoText = NoText
    Unscoped = Unscoped
    Callers <- TwoCallers
    Agents <- OneAgent
    Projects <- PoolOnly
    Channels <- PoolOnly
    MsgIds <- NoMessage
    Texts <- TwoTexts
    Sources <- OneSource
    PushesFail = FALSE
    MaxRows = 2
    MaxCalls = 2
SPECIFICATION SmallSpec
CHECK_DEADLOCK FALSE
INVARIANTS RemoteInStep
