CONSTANTS
    c1 = c1
    c2 = c2
    c3 = c3
    r1 = r1
    r2 = r2
    Request = {r1}
    Channel = {c1, c2, c3}
    NoChannel = NoChannel
    Priority <- MCPriority
    Versatile = {c3}
    MaxRetries = 1
    MaxAttempts = 3
    Cooldown = 1
    FactorCap = 2
    MaxChunks = 2
SPECIFICATION FairSpec
INVARIANTS SendBudget SuccessPaysInFull
PROPERTIES HandlerEnds SessionEnds
CHECK_DEADLOCK FALSE
