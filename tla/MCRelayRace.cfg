CONSTANTS
    c1 = c1
    c2 = c2
    c3 = c3
    r1 = r1
    r2 = r2
    Request = {r1, r2}
    Channel = {c1, c2}
    NoChannel = NoChannel
    Priority <- MCPriority2
    Versatile = {c2}
    MaxRetries = 1
    MaxAttempts = 2
    Cooldown = 1
    FactorCap = 1
    MaxChunks = 1
SPECIFICATION Spec
SYMMETRY MCSymmetry
INVARIANTS TypeOK SessionsAddUp SettledWhenDone MeteredOnce
CHECK_DEADLOCK FALSE
