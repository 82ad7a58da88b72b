CONSTANTS
    k1 = k1
    k2 = k2
    r1 = r1
    r2 = r2
    r3 = r3
    a1 = a1
    a2 = a2
    Request = {r1, r2, r3}
    Key = {k1, k2}
    Owner <- MCOwner
    Gateway = gateway
    Limits <- MCLimits
    Estimate = 1
    Costs = {0, 2}
    Window = 1
    End = 2
    MaxNames = 2
    MaxEdits = 1
    Model = {"fast", "big", "small"}
    Glob = {"b*", "*"}
    Matches <- MCMatches
    Size <- MCSize
    Channel = {"c1"}
    ChannelRows <- MCChannelRows
    Provider = {"p1", "p2"}
    Capabilities <- MCCapabilities
    Entries <- MCEntries
    FirstTables <- MCFirstTables
    Fallback = "small"
    Unset = "none"
    Admin = {a1, a2}
    MaxCommits = 3
    CallId = {1, 2}
    ToolName = {"f", "g"}
    MaxBlocks = 3
    MaxMessages = 4
    MaxPieces = 4
    UserContents <- MCUserContents
    CallLists <- MCCallLists
    Options <- MCOptions
    MediaRequests <- MCMediaRequests
    MediaAnswers <- MCMediaAnswers
SYMMETRY Alike
SPECIFICATION PassageSpec
INVARIANTS TypeOK RatesHeld OvershootBounded LastCommitCached ListingTrue
    ToolsPaired NothingLost StreamAgrees WellFormed CountsWhole
    LateRefusals UnitsBilled
PROPERTIES OwnEditSeen
CHECK_DEADLOCK FALSE
