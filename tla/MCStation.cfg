CONSTANTS
    a1 = a1
    a2 = a2
    Admin = {a1, a2}
    Value = {1, 2}
    Unset = Unset
    Bad = Bad
    Default <- MCDefault
    Lists <- MCLists
    Rows <- MCRows
    Overrides <- MCOverrides
    Contested = {2}
    MaxCommands = 2
SPECIFICATION Spec
INVARIANTS TypeOK CacheTrue
PROPERTIES ServesConfigured StopEnds
