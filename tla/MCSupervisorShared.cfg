CONSTANTS
    c1 = c1
    c2 = c2
    s1 = s1
    s2 = s2
    u1 = u1
    Channel = {c1, c2}
    User = {u1}
    Slot = {s1, s2}
    NoTree = NoTree
    AutoStart = {}
    AutoRestart = {c1, c2}
    Grace = 1
    MinGrace = 1
    Backoff = 1
    Interval = 0
    Threshold = 1
    MaxRestarts = 1
    RestartCap = 1
SPECIFICATION Spec
INVARIANTS TypeOK
PROPERTIES HandleKept LaunchOnce
