CONSTANTS
    c1 = c1
    c2 = c2
    s1 = s1
    s2 = s2
    u1 = u1
    Channel = {c1}
    User = {u1}
    Slot = {s1, s2}
    NoTree = NoTree
    AutoStart = {c1}
    AutoRestart = {c1}
    Grace = 1
    MinGrace = 1
    Backoff = 1
    Interval = 1
    Threshold = 1
    MaxRestarts = 0
    RestartCap = 1
SPECIFICATION Spec
PROPERTY GraceIsHonoured
