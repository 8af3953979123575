SPECIFICATION Spec
CONSTANTS
    Threads = {t1, t2}
    Keys = {k1, k2, k3}
    Values = {v, w}
    None = None
    Capacity = 2
    LocalTtl = 2
    RedisTtl = 2
    Ttls = {0, 1}
    MaxClock = 4
    MaxCalls = 4
SYMMETRY Symmetry
INVARIANTS LevelsAgree KeptUntilDue
PROPERTY VictimOldest
