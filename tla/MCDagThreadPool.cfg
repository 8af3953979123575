SPECIFICATION PoolFairSpec
CONSTANTS
    w1 = w1
    w2 = w2
    a = a
    b = b
    c = c
    none = none
    Threads = {w1, w2}
    Closures = {a, b, c}
    Child <- MCChild
    NoClosure = none
    MaxStarts = 2
INVARIANTS
    StartedInOrder
    NoStuckTask
    ShutdownDrains
PROPERTIES
    EverySubmittedTaskRuns
    ShutdownReturns
