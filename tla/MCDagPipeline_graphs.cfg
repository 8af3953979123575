SPECIFICATION FairSpec
CONSTANTS
    r1 = r1
    w1 = w1
    w2 = w2
    Requests = {r1}
    Workers = {w1, w2}
    N = 3
    Dags <- ListedBeforeDeps
    Disabled = {2}
INVARIANTS
    NodeRunsOnce
    OutputsRaceFree
    ReturnsQuiet
    NoLostWakeup
PROPERTIES
    ImplementsSchedule
    EveryCallReturns
