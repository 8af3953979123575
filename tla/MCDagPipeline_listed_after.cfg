SPECIFICATION Spec
CONSTANTS
    r1 = r1
    w1 = w1
    w2 = w2
    Requests = {r1}
    Workers = {w1, w2}
    N = 2
    Dags <- ListedAfterDep
    Disabled = {}
INVARIANT OutputsRaceFree
