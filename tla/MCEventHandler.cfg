SPECIFICATION Spec
CONSTANTS
    Events <- MCEvents
    BatchSize = 2
    Threads = {t1, t2}
    Requests <- MCRequests
    NoName = ""
    HistoryCap = 1
    LastClickCap = 1
    MaxEvents = 3
    MaxFaults = 1
INVARIANTS ReportsInOrder  ProfileExact PairsMirror
SYMMETRY SymThreads
