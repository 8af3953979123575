SPECIFICATION Spec
CONSTANTS
    d1 = d1
    d2 = d2
    v1 = v1
    v2 = v2
    c1 = c1
    c2 = c2
    b1 = b1
    main = main
    none = none
    Docs = {d1, d2}
    Contents = {v1, v2}
    None = none
    Sample <- OneSample
    Clients = {c1, c2}
    Rebuilders = {b1}
    Main = main
    RebuildOnStart = FALSE
    MaxRequests = 2
    MaxRebuilds = 1
    MaxCrashes = 1
INVARIANTS
    TypeOK
    IndexAgrees
    FileIntact
    WriteAhead
SYMMETRY ThreadSymmetry
