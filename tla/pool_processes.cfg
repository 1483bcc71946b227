CONSTANTS
    n1 = n1
    t1 = t1  t2 = t2
    p1 = p1  p2 = p2
    Names <- OneName
    Targets <- MCTargets
    NoName = NoName
    NoTarget = NoTarget
    Unreadable = Unreadable
    Procs <- TwoProcs
    Keys <- OneName
    Commands = {"add", "remove", "apply-dns", "apply-all", "verify-dns"}
    ByHand = TRUE
    MaxEntries = 2
    MaxRecords = 2
    MaxFaults = 1
SPECIFICATION Spec
SYMMETRY Interchangeable
CHECK_DEADLOCK FALSE
INVARIANTS ActiveWasServed TwinsAreApplied
