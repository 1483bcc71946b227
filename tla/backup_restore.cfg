CONSTANTS
    p1 = p1  p2 = p2
    export = export
    Procs <- MCProcs
    N = 2
    Reviewed <- MCReviewed
    Exports <- MCExports
    Marker = Marker
    Torn = Torn
    NoFile = NoFile
    Modes = {"dry", "live", "bare"}
    MaxBackups = 2
    MaxCommands = 4
    MaxFaults = 1
SPECIFICATION Spec
SYMMETRY Interchangeable
CHECK_DEADLOCK FALSE
INVARIANTS MarkersAreTrue CompleteIsRestorable ReportsAreTrue
