SPECIFICATION Spec
CONSTANTS
    N <- MCN
    Probe <- MCProbe
    Guarded <- MCGuarded
    Plans <- OnePlan
    RunKinds = {"install", "resume", "dry-run", "dry-run-resume"}
    MaxFaults = 0
    MaxLost = 0
INVARIANTS ResumeSkipsOnlyCompletedWork
