SPECIFICATION FairSpec
CONSTANTS
    N <- MCN
    Probe <- MCProbe
    Guarded <- MCGuarded
    Plans <- OnePlan
    RunKinds = {"dry-run", "install", "resume"}
    MaxFaults = 1
    MaxLost = 1
INVARIANTS  HalfAppliedHasRecord
PROPERTIES EventuallyInstalled
