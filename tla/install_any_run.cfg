SPECIFICATION Spec
CONSTANTS
    N <- MCN
    Probe <- MCProbe
    Guarded <- MCGuarded
    Plans <- BothPlans
    RunKinds = {"install", "resume", "dry-run", "dry-run-resume"}
    MaxFaults = 1
    MaxLost = 0
INVARIANTS ClaimsAreWitnessed OrderRespected FilesAgree 
PROPERTIES InstalledOnlyWhenDone ResumeKeepsProgress
