SPECIFICATION Spec
CONSTANTS
    Order <- MCOrder
    Redacted = Redacted
    Boot = Boot
    Missing = Missing
    MaxGens = 2
    MaxRuns = 5
    MaxFaults = 3
CHECK_DEADLOCK FALSE
INVARIANTS StoredConsulTokenWorks
