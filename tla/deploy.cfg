CONSTANTS
    n1 = n1  n2 = n2
    t1 = t1  t2 = t2
    p1 = p1
    inside = inside  control = control
    Names <- TwoNames
    Targets <- TwoTargets
    NoName = NoName
    NoTarget = NoTarget
    Unreadable = Unreadable
    NoNode = NoNode
    Procs <- OneProc
    Keys <- TwoNames
    Commands = {"add", "remove", "apply-dns", "apply-all"}
    ByHand = FALSE
    MaxEntries = 2
    MaxRecords = 2
    MaxFaults = 2
    Nodes <- MCNodes
    Requests <- MCRequests
    MaxDeploys = 2
SPECIFICATION DeploySpec
CHECK_DEADLOCK FALSE
INVARIANTS DeployTypeOK RunsOneDeploy DeployedIsServed DomainsFollowApp
    OneRecordPerName ActiveIsServed NoOrphanRecord
