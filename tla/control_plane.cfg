CONSTANTS
    i1 = i1  i2 = i2
    n1 = n1  n2 = n2
    t1 = t1  t2 = t2
    c1 = c1  c2 = c2
    typeA = typeA  typeAAAA = typeAAAA
    right = right
    wrong = wrong
    Ids <- MCIds
    Names <- MCNames
    Tokens <- MCTokens
    Callers <- MCCallers
    Kinds <- MCKinds
    RecordIds <- MCRecords
    ClientSets <- SomeClients
    AdminKeys = {right}
    Headers = {right, wrong}
    NoName = NoName
    NoId = NoId
    NoToken = NoToken
    MaxFaults = 1
SPECIFICATION ControlPlaneSpec
SYMMETRY Interchangeable
INVARIANTS
    ControlPlaneTypeOK ByDomainFindsLive
    TrafficByOwnToken RouteAfterRecord SuccessIsWhole
PROPERTIES ImplementsRegistry
