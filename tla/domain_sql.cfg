CONSTANTS
    i1 = i1  i2 = i2
    n1 = n1
    t1 = t1  t2 = t2
    p1 = p1  p2 = p2
    Ids <- MCIds
    Names <- MCNames
    Tokens <- MCTokens
    Procs <- MCProcs
    NoName = NoName
    NoId = NoId
    NoToken = NoToken
    Backends = {"sqlite", "postgres"}
    MaxTime = 3
SPECIFICATION Spec
SYMMETRY Interchangeable
CHECK_DEADLOCK FALSE
INVARIANTS StampedMeansVerified RotationRetires RetiredTokenNeverVerifies
PROPERTIES ImplementsRegistry
