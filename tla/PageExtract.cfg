CONSTANTS
    w1 = w1
    w2 = w2
    Workers = {w1, w2}
    Numbers <- MCNumbers
    Root = 1
    NoNumber = NoNumber
    Bad = Bad
    Error = Error
    Request <- MCRequest
    Documents <- MCDocuments
    Rotations <- MCRotations
    Nobody = Nobody
    Pending = Pending
SPECIFICATION FairSpec
INVARIANTS
    AgreesWithTree
    RotationIsEffective
PROPERTIES
    CacheIsStable
    Finishes
