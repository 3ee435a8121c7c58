CONSTANTS
    Keys = {k1, k2, k3}
    Limit = 2
    MaxKeys = 2
    Window = 3
SPECIFICATION Spec
INVARIANTS
    RollingTwice
PROPERTIES
    ImplementsQuota
