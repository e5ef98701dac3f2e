SPECIFICATION Spec
CONSTANTS
    k1 = k1
    k2 = k2
    k3 = k3
    k4 = k4
    v1 = v1
    v2 = v2
    Key <- MCKey
    Value <- MCValue
    InitCapacity = 2
    MaxCapacity = 3
    NotFound = NotFound
    Done = Done
    Failed = Failed
INVARIANTS
    TypeOK
    Coherent
PROPERTY
    ImplementsRecencyStore
