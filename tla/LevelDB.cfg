SPECIFICATION Spec
CONSTANTS
    Name <- MCName
    Key <- MCKey
    Value = {v}
    None = None
    Lock = {f, g}
    MaxUnsynced = 1
INVARIANTS
    TypeOK
    IteratorExact
    LockExclusive
    PanicsOnlyIfCutOff
PROPERTY
    ImplementsNamedStores
