SPECIFICATION Spec
CONSTANTS
    Self = 0
    Peer = {1}
    TlsOpts <- MCTlsOpts
    Msg <- MCMsg
    From <- MCFrom
    Kind <- MCKind
    Index <- MCIndex
    None = None
    MaxCrashes = 1
INVARIANTS
    TypeOK
    WriteAhead
PROPERTIES
    ReceivedHandled
    Reconnects
    Restarts
