SPECIFICATION FairSpec
CHECK_DEADLOCK FALSE
CONSTANTS
    p1 = p1
    p2 = p2
    c1 = c1
    c2 = c2
    c3 = c3
    g1 = g1
    g2 = g2
    g3 = g3
    NoStream = NoStream
    Stream <- MCStream
    Peer <- MCPeer
    PeerOf <- MCPeerOf
    Caster <- MCCaster
    Unicaster <- MCUnicaster
    Dest <- MCDest
INVARIANTS
    TypeOK
    NoSendOnClosed
PROPERTY
    HealthySendReturns
