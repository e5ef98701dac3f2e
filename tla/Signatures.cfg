SPECIFICATION Spec
CHECK_DEADLOCK FALSE
CONSTANTS
    Order = 7
    N = 4
    F = 1
    PrivKey <- MCPrivKey
    Cert <- MCCert
    None = None
INVARIANTS
    TypeOK
    VerifiesExactlySigned
    QuorumAnswered
PROPERTY
    Answers
