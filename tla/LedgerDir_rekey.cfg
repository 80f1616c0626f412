SPECIFICATION Spec
CONSTANTS
    a = a
    b = b
    p1 = p1
    p2 = p2
    Node <- MCNode
    Key <- MCKey
    WgKey <- MCNode
    Cidr <- MCCidr
    Endpoint <- MCEndpoint
    Subject <- MCSubject
    Proc = {p1}
    NoEntry = NoEntry
    NoSig = NoSig
    Faults = {"crash"}
    MaxSeq = 3
    MaxPending = 1
    MaxSigned = 5
INVARIANTS TypeOK HeadSignedByMembers ConsentSinceJoining ChainIntact
PROPERTY SignaturesKept
CHECK_DEADLOCK FALSE
