SPECIFICATION Spec
CONSTANTS
    a = a
    b = b
    p1 = p1
    p2 = p2
    Node <- MCNode
    Key <- MCKey
    WgKey <- MCNode
    Cidr <- MCCidr
    Endpoint <- MCEndpoint
    Subject <- MCPair
    Proc = {p1, p2}
    NoEntry = NoEntry
    NoSig = NoSig
    Faults = {}
    MaxSeq = 2
    MaxPending = 1
    MaxSigned = 3
INVARIANTS ChainIntact
CHECK_DEADLOCK FALSE
