SPECIFICATION Spec
CONSTANTS
    a = a
    b = b
    j = j
    Node <- MCNode
    Key <- MCNode
    WgKey <- MCNode
    Cidr <- MCCidr
    Endpoint <- MCNode
    Subject <- MCSubject
    Unmerged = Unmerged
    Clone = {a, b, j}
    Identity <- MCIdentity
    Founder = {a, b}
    Uses <- MCPlain
    MaxSeq = 2
    MaxHistory = 4
INVARIANT CompleteIsCommitted
CHECK_DEADLOCK FALSE
