SPECIFICATION Spec
CONSTANTS
    s = s
    b = b
    c = c
    p1 = p1
    p2 = p2
    Absent = Absent
    Node <- MCNode
    WgKey <- MCNode
    Host <- MCNode
    Bits <- MCBits
    Self = s
    OwnKey = s
    Ledgers <- MCReturns
    Proc = {p1}
    Faults = {}
PROPERTY SuccessReconciles
