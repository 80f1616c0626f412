SPECIFICATION Spec
CONSTANTS
    s = s
    b = b
    c = c
    p1 = p1
    p2 = p2
    Absent = Absent
    Node <- MCNode
    WgKey <- MCNode
    Host <- MCNode
    Bits <- MCBits
    Self = s
    OwnKey = s
    Ledgers <- MCLedgers
    Proc = {p1, p2}
    Faults = {"command", "vtysh", "crash", "reboot"}
SYMMETRY MCSymmetry
INVARIANTS TypeOK AnnouncesOverDataPlane OneKeyPerAddress PeersOfOneLedger
PROPERTIES SuccessConfigures ImplementsApart
