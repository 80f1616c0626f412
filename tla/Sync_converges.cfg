SPECIFICATION FairSpec
CONSTANTS
    a = a
    b = b
    c = c
    timer = timer
    operator = operator
    alice = alice
    NoEdit = NoEdit
    Node <- MCNode
    Self = a
    FirstLedger <- MCFirst
    Published <- MCAny
    Syncer = {timer}
    Approver = {}
    SkipVerify = FALSE
    Faults = {"fetch"}
    MaxHistory = 4
INVARIANTS ListenersInformed OverlayKeepsUp
PROPERTY Converges
