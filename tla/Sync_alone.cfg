SPECIFICATION Spec
CONSTANTS
    a = a
    b = b
    c = c
    timer = timer
    operator = operator
    alice = alice
    NoEdit = NoEdit
    Node <- MCNode
    Self = a
    FirstLedger <- MCFirst
    Published <- MCAny
    Syncer = {timer}
    Approver = {}
    SkipVerify = FALSE
    Faults = {"fetch", "start", "crash", "rewind"}
    MaxHistory = 3
INVARIANTS TypeOK HooksSeeVerifiedLedger
PROPERTY OverlayNeverGoesBack
CHECK_DEADLOCK FALSE
