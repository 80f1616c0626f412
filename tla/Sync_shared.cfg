SPECIFICATION Spec
CONSTANTS
    a = a
    b = b
    c = c
    timer = timer
    operator = operator
    alice = alice
    NoEdit = NoEdit
    Node <- MCNode
    Self = a
    FirstLedger <- MCFirst
    Published <- MCTwo
    Syncer = {timer}
    Approver = {alice}
    SkipVerify = TRUE
    Faults = {"start"}
    MaxHistory = 3
INVARIANT OverlayFromVerifiedLedger
