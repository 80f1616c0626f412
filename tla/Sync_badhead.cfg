SPECIFICATION Spec
CONSTANTS
    a = a
    b = b
    c = c
    timer = timer
    operator = operator
    alice = alice
    NoEdit = NoEdit
    Node <- MCNode
    Self = a
    FirstLedger <- MCFirst
    Published <- MCBroken
    Syncer = {timer}
    Approver = {}
    SkipVerify = FALSE
    Faults = {}
    MaxHistory = 3
INVARIANT SuccessMeansVerified
