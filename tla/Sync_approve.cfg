SPECIFICATION FairSpec
CONSTANTS
    a = a
    b = b
    c = c
    timer = timer
    operator = operator
    alice = alice
    NoEdit = NoEdit
    Node <- MCNode
    Self = a
    FirstLedger <- MCFirst
    Published <- MCGood
    Syncer = {timer}
    Approver = {alice}
    SkipVerify = FALSE
    Faults = {}
    MaxHistory = 3
PROPERTY Converges
