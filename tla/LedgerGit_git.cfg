SPECIFICATION Spec
CONSTANTS
    a = a
    b = b
    j = j
    Node <- MCNode
    Key <- MCNode
    WgKey <- MCNode
    Cidr <- MCCidr
    Endpoint <- MCNode
    Subject <- MCSubject
    Unmerged = Unmerged
    Clone = {a, b}
    Identity <- MCPair
    Founder = {a}
    Uses <- MCUses
    MaxSeq = 3
    MaxHistory = 4
INVARIANTS TypeOK EveryLogReplays MembersConsented OneHeadOneMembership
PROPERTIES PublishedLogGrows PublishedFilesKept
CHECK_DEADLOCK FALSE
