SPECIFICATION FaultsSpec
CONSTANTS
    n1 = n1
    n2 = n2
    n3 = n3
    write = write
    Node = {n1, n2, n3}
    Value = {write}
    None = None
    LateReplies = TRUE
    MaxTerm = 4
    MaxLog = 2
    MaxCrash = 1
    MaxFault = 1
    MaxInflight = 1
ACTION_CONSTRAINT FaultsBound
INVARIANTS
    ElectionSafety
    VoteDurable
    LogMatching
PROPERTIES
    DurableVoteStable
\* The bounds stop the system, not the code.
CHECK_DEADLOCK FALSE
