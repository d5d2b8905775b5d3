SPECIFICATION CommitSpec
CONSTANTS
    n1 = n1
    n2 = n2
    n3 = n3
    write = write
    Node = {n1, n2, n3}
    Value = {write}
    None = None
    LateReplies = FALSE
    MaxTerm = 4
    MaxLog = 2
    MaxCrash = 2
    MaxFault = 0
    MaxInflight = 2
ACTION_CONSTRAINT CommitBound
INVARIANTS
    TypeOK
    CommittedPrefix
    LeaderCompleteness
    CommitOnMajority
PROPERTIES
    ImplementsReplicatedLog
\* The bounds stop the system, not the code.
CHECK_DEADLOCK FALSE
