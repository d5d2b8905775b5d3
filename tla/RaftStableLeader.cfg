SPECIFICATION LiveSpec
CONSTANTS
    n1 = n1
    n2 = n2
    n3 = n3
    write = write
    Node = {n1, n2, n3}
    Value = {write}
    None = None
    LateReplies = FALSE
    MaxTerm = 3
    MaxLog = 3
    MaxCrash = 0
    MaxFault = 0
    MaxInflight = 2
PROPERTIES
    StableLeaderReplicates
\* The bounds stop the system, not the code.
CHECK_DEADLOCK FALSE
