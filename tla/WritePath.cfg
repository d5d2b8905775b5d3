SPECIFICATION PathSpec
CONSTANTS
    Node = {n1, n2, n3}
    Value = {x, y}
    Bad = {y}
    None = None
    LateReplies = FALSE
    MaxTerm = 2
    MaxLog = 2
    MaxCrash = 1
    MaxFault = 0
    MaxInflight = 1
SYMMETRY Symmetric
ACTION_CONSTRAINT PathBound
INVARIANTS
    DeliveredOnceInOrder
    AckedIndexCommitted
    AckableUnderSameLeader
\* The bounds stop the system, not the code.
CHECK_DEADLOCK FALSE
