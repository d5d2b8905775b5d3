SPECIFICATION PathSpec
CONSTANTS
    Node = {n1, n2, n3}
    Value = {x, y}
    Bad = {}
    None = None
    LateReplies = FALSE
    MaxTerm = 2
    MaxLog = 1
    MaxCrash = 0
    MaxFault = 0
    MaxInflight = 1
SYMMETRY Symmetric
INVARIANTS
    AckedIsCommitted
\* The bounds stop the system, not the code.
CHECK_DEADLOCK FALSE
