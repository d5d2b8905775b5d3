SPECIFICATION Spec
CONSTANTS
    Key = {k1, k2}
    Value = {v1}
    Cap = 2
    MaxCrashes = 1
    MaxRev = 4
    MaxRecords = 3
CHECK_DEADLOCK FALSE
SYMMETRY Symmetric
INVARIANTS TypeOK QuietCrashLosesNothing
