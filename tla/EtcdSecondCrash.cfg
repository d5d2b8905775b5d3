SPECIFICATION Spec
CONSTANTS
    Key = {k1, k2}
    Value = {v1, v2}
    Cap = 2
    MaxCrashes = 2
    MaxRev = 5
    MaxRecords = 4
CHECK_DEADLOCK FALSE
SYMMETRY Symmetric
INVARIANT QuietCrashLosesNothing
