SPECIFICATION Spec
CONSTANTS
    Caller = {c1, c2}
    Name = {n1, n2}
    Value = {v1, v2}
    Cap = 2
    Readings <- MCReadings
    MaxCalls = 3
    MaxCrashes = 2
SYMMETRY Symmetric
CHECK_DEADLOCK FALSE
INVARIANT ResourcesSurvive
