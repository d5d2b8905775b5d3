SPECIFICATION Spec
CONSTANTS
    Parts = {"breaker", "gateway", "rate", "reconcile", "lease"}
    Caller = {c1, c2, c3}
    Configs <- MCConfigs
    MaxSamples = 5
    Target = {t1, t2}
    Request = {r1}
    TargetConfig <- MCConsecutive
    Retries = 1
    Thread = {h1}
    Calls = {"consume", "available", "acquire", "offer", "level"}
    Amounts = {1, 2}
    Capacity = 2
    Refill = 1
    QueueSize = 2
    Leak = 1
    MaxClock = 5
    MaxTaken = 8
    Key = {k1, k2}
    QueueCapacity = 2
    MaxAttempts = 2
    MaxTimers = 2
    Replica = {p1, p2}
    NoHolder = NoHolder
    Ttl = 2
    MaxTime = 4
    MaxRevision = 4
INVARIANTS
    CountersFitState
    TrialsBounded
    ClosedBelowThreshold
    AccountBalances
    OfferedWithinRate
    OneUnexpiredGrant
    RevisionTellsTakeover
PROPERTIES
    HalfOpenEnds
    RequestsEnd
    QueuedIsReconciled
    CancelEndsLoop
\* The bounds stop the system, not the code.
CHECK_DEADLOCK FALSE
