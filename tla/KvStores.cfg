SPECIFICATION Spec
CONSTANTS
    Parts = {"history", "leases", "calls", "replicas"}
    Key = {1, 2}
    Value = {"a"}
    LeaseId = {2, 3}
    NoLease = NoLease
    Ttl = 1
    Txns <- MCTxns
    Compactions = {0, 2, 4}
    CompactionsV2 = {3, 5}
    MaxRev = 6
    MaxNow = 1
    Caller = {c1, c2}
    Jobs <- MCJobs
    StartLeases = {2}
    MaxCallRev = 7
    Node = {n1, n2}
    Commands <- MCCommands
    LocalTxns <- MCLocalTxns
    Local = {"txn", "lease", "compact"}
    MaxLog = 2
    MaxReplicaRev = 4
SYMMETRY Symmetric
INVARIANTS
    TypeOK
    ReadAtPast
    PairTellsItsLife
    LeaseOwnsItsKeys
    HeardIsRecorded
    IndexSorted
    CurrentIsNewest
    AgreeUnlessOwn
PROPERTIES
    ImplementsAtomicKv
\* The bounds stop the system, not the code.
CHECK_DEADLOCK FALSE
