SPECIFICATION FairSpec
CONSTANTS
    Node = {n1, n2}
    Seed <- AllKnown
    Timeout = 1
    MaxBumps = 2
INVARIANTS TypeOK TermsComeFromTimeouts
PROPERTY TermsConverge
