SPECIFICATION FairSpec
CONSTANTS
    w1 = w1
    w2 = w2
    Workers = {w1, w2}
    Jobs = {1}
    SafeJobs = {1}
    MaxAttempts = 3
    LeaseTicks = 2
INVARIANTS
    LedgerConsistent
    LedgerNeverFaults
    OneOwner
PROPERTIES
    ImplementsOutcome
    EverySubmissionSettles
