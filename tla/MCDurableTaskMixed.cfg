SPECIFICATION Spec
CONSTANTS
    w1 = w1
    w2 = w2
    Workers = {w1, w2}
    Jobs = {1, 2}
    SafeJobs = {1}
    MaxAttempts = 2
    LeaseTicks = 1
SYMMETRY WorkerSymmetry
INVARIANTS
    UnsafeRunsOnce
    PublicResult
PROPERTIES
    WaitingIsResumable
