SPECIFICATION Spec
CONSTANTS
    r1 = r1
    r2 = r2
    k1 = k1
    v1 = v1
    Nobody = Nobody
    Requests = {r1, r2}
    Recoveries = {k1}
    Readers = {v1}
    MaxLockLosses = 1
SYMMETRY RequestSymmetry
INVARIANT
    ActiveApprovalSkipped
