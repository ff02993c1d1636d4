\* A client retries a POST on two instances while the first attempt runs.
CONSTANTS
    i1 = i1
    i2 = i2
    r1 = r1
    r2 = r2
    r3 = r3
    k1 = k1
    b1 = b1
    NoRecord = NoRecord
    NoFP = NoFP
    Instances <- MCInstances
    Requests <- MCRequests
    Key <- MCKey
    Body <- MCBody
    Inst <- MCInst
    MwCheckFingerprint = TRUE
    CheckFingerprint = TRUE
    FnMayFail = FALSE
    RedisMayFail = FALSE
    L1MayDrop = FALSE
SPECIFICATION Spec
\* Every request is answered and the caches are left as they are.
CHECK_DEADLOCK FALSE
INVARIANT Idempotency
