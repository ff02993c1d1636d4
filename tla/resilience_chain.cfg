\* Two goroutines call Execute on Chain(bucket, retry, breaker) while the
\* protected call fails and recovers and the clock runs.
CONSTANTS
    t1 = t1
    t2 = t2
    Threads <- MCThreads
    Chain <- MCChain
    MaxCalls = 2
    MaxAttempts = 3
    Delay = 1
    MaxDelay = 2
    Multiplier = 3
    FailureThreshold = 2
    SuccessThreshold = 2
    Timeout = 1
    Rate = 1
    Burst = 1
    MaxTime = 4
SPECIFICATION Spec
\* Each goroutine stops after MaxCalls calls.
CHECK_DEADLOCK FALSE
INVARIANTS
    TypeOK
    TokenBucketWindow
PROPERTIES
    RetrySchedule
