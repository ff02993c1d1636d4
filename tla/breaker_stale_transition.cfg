\* Two goroutines call Execute on a circuit breaker alone while the
\* protected call fails and recovers and the clock runs.
CONSTANTS
    t1 = t1
    t2 = t2
    Threads <- MCThreads
    Chain <- MCBreakerOnly
    MaxCalls = 3
    MaxAttempts = 1
    Delay = 0
    MaxDelay = 0
    Multiplier = 1
    FailureThreshold = 1
    SuccessThreshold = 1
    Timeout = 1
    Rate = 0
    Burst = 0
    MaxTime = 3
SPECIFICATION Spec
\* Each goroutine stops after MaxCalls calls.
CHECK_DEADLOCK FALSE
PROPERTY BreakerRefined
