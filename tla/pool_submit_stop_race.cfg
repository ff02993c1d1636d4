\* Submit or SubmitWait on one goroutine racing Stop or StopWait on another.
CONSTANTS
    c1 = c1
    c2 = c2
    Threads <- MCTwoCallers
    Workload <- MCLifecycle
    MaxWorkers = 2
    MinWorkers = 1
    QueueSize = 1
    MaxSpawn = 4
    MaxTasks = 3
    MaxTimeouts = 1
SPECIFICATION Spec
CHECK_DEADLOCK FALSE
INVARIANT NoSendOnClosedChannel
