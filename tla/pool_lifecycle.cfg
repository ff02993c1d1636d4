\* One caller submitting around Stop or StopWait on a pool warmed with one
\* worker and growing to two; one idle-timer expiry.
CONSTANTS
    c1 = c1
    c2 = c2
    Threads <- MCTwoCallers
    Workload <- MCLifecycle
    MaxWorkers = 2
    MinWorkers = 1
    QueueSize = 1
    MaxSpawn = 4
    MaxTasks = 3
    MaxTimeouts = 1
SPECIFICATION Spec
CHECK_DEADLOCK FALSE
INVARIANTS
    TypeOK
    MaxWorkersBound
PROPERTIES
    StopWaitCompletes
    SubmittedTasksRun
