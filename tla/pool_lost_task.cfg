\* TestWorker_StopWait's calls on NewWorker(1, n): two Submits, then
\* StopWait, with one idle-timer expiry.
CONSTANTS
    c1 = c1
    c2 = c2
    Threads <- MCOneCaller
    Workload <- MCSubmitStopWait
    MaxWorkers = 1
    MinWorkers = 0
    QueueSize = 2
    MaxSpawn = 2
    MaxTasks = 2
    MaxTimeouts = 1
SPECIFICATION Spec
CHECK_DEADLOCK FALSE
PROPERTY StopWaitCompletes
