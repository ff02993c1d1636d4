\* Two health checks find the connection broken during one outage.
CONSTANTS
    t1 = t1
    t2 = t2
    Threads <- MCThreads
    NoThread = NoThread
    Workloads <- MCHealOnly
    MaxRetries = 1
    MaxCalls = 1
    MaxClients <- MCMaxClients
    MaxOutages = 1
    Cancellable = FALSE
    InitConnected = {TRUE}
SPECIFICATION Spec
\* The goroutines stop after MaxCalls calls each; a goroutine stuck inside
\* a call is caught by CallsReturn, not by deadlock.
CHECK_DEADLOCK FALSE
INVARIANT NoDuplicateReconnect
SYMMETRY MCSymmetry
