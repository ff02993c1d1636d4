\* Two goroutines either Connect the same storage (one also reading its pool
\* statistics) or run health checks that reconnect it, from a new or a
\* connected storage, while the server goes up and down and callers cancel.
CONSTANTS
    t1 = t1
    t2 = t2
    Threads <- MCThreads
    NoThread = NoThread
    Workloads <- MCConnectOrHeal
    MaxRetries = 1
    MaxCalls = 2
    MaxClients <- MCMaxClients
    MaxOutages = 2
    Cancellable = TRUE
    InitConnected = {FALSE, TRUE}
SPECIFICATION Spec
\* The goroutines stop after MaxCalls calls each, and a nil-pointer panic
\* ends the process; a goroutine stuck inside a call is caught by
\* CallsReturn, not by deadlock.
CHECK_DEADLOCK FALSE
INVARIANTS
    TypeOK
    ConnectExclusive
    NoStuckTransition
    QuiescentConsistent
PROPERTIES
    LifecycleRefined
    CallsReturn
