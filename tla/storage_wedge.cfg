\* A Connect racing a health check's reconnect leaves the storage Connected with no client.
CONSTANTS
    t1 = t1
    t2 = t2
    Threads <- MCThreads
    NoThread = NoThread
    Workloads <- MCConnectAndPing
    MaxRetries = 1
    MaxCalls = 1
    MaxClients <- MCMaxClients
    MaxOutages = 1
    Cancellable = FALSE
    InitConnected = {FALSE}
SPECIFICATION Spec
\* The goroutines stop after MaxCalls calls each; a goroutine stuck inside
\* a call is caught by CallsReturn, not by deadlock.
CHECK_DEADLOCK FALSE
INVARIANT QuiescentConsistent
