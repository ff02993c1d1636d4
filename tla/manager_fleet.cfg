\* Two goroutines register storages and run ConnectAll, CloseAll and
\* HealthCheck concurrently.
CONSTANTS
    n1 = n1
    n2 = n2
    n3 = n3
    c1 = c1
    c2 = c2
    Names <- MCNames
    Callers <- MCCallers
    Workload <- MCWorkload
    InitOrder <- MCInitOrder
    MaxCalls = 2
SPECIFICATION Spec
\* Each caller stops after MaxCalls calls; a call that never returns is
\* caught by EveryCallReturns.
CHECK_DEADLOCK FALSE
INVARIANTS
    TypeOK
    ConnectAllReportsEveryFailure
    CloseAllReverseOrder
    HealthCheckInListOrder
PROPERTIES
    EveryCallReturns
