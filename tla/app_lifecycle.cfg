\* One goroutine starts, extends, stops and restarts an App of two HTTP
\* servers and a Group of two, whose listens and start hooks may fail.
CONSTANTS
    a = a
    b = b
    c = c
    m1 = m1
    m2 = m2
    Comps <- MCComps
    Initial <- MCInitial
    Late <- MCLate
    Priority <- MCPriority
    Group <- MCGroup
    MayFail <- MCServers
    FailingHooks = {"beforeStart", "afterStart"}
    Script <- MCScript
SPECIFICATION Spec
\* The goroutine stops after the last call of its script.
CHECK_DEADLOCK FALSE
INVARIANTS
    TypeOK
    ServersAgree
PROPERTIES
    StopsInReverse
    StartsInPriorityOrder
