\* One goroutine subscribes twice to a topic while another closes the
\* client; Close must leave no consumer goroutine running.
CONSTANTS
    p1 = p1
    p2 = p2
    a = a
    Threads <- MCSubscribeThreads
    Topics <- MCTopics
    Workload <- MCSubscribeTwiceClose
    ChanCap = 1
    MaxSubs = 2
    MaxMsgs = 1
SPECIFICATION Spec
CHECK_DEADLOCK FALSE
PROPERTY ConsumersStopAfterClose
