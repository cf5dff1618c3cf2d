\* Expected to be violated: see the finding on CancelStopsRetries.
CONSTANTS
    r1 = r1
    r2 = r2
    r3 = r3
    a1 = a1
    NoAddr = NoAddr
    Reqs <- MCReqs
    Addrs <- MCAddrs
    Disconnects <- MCDisconnects
    MaxRetries = 3
    SvcAddrRetry = 2
    Poolmgr = FALSE

SPECIFICATION Spec

PROPERTY CancelStopsRetries

CHECK_DEADLOCK FALSE
