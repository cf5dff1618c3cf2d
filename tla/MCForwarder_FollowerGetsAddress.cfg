\* Design section 8: single-flight followers receive the address.
CONSTANTS
    r1 = r1
    r2 = r2
    r3 = r3
    a1 = a1
    NoAddr = NoAddr
    Reqs <- MCReqs
    Addrs <- MCAddrs
    Disconnects <- MCDisconnects
    MaxRetries = 3
    SvcAddrRetry = 2
    Poolmgr = FALSE

SPECIFICATION Spec

INVARIANT FollowerGetsAddress

\* RoundTrip returns after at most maxRetries rounds: once every call has
\* returned the model stops.
CHECK_DEADLOCK FALSE
