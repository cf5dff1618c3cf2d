\* Throttled resolution (newdeploy/container/wasm executor types).
CONSTANTS
    r1 = r1
    r2 = r2
    r3 = r3
    a1 = a1
    NoAddr = NoAddr
    Reqs <- MCReqs
    Addrs <- MCAddrs
    Disconnects <- MCDisconnects
    MaxRetries = 3
    SvcAddrRetry = 2
    Poolmgr = FALSE

SPECIFICATION Spec

INVARIANT TypeOK
INVARIANT SingleFlight
INVARIANT AddressHeld
PROPERTY AllReturn

\* RoundTrip returns after at most maxRetries rounds: once every call has
\* returned the model stops.
CHECK_DEADLOCK FALSE
