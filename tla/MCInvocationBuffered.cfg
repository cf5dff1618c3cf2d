\* Synchronous short function whose functionOutput channel has one slot.
CONSTANTS
    r1 = r1
    r2 = r2
    r3 = r3
    None = None
    Requests <- MCRequests
    ChanCap = 1
    SyncMode = TRUE

SPECIFICATION Spec

INVARIANT TypeOK
PROPERTY RequestsEventuallyRespond

\* Finite request set: the agent goes idle once every request is answered.
CHECK_DEADLOCK FALSE
