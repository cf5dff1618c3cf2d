\* A function of another executor type: the callback only stores.
CONSTANTS
    r1 = r1
    r2 = r2
    r3 = r3
    None = None
    Requests <- MCRequests
    ChanCap = 0
    SyncMode = FALSE

SPECIFICATION Spec

PROPERTY CallbackEventuallyAnswered

\* Finite request set: the agent goes idle once every request is answered.
CHECK_DEADLOCK FALSE
