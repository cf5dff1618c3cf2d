\* Expected to be violated: see the finding on CallbackEventuallyAnswered.
CONSTANTS
    r1 = r1
    r2 = r2
    r3 = r3
    None = None
    Requests <- MCRequests
    ChanCap = 0
    SyncMode = TRUE

SPECIFICATION Spec

PROPERTY CallbackEventuallyAnswered

CHECK_DEADLOCK FALSE
