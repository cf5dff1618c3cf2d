\* Concurrent createOrGetJob calls and a deleteJob, complete pod spec.
CONSTANTS
    c1 = c1
    c2 = c2
    c3 = c3
    d1 = d1
    NoJob = NoJob
    Callers <- MCCallers
    Deleters <- MCDeleters
    PodSpec = "full"

SPECIFICATION Spec

INVARIANT Agreement
PROPERTY ImplementsRegistry


\* Every call returns and the deleter runs once: the model then stops.
CHECK_DEADLOCK FALSE
