\* findCeil on every list of up to five variants: what holds.
CONSTANTS
    MaxLen = 5
    MaxWeight = 2
    NoVariant = NoVariant

SPECIFICATION Spec

INVARIANT TypeOK
INVARIANT SelectsCeiling
INVARIANT CeilingUpToTie

\* One call of findCeil per behaviour: the model stops once it returned.
CHECK_DEADLOCK FALSE
