\* Section 4.5: a draw equal to a prefix sum selects that variant.
CONSTANTS
    MaxLen = 5
    MaxWeight = 2
    NoVariant = NoVariant

SPECIFICATION Spec

INVARIANT LowestCeiling

\* One call of findCeil per behaviour: the model stops once it returned.
CHECK_DEADLOCK FALSE
