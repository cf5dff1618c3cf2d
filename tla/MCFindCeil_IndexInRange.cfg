\* findCeil never indexes past the end of the variant list.
CONSTANTS
    MaxLen = 5
    MaxWeight = 2
    NoVariant = NoVariant

SPECIFICATION Spec

INVARIANT IndexInRange

\* One call of findCeil per behaviour: the model stops once it returned.
CHECK_DEADLOCK FALSE
