\* The search loop ends.
CONSTANTS
    MaxLen = 5
    MaxWeight = 2
    NoVariant = NoVariant

SPECIFICATION Spec

PROPERTY SearchEnds

\* One call of findCeil per behaviour: the model stops once it returned.
CHECK_DEADLOCK FALSE
