SPECIFICATION Spec
CONSTANTS
    Query = {q1}
    Caller = {c1}
    None = none
PROPERTY ShutdownEnds
CHECK_DEADLOCK FALSE
