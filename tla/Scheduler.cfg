SPECIFICATION Spec
CONSTANTS
    MaxEvents = 4
    IdModulus = 3
INVARIANTS
    OneOwner
PROPERTIES
    EventRuns
    StoppedIsOver
\* Without calls and timers the thread waits.
CHECK_DEADLOCK FALSE
