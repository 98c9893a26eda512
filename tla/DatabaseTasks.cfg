SPECIFICATION Spec
CONSTANTS
    Query = {q1, q2, q3}
    Caller = {c1, c2}
    None = none
INVARIANTS
    NoLostWakeup
    OneOvertaken
    RunOnce
PROPERTIES
    QueryRun
\* After the thread has exited no call is left to make.
CHECK_DEADLOCK FALSE
