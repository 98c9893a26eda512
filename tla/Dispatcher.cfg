SPECIFICATION Spec
CONSTANTS
    Task = {t1, t2, t3}
    TimedTask = {t1}
    ShutdownTask = stop
    Producer = {p1, p2}
    DispatcherThread = d
INVARIANTS
    NoLostWakeup
PROPERTIES
    TaskHandled
    ShutdownEnds
    ImplementsExecutor
\* After the thread has exited no call is left to make.
CHECK_DEADLOCK FALSE
