SPECIFICATION SpecPeerReads
CONSTANT Message = {m1, m2, m3}
INVARIANTS
    NoStalledQueue
    ReleasedOnce
PROPERTIES
    FlushedBeforeClose
    SocketCloses
    SilentPeerGoes
\* A connection that is closed and destroyed has nothing left to do.
CHECK_DEADLOCK FALSE
