SPECIFICATION Spec
CONSTANT Message = {m1}
PROPERTY SocketCloses
CHECK_DEADLOCK FALSE
