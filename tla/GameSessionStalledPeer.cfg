SPECIFICATION SessionSpec
CONSTANTS
    Protocol = {p, q}
    None = None
INVARIANTS
    ReleasedHasNoPlayer
CHECK_DEADLOCK FALSE
