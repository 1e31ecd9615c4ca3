SPECIFICATION Spec
CONSTANTS
    NULL = NULL
    None = None
PROPERTY EverythingEnds
CHECK_DEADLOCK FALSE
