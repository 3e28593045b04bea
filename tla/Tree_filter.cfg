CONSTANTS
    INF = 1000
    MAX_DEPTH = 3
    NONE = None
SPECIFICATION Spec
INVARIANT FilterKeepsAll
CHECK_DEADLOCK FALSE
