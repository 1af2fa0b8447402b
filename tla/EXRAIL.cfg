SPECIFICATION Spec
CONSTANTS
    Sessions <- AllSessions
    MAX_FLAGS = 8
    MAX_STACK_DEPTH = 2
    minReadCount = 2
    MaxTasks = 4
INVARIANTS Exclusive BlinkOwned
PROPERTIES PauseHolds Served
