CONSTANTS
    Clients = {0, 1}
    Connections = {1, 2, 3}
    PrescanOver = 6
    COMMAND_BUFFER_SIZE = 10
    FlashAt <- MCFlashAt
    Commands <- MCCommands
    Sessions <- AllSessions
SPECIFICATION Spec
CHECK_DEADLOCK FALSE
INVARIANTS RingHoldsDue Delivered Attributed
PROPERTIES Drained
