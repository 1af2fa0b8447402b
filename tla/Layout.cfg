CONSTANTS
  Sessions <- AllSessions
  SensorIds = {1, 2, 3}
  TableIds = {1, 2}
SPECIFICATION Spec
INVARIANTS StatesKept
PROPERTIES StoreDefines Reported TableFree
