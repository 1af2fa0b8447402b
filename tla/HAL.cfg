SPECIFICATION Spec
CONSTANTS
  Sessions <- AllSessions
  Junk <- JunkBits
INVARIANTS WithinThrow
PROPERTIES Follow  NoPanicSpin
