CONSTANTS
  Sessions <- AllSessions
  Clients <- MCClients
  Letters <- MCLetters
  Cabs <- MCCabs
SPECIFICATION Spec
INVARIANTS ViewTrue
PROPERTIES DeadMan
