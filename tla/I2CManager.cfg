CONSTANTS
  Sessions <- AllSessions
  Requests <- MCRequests
SPECIFICATION Spec
INVARIANTS OKMeansDone
PROPERTIES Completes ImplementsService
