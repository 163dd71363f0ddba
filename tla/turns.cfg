\* Three turns of one session; one research request in budget.
CONSTANTS
  MaxTurns = 3
  MaxRequests = 1
  Host <- MCHost
  Scope <- MCScope
  Granted <- MCGranted
  Requests <- MCRequests
SPECIFICATION Spec
INVARIANTS EvidenceIsAccounted FeedbackIsAudited
PROPERTIES TurnsEnd
CHECK_DEADLOCK FALSE
