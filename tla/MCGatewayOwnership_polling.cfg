CONSTANTS
  r1 = r1
  r2 = r2
  Requests <- MCRequests
  Ops <- MCPolling
  Attempts = 2
  Faults <- MCNobody
  World <- MCNobody
SPECIFICATION Spec
INVARIANT StartMarksOwnership
