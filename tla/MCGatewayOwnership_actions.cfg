CONSTANTS
  r1 = r1
  r2 = r2
  Requests <- MCRequests
  Ops <- MCOps
  Attempts = 2
  Faults <- MCAllFaults
  World <- MCAllWorld
SPECIFICATION Spec
INVARIANTS
  IInv
  ReportIsTrue
  ActsOnWhatItSaw
  PageSeesWholeTransactions
