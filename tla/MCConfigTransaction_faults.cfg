CONSTANTS
  c1 = c1
  c2 = c2
  bad = bad
  Contents <- MCContents
  Valid <- MCValid
  None = None
  Requests = {r1, r2}
  Ids = {b1, b2, b3}
  Faults = {"io", "validator", "crash"}
SPECIFICATION FairSpec
INVARIANTS
  IInv
  ListedIsComplete
  SettledIsRecoverable
PROPERTIES
  ImplementsLedger
  ChangeIsReported
CHECK_DEADLOCK FALSE
