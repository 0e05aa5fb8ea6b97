CONSTANTS
  p1 = p1
  p2 = p2
  p3 = p3
  a1 = a1
  a2 = a2
  Versions <- MCVersions
  Procs <- MCThreeProcs
  Applies <- MCTwoApplies
  Faults <- MCAllFaults
  MaxInFlight = 2
SYMMETRY Alike
VIEW Seen
CONSTRAINT TwoActBeyond
SPECIFICATION RacesSpec
INVARIANTS
  IInv
  UnprovenIsSupervised
  InstallersFollowTheRecord
  RollbackNeedsFailedWindows
  CountNeverInvented
PROPERTIES
  
  ImplementsContract
