CONSTANTS
  p1 = p1
  a1 = a1
  a2 = a2
  v1 = v1
  v2 = v2
  NoView = NoView
  Versions <- MCVersions
  Procs <- MCOneProc
  Applies <- MCTwoApplies
  MaxInFlight = 2
  Faults <- MCNoFaults
  Views <- MCViews
  MaxInbox = 2
SPECIFICATION FairDesktopSpec
INVARIANT OneWindow
PROPERTIES
  AskIsAnswered
  UpdateSettles
