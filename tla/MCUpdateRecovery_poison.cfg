CONSTANTS
  p1 = p1
  a1 = a1
  Versions <- MCVersions
  Procs <- MCOneProc
  Applies <- MCOneApply
  Faults <- MCCrash
  MaxInFlight = 1
SPECIFICATION Spec
INVARIANT RecordStaysReadable
