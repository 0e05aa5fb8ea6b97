CONSTANTS
  p1 = p1
  r1 = r1
  r2 = r2
  Versions <- MCVersions
  Procs <- MCOneProc
  Applies <- MCNone
  Faults <- MCNone
  MaxInFlight = 1
  Installs <- MCInstalls
SPECIFICATION NativeSpec
SYMMETRY Alike
INVARIANTS
  InstallIInv
  ReplacesWhatItJudged
  InstalledIsReviewed
