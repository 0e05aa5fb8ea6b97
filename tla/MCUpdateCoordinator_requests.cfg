CONSTANTS
  Versions <- MCVersions
  Current = 2
  Requests = {r1, r2}
SYMMETRY Alike
SPECIFICATION Spec
INVARIANTS
  IInv
  RecordNamesTheLaunched
  ReadyMeansVerified
PROPERTIES
  OwnRecordStays
