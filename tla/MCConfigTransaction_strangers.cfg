CONSTANTS
  c1 = c1
  c2 = c2
  bad = bad
  Contents = {c1, bad}
  Valid = {c1}
  None = None
  Requests = {r1}
  Ids = {b1, b2, b3}
  Faults = {"io", "rot", "external"}
SYMMETRY AlikeBackups
SPECIFICATION Spec
PROPERTIES
  RestoresWhatWasSaved
CHECK_DEADLOCK FALSE
