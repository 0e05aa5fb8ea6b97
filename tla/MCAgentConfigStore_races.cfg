CONSTANTS
  Configs = {c1, c2}
  Keys = {k1, k2}
  Requests = {r1, r2, r3}
  None = None
SYMMETRY Alike
SPECIFICATION Spec
INVARIANTS
  IInv
  StoredIsConfirmed
  ReadersSeeOnePair
