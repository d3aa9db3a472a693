SPECIFICATION Spec
CONSTANTS
  Keys = {k1, k2}
  Recs = {i1, i2}
  Horizon = 2
  Nil = Nil
SYMMETRY PresenceSymmetry
INVARIANTS OneActiveRecord
