SPECIFICATION Spec
CONSTANTS
  Keys = {k1, k2, k3}
  Recs = {i1, i2}
  Horizon = 3
  Nil = Nil
SYMMETRY PresenceSymmetry
INVARIANTS TypeOK OneStateUndisturbed FormBehindRecord
