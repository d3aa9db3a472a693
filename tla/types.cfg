SPECIFICATION FairSpec
CONSTANTS
  Keys = {k1, k2, k3}
  Presets = {k1, k2}
  Working = k1
  Reqs = {q1, q2}
  Nil = Nil
INVARIANTS TypeOK OneDefault
PROPERTIES Dictionary RequestsEnd
