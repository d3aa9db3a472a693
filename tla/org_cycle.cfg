SPECIFICATION Spec
CONSTANTS
  Depts = {d1, d2}
  Emps = {e1}
  Reqs = {q1, q2}
  Nil = Nil
INVARIANTS Acyclic
