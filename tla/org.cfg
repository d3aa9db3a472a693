SPECIFICATION Spec
CONSTANTS
  Depts = {d1, d2, d3}
  Emps = {e1}
  Reqs = {q1, q2}
  Nil = Nil
INVARIANTS TypeOK LockedReferences TreeWithoutRaces ScopeFollowsTree
PROPERTIES FreshSavesNarrow
SYMMETRY OrgSymmetry
CONSTRAINT Bounded
