SPECIFICATION Spec
CONSTANTS
  a = a  p = p  profile = profile  daily = daily
  Slots = {profile, daily}
  Singletons = {profile}
  Subjects = {e1}
  Keys = {a, p}
  FileKeys = {p}
  Schemas <- MCSchemas
  Ids = {i1, i2}
  Files = {f1}
  Reqs = {q1, q2}
  Revisions <- MCRevisions
  Nil = Nil
INVARIANTS TypeOK OneRecord FilesBehindValues NoLostEdit FitsPublished CreationClaimed
SYMMETRY FormsSymmetry
