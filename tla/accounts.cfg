SPECIFICATION Spec
CONSTANTS
  Users = {u1}
  Roles = {r1, r2}
  Reqs = {q1, q2}
  Edits = {e1, e2}
  Views = {v1}
  Codes = {c1}
  Scopes = {s1}
  MaxFailed = 3
  Nil = Nil
INVARIANTS TypeOK LockoutExact FlagsAgree RolesAsAssigned SettingsAsSaved RightsAsSaved
PROPERTIES InUseStays
SYMMETRY AccountsSymmetry
CONSTRAINT Apart
