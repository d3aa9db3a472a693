SPECIFICATION Spec
CONSTANTS
  f1 = f1  f2 = f2  f3 = f3  u1 = u1  u2 = u2
  Files = {f1, f2}
  Users = {u1}
  Refs = {r1, r2}
  Uows = {t1, t2}
  Cleaners = {c1}
  Owner <- MCOwner
  Size <- MCSize
  Bytes <- MCBytes
  TenantQuota = 3
  UserQuota = 3
  DiskRoom = 3
  ClaimLimit = 2
  MaxCrashes = 0
  DiskFaults = TRUE
  Nil = Nil
SYMMETRY UowSymmetry
INVARIANTS TypeOK BytesBehindRows BoundIffAttached UowAllOrNothing
PROPERTIES Lifecycle
