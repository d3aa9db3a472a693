SPECIFICATION Spec
CONSTANTS
  f1 = f1  f2 = f2  f3 = f3  u1 = u1  u2 = u2
  Files = {f1, f2, f3}
  Users = {u1, u2}
  Refs = {}
  Uows = {}
  Cleaners = {c1, c2}
  Owner <- MCOwner
  Size <- MCSize
  Bytes <- MCBytes
  TenantQuota = 3
  UserQuota = 2
  DiskRoom = 4
  ClaimLimit = 1
  MaxCrashes = 1
  DiskFaults = FALSE
  Nil = Nil
INVARIANTS QuotaRespected DiskWithinRoom NoOrphanBytes CleanedOnce
SYMMETRY UowSymmetry
