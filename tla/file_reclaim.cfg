SPECIFICATION FairSpec
CONSTANTS
  f1 = f1  f2 = f2  f3 = f3  u1 = u1  u2 = u2
  Files = {f1, f2}
  Users = {u1}
  Refs = {r1}
  Uows = {t1}
  Cleaners = {c1}
  Owner <- MCOwner
  Size <- MCSize
  Bytes <- MCBytes
  TenantQuota = 3
  UserQuota = 3
  DiskRoom = 3
  ClaimLimit = 1
  MaxCrashes = 0
  DiskFaults = TRUE
  Nil = Nil
PROPERTIES ExpiredReclaimed UploadsEnd
CHECK_DEADLOCK FALSE
