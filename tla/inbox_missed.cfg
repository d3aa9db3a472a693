SPECIFICATION Spec
CONSTANTS
  PresenceEvents = {e1}
  ProfileEvents = {e2}
  MaxRefreshes = 1
  MaxMarks = 0
  MaxCauses = 2
  CanFail = FALSE
  Nil = Nil
PROPERTIES PollingCatchesUp
