SPECIFICATION Spec
CONSTANTS
  PresenceEvents = {e1}
  ProfileEvents = {}
  MaxRefreshes = 2
  MaxMarks = 2
  MaxCauses = 2
  CanFail = TRUE
  Nil = Nil
INVARIANTS TypeOK NeverStranded
PROPERTIES PollingConsistent AnnouncedIsShown
