SPECIFICATION FairSpec
CONSTANTS
  Users = {maya, doug}
  Nobody = Nobody
  None = None
  kMaxPendingWrites = 1
  MaxFaults = 1
  MaxRefreshes = 1
  MaxSignIns = 2
  MaxTaps = 2
  MaxEvents = 5
PROPERTIES ClientFollowsAuth WritesAreSent
CHECK_DEADLOCK FALSE
