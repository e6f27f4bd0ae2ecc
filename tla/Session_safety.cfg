SPECIFICATION MCSpec
CONSTANTS
  Users = {maya, doug}
  Nobody = Nobody
  None = None
  kMaxPendingWrites = 2
  MaxFaults = 2
  MaxRefreshes = 2
  MaxSignIns = 3
  MaxTaps = 2
  MaxEvents = 5
SYMMETRY Symmetry
INVARIANTS SessionTypeOK HomeBelongsToUser ResumeFindsStarting
PROPERTIES SentAsAuthor TokenIsOfTheUser
CHECK_DEADLOCK FALSE
