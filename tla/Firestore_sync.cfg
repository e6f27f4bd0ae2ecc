SPECIFICATION FairSpec
CONSTANTS
  Devices = {d1, d2}
  Pets = {koda}
  InitPets = {koda}
  Installed = {}
  kMaxPendingWrites = 2
  MaxFaults = 1
  MaxCommits = 3
INVARIANTS CacheCatchesUp AnswersMatchQueue
PROPERTIES CacheNeverRegresses DevicesConverge WritesLeaveTheQueue
