SPECIFICATION FairSpec
CONSTANTS
  Devices = {d1}
  Pets = {koda}
  InitPets = {koda}
  Installed = {d1}
  kMaxPendingWrites = 2
  MaxFaults = 2
  UserOps = {"updateTreatsUp"}
  MaxTaps = 3
INVARIANTS SoloTapsAreExact
PROPERTIES TapsAreAnswered
