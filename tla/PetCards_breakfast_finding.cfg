SPECIFICATION Spec
CONSTANTS
  Devices = {d1, d2}
  Pets = {koda}
  InitPets = {koda}
  Installed = {d1, d2}
  kMaxPendingWrites = 2
  MaxFaults = 0
  UserOps = {"updateBB"}
  MaxTaps = 2
INVARIANTS BreakfastIsRecorded
