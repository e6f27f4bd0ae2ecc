SPECIFICATION Spec
CONSTANTS
  Devices = {d1, d2}
  Pets = {koda}
  InitPets = {koda}
  Installed = {d1, d2}
  kMaxPendingWrites = 2
  MaxFaults = 1
  UserOps = {"updateTreatsUp", "updateTreatsDown"}
  MaxTaps = 2
SYMMETRY DeviceSymmetry
INVARIANTS TreatsNotNegative TreatsNotOvercounted
PROPERTIES ReadsAreFresh
