SPECIFICATION Spec
CONSTANTS
  Devices = {d1, d2}
  Pets = {koda, teddy}
  InitPets = {koda}
  Installed = {d1, d2}
  kMaxPendingWrites = 2
  MaxFaults = 1
  UserOps = {"updateDB", "updateTreatsUp", "save", "delete"}
  MaxTaps = 2
SYMMETRY DeviceSymmetry
INVARIANTS TypeOK LoneTapSurvives
PROPERTIES DeletedPetsStayDeleted
