SPECIFICATION MCSpec
CONSTANTS
  Devices = {d1, d2}
  Pets = {koda}
  InitPets = {koda}
  Installed = {}
  kMaxPendingWrites = 2
  MaxFaults = 0
  MaxCommits = 4
SYMMETRY DeviceSymmetry
INVARIANTS NoGhostPets
PROPERTIES NoFlicker
