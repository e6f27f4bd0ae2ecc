SPECIFICATION MCSpec
CONSTANTS
  koda = koda
  teddy = teddy
  Pets = {koda, teddy}
  AllPets = AllPets
  Reads = {}
  OldTokens = TRUE
  MaxEvents = 2
  MaxListens = 2
  MaxDown = 2
INVARIANTS CurrentIsConsistent
CHECK_DEADLOCK FALSE
