SPECIFICATION MCFairSpec
CONSTANTS
  koda = koda
  teddy = teddy
  Pets = {koda, teddy}
  AllPets = AllPets
  Reads = {koda}
  OldTokens = TRUE
  MaxEvents = 2
  MaxListens = 2
  MaxDown = 1
INVARIANTS TypeOK OutstandingIsUnanswered LimboListensAreWanted TokensAgree ChangesMatchKeys SyncedScreenIsServers
PROPERTIES PromisedSpec ListensConverge ListensComeCurrent
CHECK_DEADLOCK FALSE
