CONSTANTS
  koda = koda
  d1 = d1
  Pets = {koda}
  Devices = {d1}
  InitPets = {}
  Installed = {}
  kMaxPendingWrites = 1
  MaxFaults = 1
  MaxCommits = 4
  MaxLists = 2
  Kinds = {"set","delete","breakfast"}
  MaxItems = 0
SPECIFICATION FairListsSpec
INVARIANTS TypeOK ListsAgree WaitingIsJustified ViewLagsOnlyForWatch QuietListsShowTheServer
PROPERTIES AppearancesAreAnswered ListsShowTheServer
CHECK_DEADLOCK FALSE
