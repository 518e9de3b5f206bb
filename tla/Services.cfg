\* The settings, the clients, the connections, and the algorithms on bounded inputs.
SPECIFICATION Spec
CONSTANTS
  Secrets = {s1}
  NoKey = nokey
  Labels = {"l1"}
  MaxStarts = 2
  MaxCommands = 1
  MaxEdits = 1
  Pages <- ThreePages
  MaxPower = 2
  MaxChanges = 3
  Callers = {a1, a2}
  MaxSwitches = 3
  Clients = {c1, c2}
  MaxRequests = 2
  MaxStages = 2
  Cap = 14
  Rows <- FourRows
  Height = 2
  MaxQuery = 2
INVARIANTS
  ServicesInv
  AliasesAreTheUsers
  ListingIsWhole
  FamiliesAreFolders
  PlacementsLast
  WorkflowsDeclare
  SharedFilesAreNobodys
  EstimatesAreMonotone
  PagesPartition
  ListingsAccount
PROPERTIES
  KeysAreKept
  KeyReachesDaemon
  OutagesAreBridged
  AnswersMatch
  EveryRequestEnds
  TogglesAreSeen
CHECK_DEADLOCK FALSE
