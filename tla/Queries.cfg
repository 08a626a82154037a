SPECIFICATION QueriesSpec
CONSTANTS
  None = None
  Snapshots <- AllSnapshots
  Filters = {{}, {"SIGNED_BY"}}
  Depths = {0, 2}
  Hosts <- SomeHosts
  Networks <- SomeNetworks
  Names = {"web", "db"}
  Types = {"endpoint"}
  Risks <- AllRisks
  Requests <- SomeRequests
  Exporters = {"x", "y"}
  MaxRisks = 2
  MaxFaults = 2
CHECK_DEADLOCK FALSE
INVARIANTS
  GraphAnswersAreExact
  ProjectionIsWhole
  EachNameOnce
  ExportsFileInOrder
  RetriesFileOnce
PROPERTIES
  EverythingEnds
  NoBetterIsNotPostponed
