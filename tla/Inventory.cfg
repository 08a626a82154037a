SPECIFICATION InventorySpec
CONSTANTS
  h1 = h1
  h2 = h2
  None = None
  Threads = {h1, h2}
  Kinds <- TwoKinds
  Environments = {"unknown", "null"}
  Scores = {1, 2}
  WorkspaceIds = {1, 2}
  ScanIds = {1, 2}
  AssetIds = {1, 2, 3, 4}
  MaxPayload = 2
  MaxOpen = 2
  Operations = {"ingest", "ingest_only", "create", "workspace", "update", "delete", "cleanup", "report"}
SYMMETRY Symmetry
CHECK_DEADLOCK FALSE
INVARIANTS
  AnswersAreTrue
  StoredIsConsistent
  CleanupKeepsHistory
PROPERTIES
  KeepsContract
  SingleRequestsAreExact
