SPECIFICATION Spec
CONSTANTS
  j1 = j1
  j2 = j2
  w1 = w1
  w2 = w2
  c1 = c1
  NoJob = NoJob
  Jobs = {j1, j2}
  Workers = {w1, w2}
  Cancels = {c1}
  MaxRetries = 1
  ClaimBatch = 2
  MaxCrashes = 1
  MaxLost = 1
SYMMETRY Symmetry
INVARIANTS
  SingleHolder
  OutcomeIsReal
  AtMostOneCreated
  AuditIsTruthful
  CancelHolds
  IInv
PROPERTIES
  CancelIsReliable
  ImplementsLifecycle
