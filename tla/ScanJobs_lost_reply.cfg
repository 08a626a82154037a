SPECIFICATION FairSpec
CONSTANTS
  j1 = j1
  j2 = j2
  w1 = w1
  w2 = w2
  NoJob = NoJob
  Jobs = {j1, j2}
  Workers = {w1, w2}
  Cancels = {}
  MaxRetries = 1
  ClaimBatch = 2
  MaxCrashes = 0
  MaxLost = 1
PROPERTIES
  RunningSettles
