SPECIFICATION FairSpec
CONSTANTS
  j1 = j1
  j2 = j2
  w1 = w1
  c1 = c1
  NoJob = NoJob
  Jobs = {j1, j2}
  Workers = {w1}
  Cancels = {c1}
  MaxRetries = 1
  ClaimBatch = 2
  MaxCrashes = 0
  MaxLost = 0
PROPERTIES
  TerminalIsFinal
