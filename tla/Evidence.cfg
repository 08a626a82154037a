SPECIFICATION EvidenceSpec
CONSTANTS
  None = None
  Junk = Junk
  Algorithms = {"RSA", "ML-DSA"}
  Counts = {1024}
  Names <- SomeNames
  TokensIn <- SomeTokens
  Sizes = {0, 256, 2047}
  KeyNames = {"rsa", "ecdsa_sha1", "ml_dsa", "secp256r1"}
  MaxPieces = 2
  FactorValues <- Profiles
  ValuesOf <- AllValues
  MaxFields = 2
  Keys <- SomeKeys
  Assets <- SomeAssets
  MaxStore = 2
  MaxAssets = 2
  Portfolio <- TwoAssets
  ExactBases = {50000, 60000, 79996, 80000}
  Scenarios = {"public_timeline", "vendor_lag"}
CHECK_DEADLOCK FALSE
INVARIANTS
  FindingsAreRight
  AssessAgrees
  FormsAreReadAlike
  ScoresAndVerdictsAgree
PROPERTIES
  WorseNeverLooksBetter
