SPECIFICATION SmallSpec
CONSTANTS
  h1 = h1
  h2 = h2
  u1 = u1
  u2 = u2
  s1 = s1
  w1 = w1
  t1 = t1
  t2 = t2
  a1 = a1
  None = None
  Threads = {h1, h2}
  Tokens = {t1, t2}
  Agents = {a1}
  Versions <- Older
  MinSupported <- Minimum
  MaxClock = 3
  UserNames = {u1, u2}
  Sessions = {s1}
  Roles = {"security_architect", "operator", "auditor"}
  Routes <- AnyRoute
  Keys = {TRUE, FALSE}
  DemoModes = {TRUE, FALSE}
  AccOpen = 2
  Scanners = {"h"}
  Workspaces = {w1}
  Scopes <- SmallScopes
  Targets <- SmallTargets
  MaxScopes = 3
  MaxBlocks = 2
  Loads = {h1, h2}
  Demo <- DemoFiles
  Faults = {"list", "workspace", "refuse", "break", "files", "timeout"}
  LoadOpen = 2
SYMMETRY Symmetry
CHECK_DEADLOCK FALSE
INVARIANTS
  IInv
  RevocationHolds
  RequestsAreChecked
  ScopesDecide
  LoadsAreHonest
PROPERTIES
  RevokedOnce
  AccountsAreKept
