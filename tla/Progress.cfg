SPECIFICATION ProgressSpec
CONSTANTS
  alice = alice
  bob = bob
  None = None
  Digests = {d1, d2}
  Subjects = {alice, bob}
  Signers = {}
  Offered <- OneOffer
  Creators = {c1, c2}
  Asked = {}
  Periodic = Periodic
  MaxVersions = 2
  MaxAttempts = 1
  MaxExecutions = 0
  RepairBatch = 1
  a1 = a1
  a2 = a2
  w1 = w1
  m1 = m1
  m2 = m2
  x1 = x1
  t1 = t1
  f1 = f1
  p1 = p1
  Artifacts = {a1, a2}
  SBOMArtifacts = {a1}
  ReadArtifacts = {a1}
  ScanWorkers = {w1}
  ScannerOf <- OneScanner
  Nothing = Nothing
  ScanAttempts = 2
  ScanSlots = 2
  MaxDatabases = 2
  MaxClaims = 2
INVARIANTS
  VersionFresh ReportTruthful DetailTrue
PROPERTIES
  EventuallyScheduled EventuallyReverified ToolStateMonotone EventuallyUnlocked
CHECK_DEADLOCK FALSE
