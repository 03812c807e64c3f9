SPECIFICATION ServicesSpec
CONSTANTS
  ann = ann
  ben = ben
  Accounts = {ann, ben}
  GivenRoles <- GivenRolesM
  Repos = {1}
  HomeOf <- HomeOfM
  TheOrg = TheOrg
  Descriptions = {"d", "e"}
  Clients = {c1, c2}
  Nil = Nil
  Listed = {1, 2, 3, 4}
  WalkerRoles = {"READER", "NONE"}
  PageLimit = 1
  k1 = k1
  k2 = k2
  i1 = i1
  stranger = stranger
  p = p
  q = q
  m1 = m1
  m2 = m2
  m3 = m3
  m4 = m4
  Material = {m1, m2, m3, m4}
  KindOf <- KindOfM
  PayloadOf <- PayloadOfM
  SignerOf <- SignerOfM
  HintOf <- HintOfM
  KeyOrder <- KeyOrderM
  Identities = {i1}
  Nobody = Nobody
  Bearers = {ann, ben}
  BearerRoles = {"WRITER", "NONE"}
  Images = {1, 2}
  ImageHome <- ImageHomeM
  Organization = Organization
  Anonymous = Anonymous
  RawScopes <- RawScopesM
  SigningKeySet = {s1, s2}
  Strays = {s3}
  FirstKey = s1
  NotRunning = NotRunning
  TokenTTL = 1
  ClockSkew = 1
  MaxHour = 3
  KeygenRuns = {g1, g2, g3}
  MaxRemovals = 1
  Tabs = {b1, b2}
  Tokens = {t1, t2}
  NoToken = NoToken
  SessionTTL = 1
  MaxMinute = 2
  Callers = {e1, e2, e3}
  Names = {"n1", "n2", "n3"}
  TakenNames = {"n3"}
  InvitationIds = {v1}
  Attempts = {x1, x2}
  UserNames = {u1}
  Origins = {o1, o2}
  LimitWindow = 2
  PerAccount = 1
  PerOrigin = 2
  MaxBuckets = 2
  PasswordSlots = 1
  MaxDelay = 1
  MaxSecond = 5
SYMMETRY ClientSymmetry
INVARIANTS
  AnswersTruthful WalkComplete EvidenceExact NothingOverlooked GrantsExact
  TokensAccepted ReadyMeansPair AuthenticatedTruly InvitationsExact LimitsHold
PROPERTY VisibilityAccountable
CHECK_DEADLOCK FALSE
