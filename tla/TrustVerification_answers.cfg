SPECIFICATION AnswersSpec
CONSTANTS
  alice = alice
  bob = bob
  None = None
  Digests = {d1}
  Subjects = {alice, bob}
  Signers = {alice}
  Offered <- SomeOffers
  Creators = {c1}
  Asked = {d1}
  Periodic = Periodic
  MaxVersions = 2
  MaxAttempts = 2
  MaxExecutions = 2
  RepairBatch = 1
INVARIANTS TypeOK TrustByPolicy RevokedNotTrusted NeverMissing
PROPERTY JobsFollowExecutions
CHECK_DEADLOCK FALSE
