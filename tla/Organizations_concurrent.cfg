SPECIFICATION Spec
CONSTANTS
  alice = alice
  bob = bob
  carol = carol
  Users = {alice, bob, carol}
  Creator = alice
  Requests = {r1, r2}
  Offered = {"OWNER", "ADMIN", "WRITER"}
  None = None
SYMMETRY Symmetric
INVARIANTS TypeOK AlwaysOwned
PROPERTY ElevatedByOwner
