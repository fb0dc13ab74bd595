CONSTANTS
  c1 = c1
  c2 = c2
  Calls = {c1, c2}
  alice = alice
  bob = bob
  Owners = {alice, bob}
  q1 = q1
  Queries = {q1}
  b1 = b1
  b2 = b2
  Builds = {b1, b2}
  PersonalTtl = 3
  OtherTtl = 2
  Sizes = {1, 2}
  MaxItems = 2
  MaxBytes = 3
  MaxTime = 4
  MaxLives = 2
SYMMETRY Symmetric
CHECK_DEADLOCK FALSE
SPECIFICATION Spec
INVARIANTS TypeOK WorkspaceBounded HitsStayWithOwner HitsAreNotStale
PROPERTIES OwnEvictionIsLate
