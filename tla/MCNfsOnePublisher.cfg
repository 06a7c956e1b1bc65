\* One publisher over one artifact; the other invocation reconciles or verifies.
SPECIFICATION FairSpec
CONSTANTS
  Workers = {w1, w2}
  Publishers = {w1}
  Objects = {1, 2}
  Hashed = {2}
  Evidence = {"artifact"}
  ObjectsOf <- MCObjectsOf
  MaxAttempts = 1
INVARIANTS LeftoversExact
PROPERTIES CreatesOnlyExact Converges ImplementsAuthority
