\* Two runs, reconciles or verifies at a time over one artifact.
SPECIFICATION Spec
CONSTANTS
  Workers = {w1, w2}
  Publishers = {w1, w2}
  Objects = {1, 2}
  Hashed = {2}
  Evidence = {"artifact"}
  ObjectsOf <- MCObjectsOf
  MaxAttempts = 1
SYMMETRY Symmetry
INVARIANTS
  VerifiedIsReplicated
  PassMeansVerified
  CreditedOnce
  VerifyNeverAccuses
PROPERTIES
  ImplementsAuthority
  AttemptPrecedesCreate
