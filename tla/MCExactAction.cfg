\* One approved execution beside one ordinary run, reconcile or verify.
SPECIFICATION ExactSpec
CONSTANTS
  Workers = {w1}
  Publishers = {w1}
  Actions = {a1}
  Objects = {1}
  Hashed = {}
  Evidence = {"artifact"}
  ObjectsOf <- MCObjectsOf
  MaxAttempts = 3
INVARIANTS ReportIsTrue
PROPERTIES OncePerApproval VerifiedIsFinal ImplementsAuthority
