\* Three requests race for one slot and one cache.
SPECIFICATION FairSpec
CONSTANTS
  Requests = {r1, r2, r3}
  MaxStarts = 3
INVARIANTS GateConserved SameSummary
PROPERTIES Recovers
