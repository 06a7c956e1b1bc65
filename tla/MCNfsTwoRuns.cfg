\* Two publishers of the same object share its partial name.
SPECIFICATION Spec
CONSTANTS
  Workers = {w1, w2}
  Publishers = {w1, w2}
  Objects = {1}
  Hashed = {}
  Evidence = {"artifact"}
  ObjectsOf <- MCObjectsOf
  MaxAttempts = 1
SYMMETRY Symmetry
INVARIANTS VerifiedIsReplicated
PROPERTIES AccusesOnlyOvertaken
