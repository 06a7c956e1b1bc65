\* The same two publishers: one may link what the other is still writing.
SPECIFICATION Spec
CONSTANTS
  Workers = {w1, w2}
  Publishers = {w1, w2}
  Objects = {1}
  Hashed = {}
  Evidence = {"artifact"}
  ObjectsOf <- MCObjectsOf
  MaxAttempts = 1
PROPERTIES ImmutableReplica
