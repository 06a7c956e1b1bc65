\* One worker whose runs are repeated: every interrupted state is left behind.
SPECIFICATION FairSpec
CONSTANTS
  Workers = {w1}
  Publishers = {w1}
  Objects = {1, 2}
  Hashed = {2}
  Evidence = {"artifact"}
  ObjectsOf <- MCObjectsOf
  MaxAttempts = 1
PROPERTIES Converges
