\* Three initializers, two targets, both adapters.
SPECIFICATION MCSpec
CONSTANTS
  i1 = i1
  i2 = i2
  i3 = i3
  t1 = t1
  t2 = t2
  Invocations = {i1, i2, i3}
  Targets = {t1, t2}
INVARIANTS DoneMeansBound
PROPERTIES ImplementsRegistry Resumes
CHECK_DEADLOCK FALSE
