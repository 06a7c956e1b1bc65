\* Every observation, with records of another round mixed in, and one pilot.
SPECIFICATION Spec
CONSTANTS
  Snapshots = {1, 2}
  Readings <- MCReadings
  Others <- MCOthers
  Claims <- MCClaims
INVARIANTS OneLineage FailsClosed WaveCReadOnly ReadOnlyAccepted
