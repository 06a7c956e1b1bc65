CONSTANTS
  o1 = o1
  o2 = o2
  a1 = a1
  a2 = a2
  NoArtifact = NoArtifact
  Nobody = Nobody
  Migrator = Migrator
  Replicated <- MCReplicated
  Occurrences <- MCOccurrences
  Streamed <- MCStreamed
  Imported <- MCImported
  Artifacts <- MCArtifacts
  Releases <- MCReleases
SYMMETRY MCSymmetry
SPECIFICATION Spec
INVARIANTS AuthorityAgrees EventsTrue
PROPERTIES ImportsStayTrue HistoryKept RefusesOnlyUnsound
