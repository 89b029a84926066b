SPECIFICATION Spec
CONSTANTS
  o1 = o1
  o2 = o2
  a1 = a1
  a2 = a2
  r1 = r1
  s1 = s1
  s2 = s2
  None = None
  Sources <- TwoSources
  Releases <- AllReleases
  Occurrences <- TwoOccurrences
  Artifacts <- OneArtifact
  Recordings <- NoRecordings
  SourceOf <- OneSourceOf
  ArtifactSource <- OneArtifactSource
  RecordingSource <- NoRecordingSource
CHECK_DEADLOCK FALSE
INVARIANTS
  BackfillSucceeds
