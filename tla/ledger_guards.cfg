SPECIFICATION Spec
CONSTANTS
  o1 = o1
  o2 = o2
  a1 = a1
  a2 = a2
  r1 = r1
  s1 = s1
  s2 = s2
  None = None
  Sources <- TwoSources
  Releases <- AllReleases
  Occurrences <- TwoOccurrences
  Artifacts <- TwoArtifacts
  Recordings <- OneRecording
  SourceOf <- MixedSourceOf
  ArtifactSource <- MixedArtifactSource
  RecordingSource <- OneRecordingSource
CHECK_DEADLOCK FALSE
INVARIANTS
  LTypeOK
  EventsTellTheTruth
  AuthorityCycle
  ImportsAreProven
PROPERTIES
  AuthorityOnlyGrows
