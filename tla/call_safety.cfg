SPECIFICATION Spec
CONSTANTS
  p1 = p1
  p2 = p2
  o1 = o1
  a1 = a1
  NoJob = NoJob
  Procs <- MCProcs
  Others <- MCOthers
  Inputs <- MCOneInput
  Profiles = {"integrity"}
  Limit <- MCLimit
SYMMETRY ProcSymmetry
INVARIANTS
  TypeOK
  Exclusion
  AuthorityIsWhole
  ReportBeforeManifest
  FilesHaveAuthority
  QuarantineIsTorn
  ResultIsTrue
PROPERTIES
  UnambiguousProgress
  NoReplace
  HolderWrites
  ImplementsLedger
