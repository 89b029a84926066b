SPECIFICATION MCSpec
CONSTANTS
  p1 = p1
  p2 = p2
  o1 = o1
  a1 = a1
  a2 = a2
  NoJob = NoJob
  NoManifest = NoManifest
  Procs <- MCProcs
  Others <- MCOthers
  Inputs <- MCInputs
  Listed <- MCListed
  Profiles = {"integrity"}
  Limit <- MCLimit
SYMMETRY WorkerSymmetry
INVARIANTS
  XTypeOK
  PassIsComplete
  CountedIsComplete
  AlreadyMeansBefore
  PassIsAsApproved
PROPERTIES
  ApprovedWork
