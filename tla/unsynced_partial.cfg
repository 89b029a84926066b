SPECIFICATION DSpec
CONSTANTS
  p1 = p1
  p2 = p2
  a1 = a1
  NoJob = NoJob
  Procs <- MCProcs
  Others = {}
  Inputs <- MCInputs
  Profiles = {"integrity"}
  Limit <- MCLimit
INVARIANTS
  PublishedIsSynced
