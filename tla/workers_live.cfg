SPECIFICATION LiveSpec
CONSTANTS
  p1 = p1
  p2 = p2
  o1 = o1
  a1 = a1
  NoJob = NoJob
  Others <- MCOthers
  Profiles = {"integrity"}
  Procs <- MCProcs
  Inputs <- MCInputs
  Listed <- MCListed
  Limit <- LiveLimit
PROPERTIES
  CallsReturn
  RunsEnd
  Converges
