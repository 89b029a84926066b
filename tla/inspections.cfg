SPECIFICATION MCSpec
CHECK_DEADLOCK FALSE
CONSTANTS
  p1 = p1
  a1 = a1
  a2 = a2
  c1 = c1
  c2 = c2
  c3 = c3
  c4 = c4
  t1 = t1
  t2 = t2
  NoJob = NoJob
  Direct = Direct
  Procs <- MCProcs
  Others = {}
  Profiles = {"integrity"}
  Inputs <- MCInputs
  Listed <- MCListed
  Clients <- MCClients
  Tools = {t1, t2}
  ToolOf <- MCToolOf
  Limit <- MCLimit
INVARIANTS
  ITypeOK
  OneCallPerTool
  EveryCountIsPresentable
  AnswersStayTrue
