SPECIFICATION Spec
CHECK_DEADLOCK FALSE
CONSTANTS
  i1 = i1
  i2 = i2
  None = None
  Inputs <- MCInputs
  Observations <- MCObservations
  Slips <- MCSlips
  Becomes <- MCBecomes
  Limit <- MCLimit
INVARIANTS
  TypeOK
  ReceiptIsOneStory
  VerifiedIsProven
  OwnerDecided
  NoActionInDoubt
  CheckedIsFresh
  ReadOnlyPath
