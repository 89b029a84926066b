SPECIFICATION Spec
\* Every migrator ends; the file may be left full.
CHECK_DEADLOCK FALSE
CONSTANTS
  m1 = m1
  m2 = m2
  m3 = m3
  t1 = t1
  t2 = t2
  c1 = c1
  c2 = c2
  None = None
  Migrators <- MCMigrators
  HeadOf <- MCHeadOf
  Targets = {t1, t2}
  Markers = {marker}
  Uris = {uri}
  Contents = {c1, c2}
  MaxAttempts = 2
SYMMETRY MCSymmetry
INVARIANTS
  RTypeOK
  OneHistory
PROPERTIES
  ReplicasOnlyGrow
  MigratesAtOnce
