SPECIFICATION Deletions
CONSTANTS
  t1 = t1
  t2 = t2
  c1 = c1
  c2 = c2
  me = me
  acct = acct
  replica = replica
  Tabs = {t1, t2}
  Remembered = {t2}
  Siblings = {c1, c2}
  Usable = {c1}
  Acting = me
  Account = acct
  Replica = replica
  MaxAnnex = 3
  MaxFailures = 2
INVARIANTS Enterable RunsReportTrue
PROPERTIES GoesInTheEnd
CHECK_DEADLOCK FALSE
