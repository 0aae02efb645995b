SPECIFICATION Records
CONSTANTS
  a = a
  v = v
  Kept = {a}
  Visits = {v}
  Attempts = 2
  TTL = 1
  OtherActs = {"remint", "reseed", "retire"}
  MaxActs = 2
  MaxRenewals = 2
  MaxSpaces = 2
  MaxFailures = 2
  MaxNow = 3
PROPERTIES  OfflineForgets Aims
CHECK_DEADLOCK FALSE
