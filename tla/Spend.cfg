SPECIFICATION FairSpec
CONSTANTS
  home = home
  p1 = p1
  p2 = p2
  Tabs = {home}
  Phrases = {p1, p2}
  NoPhrase = NoPhrase
  OtherActs = {"edit", "revoke", "sweep", "disconnect"}
  MaxActs = 2
  MaxRuns = 2
  MaxFailures = 2
INVARIANTS Reachable CodeIsKept RegistryIsTrue
PROPERTIES Finishes
CHECK_DEADLOCK FALSE
