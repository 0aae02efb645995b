SPECIFICATION Scenes
CONSTANTS
  ag = ag
  c1 = c1
  s1 = s1
  s2 = s2
  NoSeed = NoSeed
  NoParty = NoParty
  Sessions = {s1, s2}
  Apps = {}
  Agents = {ag}
  Grants = {1, 2, 3}
  Collections = {c1}
  Shared = {}
  AppPrivate = {}
  AppPublic = {}
  Channels = {1}
  Grantee <- OneAgent
  Target <- OneTarget
  Opener <- OneOpener
  RereadFails = FALSE
  MaxDue = 1
INVARIANTS HeldIsListed PairwiseStable RenewedOnce
PROPERTIES StaleWritesKeep
CHECK_DEADLOCK FALSE
