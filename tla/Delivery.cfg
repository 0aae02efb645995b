SPECIFICATION FairTab
CONSTANTS
  ag = ag
  c1 = c1
  s1 = s1
  s2 = s2
  NoSeed = NoSeed
  NoParty = NoParty
  Sessions = {s1}
  Apps = {}
  Agents = {ag}
  Grants = {1, 2}
  Collections = {c1}
  Shared = {}
  AppPrivate = {}
  AppPublic = {}
  Channels = {1}
  Grantee <- OneAgent
  Target <- OneTarget
  Opener <- OneOpener
  RereadFails = FALSE
  MaxDue = 1
PROPERTY QueuedIsDelivered
CHECK_DEADLOCK FALSE
