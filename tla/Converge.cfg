SPECIFICATION RetrySpec
CONSTANTS
  a1 = a1
  a2 = a2
  ag = ag
  g1 = g1
  g2 = g2
  g3 = g3
  c1 = c1
  c2 = c2
  s1 = s1
  s2 = s2
  NoSeed = NoSeed
  NoParty = NoParty
  Channels = {}
  Sessions = {s1, s2}
  Apps = {a1}
  Agents = {}
  Grants = {g1}
  Collections = {c1}
  Shared = {c1}
  AppPrivate = {}
  AppPublic = {}
  Grantee <- SoloGrantee
  Target <- SoloTarget
  RereadFails = FALSE
PROPERTIES DisconnectConverges
CHECK_DEADLOCK FALSE
