SPECIFICATION Spec
CONSTANTS
  a1 = a1
  a2 = a2
  ag = ag
  g1 = g1
  g2 = g2
  g3 = g3
  c1 = c1
  c2 = c2
  s1 = s1
  s2 = s2
  NoSeed = NoSeed
  NoParty = NoParty
  Channels = {}
  Sessions = {s1}
  Apps = {a1, a2}
  Agents = {ag}
  Grants = {g1, g2, g3}
  Collections = {c1, c2}
  Shared = {c1}
  AppPrivate = {c2}
  AppPublic = {}
  Grantee <- PartiesGrantee
  Target <- PartiesTarget
  RereadFails = FALSE
SYMMETRY Swapped
INVARIANTS TypeOK HeldIsListed HandedOverIsAudited
PROPERTIES AccessIsTrue IsGrantIndex
CHECK_DEADLOCK FALSE
