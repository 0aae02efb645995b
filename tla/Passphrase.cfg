SPECIFICATION Methods
CONSTANTS
  p1 = p1
  p2 = p2
  p3 = p3
  home = home
  kiosk = kiosk
  Passphrases = {p1, p2, p3}
  First = p1
  NoPass = NoPass
  Browsers = {home, kiosk}
  Remembered = {home}
  BareEntry = FALSE
  Abandons = FALSE
  MaxFailures = 2
  k1 = k1
  k2 = k2
  b1 = b1
  Passkeys = {k1, k2}
  Backups = {b1}
  Oldest = k1
  Sessions = {home, kiosk}
  Attempts = 2
  RemovesBare = FALSE
  Overlaps = FALSE
  MaxTears = 2
INVARIANTS StandingIsNamed ResidueIsNamed AnchorStands
PROPERTIES RetiredReadsNoMore EstablishmentSettles
CHECK_DEADLOCK FALSE
