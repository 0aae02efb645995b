SPECIFICATION Keys
CONSTANTS
  c1 = c1
  c2 = c2
  seal = seal
  meet = meet
  o1 = o1
  MaxEpoch = 3
  MaxFailures = 2
  Collections = {c1, c2}
  Sites = {seal, meet}
  SealSites = {seal}
  Ceremonies = {o1}
  Remembered = FALSE
  HeldAdoption = TRUE
INVARIANTS RotatesAlone
PROPERTIES  RotationsSettle
CHECK_DEADLOCK FALSE
