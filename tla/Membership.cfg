SPECIFICATION FairSpec
CONSTANTS
  c1 = c1
  c2 = c2
  phone = phone
  laptop = laptop
  t1 = t1
  t2 = t2
  NoClient = NoClient
  Browsers = {phone, laptop}
  Tabs = {t1, t2}
  BrowserOf <- ATabEach
  Remembering = {t1, t2}
  Adopting = {t1}
  Clients = {c1, c2}
  MaxFailures = 1
INVARIANTS NoPhantom
PROPERTIES RemovalsStand RemovedReadsNoMore
CHECK_DEADLOCK FALSE
