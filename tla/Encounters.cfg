SPECIFICATION RunnerFairSpec
CONSTANTS
  c1 = c1
  c2 = c2
  c3 = c3
  seed = seed
  sweep = sweep
  annex = annex
  stranded = stranded
  notices = notices
  settings = settings
  Calls = {c1, c2, c3}
  Regs = {stranded, notices, settings}
  Inbox = {notices}
  Admitted = {stranded, notices}
  Block <- RememberedBlock
  Writers = {seed, sweep}
  Skipped = {}
  Seed = seed
  NoSeed = NoSeed
  NoCall = NoCall
INVARIANTS OneRun FreshIsCovered BehindWriters
PROPERTIES LimitsHold EveryCallSettles
CHECK_DEADLOCK FALSE
