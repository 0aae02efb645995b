SPECIFICATION Content
CONSTANTS
  vc = vc
  created = created
  ann = ann
  annEdit = annEdit
  bob = bob
  bobEdit = bobEdit
  t1 = t1
  t2 = t2
  note = note
  photo = photo
  Items = {vc, created, ann, annEdit, bob, bobEdit}
  Bundle <- SmallBundle
  KindOf <- Kinds
  Subject <- Subjects
  Tabs = {t1, t2}
  Overlap = FALSE
  Resources = {note, photo}
  Archived <- SmallArchive
  Chunked = {photo}
  MaxEpoch = 3
  MaxRuns = 3
  MaxFailures = 2
INVARIANTS MergedOnce 
 
CHECK_DEADLOCK FALSE
