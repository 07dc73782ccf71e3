\* Two records, two files, one document to a run, everything happening.
SPECIFICATION FairSpec
CONSTANTS
  Events = {1, 2}
  f1 = f1
  f2 = f2
  t1 = t1
  t2 = t2
  Files = {f1, f2}
  Texts = {t1, t2}
  Listings <- TwoFiles
  Documents <- ProseAndScan
  Missing = Missing
  Broken = Broken
  Blank = Blank
  None = None
  InPlace = TRUE
  Limit = 1
  NotFoundWait = 2
  MaxUpsets = 2
  Kinds = {"votes"}
  Minutes = {1, 2}
  ReadingLimit = 1
INVARIANTS
  ExtractedIsKept
  BackoffHolds
  OneView
PROPERTIES
  PaidOnce
  EverythingExtracted
  EverythingRead
CHECK_DEADLOCK TRUE
