CONSTANTS
  r1 = r1
  r2 = r2
  r3 = r3
  Records = {r1, r2, r3}
  Towns = {"milton", "hull"}
  Boards = {"planning"}
  Channels = {"meetings", "admin"}
  Words = {"road"}
  Subjects <- Named
  Spelt <- Spelling
  YearLength = 2
  Versions <- Published
  Text <- Reads
  Starts <- Begun
  None = None
  MaxNow = 2
  MaxChanges = 1
  DefaultTown = "milton"
  Interests <- Offered
  PageSize = 1
  UpcomingSize = 1
  MattersSize = 1
  FeedSize = 2
  Quotas <- Either
  MaxFlying = 2
SPECIFICATION Spec
INVARIANT
  ReasonsExplicit
CHECK_DEADLOCK FALSE
