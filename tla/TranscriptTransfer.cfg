\* One post, edited or removed, in pages of any version and content.
SPECIFICATION FairSpec
CONSTANTS
  Posts = {p1}
  Contents = {c1, c2}
  Malformed = Malformed
  None = None
  MaxDocuments = 5
  MaxEdits = 2
  MaxFaults = 1
  MaxClears = 1
INVARIANTS
  ManifestComplete
  ReceiptsHonest
PROPERTIES
  NothingReverts
  TransferConverges
CHECK_DEADLOCK TRUE
