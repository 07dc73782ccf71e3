CONSTANTS
  Towns = {"milton"}
  Sources = {"board", "index"}
  TownOf <- OneTown
  Prec <- BoardFirst
  Items = {i1}
  Contents = {c1, c2}
  None = None
  Tagged = {"board"}
  Unparseable = Unparseable
  InPlace = TRUE
  MaxRetries = 1
  MaxVersion = 2
  MaxFaults = 1
  MaxClears = 1
SPECIFICATION FairSpec
INVARIANTS
  ValidatorFaithful
  OwnerIsStrongest
  RecordsAreArchived
  FailureForgetsValidator
PROPERTIES
  ImplementsRecordPromise
  FeedConverges
