CONSTANTS
  Readers = {"ann", "bob"}
  Sessions = {"s1", "s2"}
  Follows <- OneTown
  None = None
  Cleared = Cleared
  MaxGen = 2
  WebRequests = {"w1", "w2"}
  PhoneRequests = {"p1", "p2"}
  Quotas <- Each
SPECIFICATION FairSpec
INVARIANTS
  TurnedAwayWithCause
  PhoneHoldsNewest
  ShownReaderIsStored
PROPERTIES
  SignedOutStays
  ListPromise
  QueueDrains
CHECK_DEADLOCK FALSE
