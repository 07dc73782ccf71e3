CONSTANTS
  Towns = {"milton"}
  Sources = {"board", "index"}
  TownOf <- OneTown
  Prec <- BoardFirst
  Items = {i1}
  Contents = {c1, c2}
  None = None
  Tagged = {"board", "index"}
  Unparseable = Unparseable
  InPlace = TRUE
  MaxRetries = 1
  MaxVersion = 2
  MaxFaults = 2
  MaxClears = 1
SPECIFICATION DryRunSpec
INVARIANT
  ValidatorFaithful
