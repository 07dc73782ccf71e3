\* Everything that touches the map, on a fresh and on a legacy database.
SPECIFICATION FairSpec
CONSTANTS
  Events = {e1}
  Addresses = {a1, a2}
  Others = {}
  Points = {here}
  Nowhere = Nowhere
  None = None
  Limit = 1
  Histories = {"fresh", "legacy"}
  MaxVersion = 3
  MaxFaults = 1
  MaxEdits = 1
  MaxClears = 1
INVARIANTS
PROPERTIES
  PinsSurvive
  AskedOnce
  MapCompletes
CHECK_DEADLOCK TRUE
