CONSTANTS
  Commands <- TwoCommands
  Missing = Missing
  Damaged = Damaged
  MaxRuns = 2
  MaxFaults = 1
SPECIFICATION PublicationSpec
INVARIANTS
  ServedIsWhole
PROPERTIES
  RecordsStay
