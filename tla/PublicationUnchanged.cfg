CONSTANTS
  Commands <- TwoCommands
  Missing = Missing
  Damaged = Damaged
  MaxRuns = 2
  MaxFaults = 1
SPECIFICATION PublicationSpec
PROPERTY
  UnchangedIsTrue
