\* A new and a legacy database of two towns: kills while it is upgraded, towns
\* dropped and taken back, clears of every scope.
SPECIFICATION Spec
CONSTANTS
  milton = milton
  hull = hull
  old = old
  new = new
  board = board
  Towns <- TwoTowns
  Default = milton
  Sources <- ThreeSources
  Of <- TownOf
  Formerly = old
  Now = new
  Records = {r1, r2}
  Documents = {d1}
  None = None
  MaxFaults = 1
  MaxClears = 2
  MaxBuilds = 1
INVARIANTS
  OpenIsWhole
PROPERTIES
  TownsApart
  UpgradeKeepsAll
