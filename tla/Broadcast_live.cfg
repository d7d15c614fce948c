\* One updater, a relay that restarts, and a neighbour of the relay only.
SPECIFICATION HFairSpec
CONSTANTS
  a = a
  b = b
  c = c
  Node = {a, b, c}
  Link <- Line
  Updaters = {a}
  Rebooters = {b}
  Content = {x, y}
  Blank = Blank
  VersionMod = 16
  Increment = 1
  MaxUpdates = 2
  MaxUpsets = 1
  MaxInFlight = 1
INVARIANT
  SameVersionSameData
PROPERTY
  Converges
  ReadsInOrder
