\* Updates past half the range of versions, and a node that starts at none.
SPECIFICATION FairSpec
CONSTANTS
  a = a
  b = b
  c = c
  Node = {a, b}
  Link <- Pair
  Updaters = {a}
  Rebooters = {b}
  Content = {x}
  Blank = Blank
  VersionMod = 8
  Increment = 1
  MaxUpdates = 4
  MaxUpsets = 1
  MaxInFlight = 2
PROPERTY
  Converges
