\* Two updaters, and enough updates to wrap the version around.
SPECIFICATION Spec
CONSTANTS
  a = a
  b = b
  c = c
  Node = {a, b}
  Link <- Pair
  Updaters = {a, b}
  Rebooters = {b}
  Content = {x}
  Blank = Blank
  VersionMod = 10
  Increment = 2
  MaxUpdates = 4
  MaxUpsets = 1
  MaxInFlight = 2
INVARIANT
  TypeOK
PROPERTY
  NoRollback
