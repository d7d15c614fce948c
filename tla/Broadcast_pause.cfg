\* A paused broadcast that is updated locally.
SPECIFICATION Spec
CONSTANTS
  a = a
  b = b
  c = c
  Node = {a, b}
  Link <- Pair
  Updaters = {a}
  Rebooters = {b}
  Content = {x}
  Blank = Blank
  VersionMod = 16
  Increment = 2
  MaxUpdates = 1
  MaxUpsets = 1
  MaxInFlight = 2
PROPERTY
  PausedUntilResumed
