\* Signal properties asked of a swept data set.
CONSTANTS
  Handles = {d1}
  Paths = {p1}
  Contents <- PsfContents
  Missing = Missing
  None = None
  Fds = {3, 4}
  Addrs = {1, 2}
  FreshAddrs = TRUE
  MaxMaps = 2
  Rewrites = FALSE
SPECIFICATION Spec
INVARIANTS PropertiesDefined
\* The process stops after undefined behaviour.
CHECK_DEADLOCK FALSE
