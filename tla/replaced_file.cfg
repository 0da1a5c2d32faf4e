\* A swept result file is replaced by a scalar one between close and open.
CONSTANTS
  Handles = {d1}
  Paths = {p1}
  Contents <- PsfContents
  Missing = Missing
  None = None
  Fds = {3, 4}
  Addrs = {1, 2}
  FreshAddrs = TRUE
  MaxMaps = 2
  Rewrites = TRUE
SPECIFICATION Spec
INVARIANTS NoSweepNoValues
\* The process stops after undefined behaviour.
CHECK_DEADLOCK FALSE
