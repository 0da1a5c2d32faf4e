\* Files that stay as they are, addresses that are not reused.
CONSTANTS
  Handles = {d1, d2}
  Paths = {p1, p2}
  Contents <- DamagedContents
  Missing = Missing
  None = None
  Fds = {3, 4, 5}
  Addrs = {1, 2}
  FreshAddrs = TRUE
  MaxMaps = 2
  Rewrites = FALSE
SPECIFICATION Spec
SYMMETRY HandleSymmetry
INVARIANTS OpenIsMapped AnswersAreCurrent UndefinedHasCause
\* The process stops after undefined behaviour.
CHECK_DEADLOCK FALSE
