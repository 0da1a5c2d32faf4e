\* Files of every content, replaced at any moment; two openings.
CONSTANTS
  Handles = {d1, d2}
  Paths = {p1}
  Contents <- AllContents
  Missing = Missing
  None = None
  Fds = {3, 4}
  Addrs = {1, 2}
  FreshAddrs = FALSE
  MaxMaps = 2
  Rewrites = TRUE
SPECIFICATION Spec
SYMMETRY HandleSymmetry
INVARIANTS TypeOK FdOwnership OpenIsParsed RefsValid BufferSet
PROPERTY LeaksOnlyAfterThrow
\* The process stops after undefined behaviour.
CHECK_DEADLOCK FALSE
