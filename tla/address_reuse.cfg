\* The kernel returns an address again after munmap.
CONSTANTS
  Handles = {d1, d2}
  Paths = {p1}
  Contents <- PsfContents
  Missing = Missing
  None = None
  Fds = {3, 4}
  Addrs = {1, 2}
  FreshAddrs = FALSE
  MaxMaps = 2
  Rewrites = FALSE
SPECIFICATION Spec
INVARIANTS OpenIsMapped
\* The process stops after undefined behaviour.
CHECK_DEADLOCK FALSE
