CONSTANTS
  Peers = {p1, p2, p3}
  Fds = {3, 4, 5, 6, 7, 8}
  Applications = {"echo", "http"}
  EndReads = {1, 2, 3, 4}
  Patient = TRUE
  Closes = TRUE
  Asserts = FALSE
SPECIFICATION Spec
INVARIANTS
  AcceptedOwned
  HandlersMatch
PROPERTIES
  PeersAccepted
CHECK_DEADLOCK FALSE
