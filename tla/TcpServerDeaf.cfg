CONSTANTS
  Peers = {p1, p2}
  Fds = {3, 4, 5, 6, 7}
  Applications = {"echo"}
  EndReads = {1, 2, 3, 4}
  Patient = TRUE
  Closes = FALSE
  Asserts = FALSE
SPECIFICATION Spec
PROPERTIES
  DataReceived
CHECK_DEADLOCK FALSE
