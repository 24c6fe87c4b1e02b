SPECIFICATION Spec
CONSTANTS
  Threads = {t1}
  Handlers = {h1, h2}
  Fds = {1, 3}
  WakeupFd = 2
  EndReads = {1, 2, 3}
  Events = {"read"}
  Ways = {"mixed", "eager", "self"}
  MaxPending = 2
INVARIANTS
  NoDangling
  UpdateFindsAttached
CHECK_DEADLOCK FALSE
