SPECIFICATION FairSpec
CONSTANTS
  Threads = {t1}
  Handlers = {h1, h2}
  Fds = {1}
  WakeupFd = 2
  EndReads = {1, 2, 3}
  Events = {"read", "write"}
  Ways = {"mixed", "eager", "self"}
  MaxPending = 2
PROPERTIES
  NoCallbackAfterDetach
  DetachReturns
CHECK_DEADLOCK FALSE
