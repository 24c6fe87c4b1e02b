SPECIFICATION FairSpec
CONSTANTS
  Threads = {t1, t2}
  Messages = {m1, m2, m3}
  Sides = {"loop", "threads"}
  Limit = 5
  InitSize = 5
  Room = 1
  InLimit = 2
  MaxNet = 2
INVARIANTS
  NothingLost
  WriteInterestKept
PROPERTY EverythingSentByLoop
CHECK_DEADLOCK FALSE
