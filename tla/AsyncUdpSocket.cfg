SPECIFICATION FairSpec
CONSTANTS
  Threads = {t1, t2}
  Datagrams = {d1, d2, d3}
  Empty = {}
  Unsendable = {d3}
  Sides = {"threads", "turns"}
  Room = 1
  InLimit = 1
  MaxNet = 2
  MaxErrors = 1
INVARIANTS
  TypeOK
  NothingLost
PROPERTIES
  EverythingSent
  EverythingReceived
CHECK_DEADLOCK FALSE
