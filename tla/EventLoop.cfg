SPECIFICATION FairSpec
CONSTANTS
  Threads = {t1, t2}
  Functors = {f1, f2, f3}
  OwnerPosts = {f3}
  Handlers = {h1}
  WakeupHandler = wh
  PipeCapacity = 4
INVARIANTS
  TypeOK
  NoLostWakeup
  WakeupReadNeverBlocks
PROPERTIES
  FIFOSpec
  QueuedFunctionsRun
  StopEndsRun
