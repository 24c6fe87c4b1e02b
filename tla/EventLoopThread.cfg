SPECIFICATION ThreadSpec
INVARIANTS
  LoopAddressIsValid
PROPERTIES
  StartReturns
  JoinReturns
CONSTANTS
  Threads = {owner, t1}
  Functors = {f1, f2}
  OwnerPosts = {}
  Handlers = {h1}
  WakeupHandler = wh
  PipeCapacity = 4
  Owner = owner
CHECK_DEADLOCK FALSE
