SPECIFICATION Spec
CONSTANTS
  Buffers = {b1, b2}
  Bytes <- MCBytes
  Chunk <- MCChunk
  InitSize = 2
  Limit = 4
  MaxSize = 7
  FlushUnread = FALSE
  Assignments = TRUE
INVARIANTS
  TypeOK
  PositionsInOrder
  LimitRespected
