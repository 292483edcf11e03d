SPECIFICATION FairSpec
CONSTANTS
  Client = {c1, c2}
  Server = server
  Pipes = 5
  Chunk = 4
  BlockSize = 2
  FileSize = 11
  Offsets <- OffsetsInside
  Lengths <- LengthsOfAll
INVARIANTS ReadDelivers PositionKept WildOnly
PROPERTIES CallsAnswered
CHECK_DEADLOCK FALSE
