SPECIFICATION Spec
CONSTANTS
  Client = {c1, c2}
  Server = server
  Pipes = 5
  Chunk = 4
  BlockSize = 2
  FileSize = 11
  Offsets <- OffsetsInside
  Lengths <- LengthsOfAll
INVARIANTS SegmentsLoaded
CHECK_DEADLOCK FALSE
