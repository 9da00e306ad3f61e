CONSTANTS
  ByteBits = 8
  Address <- MCAddress
  Streams <- MCStreams
SPECIFICATION RebuildSpec
INVARIANTS
  TypeOK
  Partition
  StraightLine
  EdgesAreFlow
  Symmetric
  IndexAgrees
  RebuildIsIdempotent
