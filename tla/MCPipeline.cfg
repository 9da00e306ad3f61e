CONSTANTS
  ByteBits = 8
  WordBits = 20
  X86RegSize = 2
  ArmRegSize = 2
  ArmFlagSize = 1
  IntSize = 2
  LongSize = 3
  AddressLimit = 128
  Address <- MCAddress
  Inputs <- MCInputs
  MaxBlocks = 6
  MaxTurns = 8
  RunValues = {0, 5}
SPECIFICATION PipelineSpec
INVARIANTS
  DecodedIsStream
  HandsOver
  AstIsCurrent
  DeclaredOnce
  RunsAlike
