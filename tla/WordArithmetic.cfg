CONSTANTS
  Tracked = {}
  ByteBits = 1
  WordBits = 8
  IntSize = 4
  LongSize = 8
  Sizes = {1, 2, 3, 4, 8}
SPECIFICATION ArithmeticSpec
INVARIANTS
  FoldingIsExact
  PrintedIsExact
