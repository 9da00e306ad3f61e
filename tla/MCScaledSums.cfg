CONSTANTS
  ByteBits = 8
  IntSize = 2
  LongSize = 3
  Varnodes <- MCVarnodes
  Programs <- MCPrograms
SPECIFICATION Spec
INVARIANT SumsAsDocumented
