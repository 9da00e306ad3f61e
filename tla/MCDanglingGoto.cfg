SPECIFICATION StructureSpec
CONSTANTS
  Address <- MCAddress
  Functions <- MCFunctions
  N = 6
INVARIANT GotoHasLabel
