SPECIFICATION StructureSpec
CONSTANTS
  Address <- MCAddress
  Functions <- MCFunctions
  N = 3
  Base = 1
INVARIANT FlowKept
