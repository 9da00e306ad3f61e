SPECIFICATION StructureSpec
CONSTANTS
  Address <- MCAddress
  Functions <- MCFunctions
  N = 4
  Base = 1
INVARIANTS
  RegionsOK
  BackEdgesCloseLoops
  EveryLoopIsCut
  SearchIsComplete
  EmittedOnce
  ReachableVisited
  PartedFlowKept
PROPERTY
  Termination
