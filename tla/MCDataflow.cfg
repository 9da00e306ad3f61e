CONSTANTS
  N = 3
  Tracked <- MCTracked
  ByteBits = 1
  WordBits = 1
  Graphs <- MCGraphs
  Code <- MCCode
  State <- MCState
  Top <- MCTop
  Merge <- MCMerge
  Transfer <- MCTransfer
  Below <- MCBelow
SPECIFICATION FairSpec
INVARIANTS
  TypeOK
  QueueMatchesSet
  SolvedUnlessPending
  GreatestWhenDone
PROPERTIES
  OnlyDescends
  Refinement
  Termination
