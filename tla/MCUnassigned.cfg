CONSTANTS
  N = 3
  Tracked <- MCTracked
  ByteBits = 1
  WordBits = 3
  Graphs <- MCGraphs
  Code <- MCCode
SPECIFICATION Spec
INVARIANT ClaimsHold
