\* The default level.
CONSTANTS
  Fun = {a, b, f3, f4}
  Single = a
  Pair = b
  NoNode = NoNode
  ExpandLevel = 1
  MaxCalls = 7
SPECIFICATION MCSpec
INVARIANT
  Complete
