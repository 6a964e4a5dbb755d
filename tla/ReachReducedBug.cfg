\* Seven calls between four functions: the scope can call two neighbours, and a
\* function that is re-visited at level 2 on the way to the partner fits.
CONSTANTS
  Fun = {a, b, f3, f4}
  Single = a
  Pair = b
  NoNode = NoNode
  ExpandLevel = 2
  MaxCalls = 7
SPECIFICATION MCSpec
INVARIANTS
  TypeOK
  LevelIsWalk
  Sound
  FindsDirectCallee
PROPERTY
  Terminates
