\* Three functions with up to five of the nine possible calls, expanded twice: a
\* function that calls itself, cycles of two and three, and two branches that
\* meet in one function all fit.
CONSTANTS
  Fun = {f1, f2, f3}
  Support = 2
  Confidence = 65
  NoNode = NoNode
  NullNode = NullNode
  ExpandLevel = 2
  StackDepth = 6
  MaxCalls = 5
SPECIFICATION MCSpec
INVARIANTS
  TypeOK
  ExtendExact
  ReportExact
PROPERTY
  Terminates
