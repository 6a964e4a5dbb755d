\* Three functions, each of which may call any of the three; a pair held by
\* two of the three callers of a function reaches 66.67 percent.
CONSTANTS
  Fun = {f1, f2, f3}
  Support = 2
  Confidence = 65
  NoNode = NoNode
  NullNode = NullNode
SPECIFICATION Spec
INVARIANTS
  TypeOK
  LocationExact
  ReportExact
PROPERTY
  ImplementsReport
