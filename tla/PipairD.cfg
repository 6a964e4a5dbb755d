\* Three functions with up to two calls each: A B in one caller, B A in a second
\* and A alone in a third is a bug of the third that both orders tell of, while
\* each order also tells of a bug in the caller that has only the other.
CONSTANTS
  Fun = {f1, f2, f3}
  Support = 1
  Confidence = 30
  NoNode = NoNode
  NullNode = NullNode
  MaxCalls = 2
SPECIFICATION Spec
SYMMETRY NamesInterchangeable
INVARIANTS
  TypeOK
  LocationExact
  ReportExact
PROPERTY
  ImplementsReport
