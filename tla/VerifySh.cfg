\* Two tests, the second of which meets what the first left behind; files with up
\* to two copies of two lines.
CONSTANTS
  Lines = {l1, l2}
  MaxCopies = 2
  Tests = 2
SPECIFICATION Spec
INVARIANTS
  TypeOK
  StatusFaithful
  JobNotLeft
  NoStrayAlarm
  PassIsEarned
PROPERTY
  TestsEnd
