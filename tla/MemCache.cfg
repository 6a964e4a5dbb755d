\* Two requests and two keys with a cache of one to two entries: sizes 1 and
\* 2 of 3, so that a second object fits or does not, and an object can be
\* ejected while it is filled, served or revalidated.
CONSTANTS
  Request = {r1, r2}
  Url = {u1, u2}
  Obj = {o1, o2, o3, o4}
  None = None
  MaxEntries = 2
  MaxSize = 3
  MaxObject = 2
  RemoveUrlRaces = FALSE
SPECIFICATION Spec
SYMMETRY Interchangeable
INVARIANTS
  TypeOK
  HeldIsLive
  RefcountExact
  NothingLeftBehind
  SizeExact
  TableMatchesQueue
PROPERTY CompleteIsFinal
