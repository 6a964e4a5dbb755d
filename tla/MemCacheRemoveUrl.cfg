\* A request calls remove_url for the stale object that it opened; another
\* request may have ejected or removed it since.
CONSTANTS
  Request = {r1, r2}
  Url = {u1, u2}
  Obj = {o1, o2, o3}
  None = None
  MaxEntries = 2
  MaxSize = 3
  MaxObject = 2
  RemoveUrlRaces = TRUE
SPECIFICATION Spec
INVARIANT HeldIsLive
