SPECIFICATION Spec
CONSTANTS
    Worker = {w1, w2}
    Conn = {c1, c2}
    Pool = {p1, p2}
    None = None
    INT_MAX = 1000
    MaxRequestsPerChild = 1
    Poll = FALSE
    WakeTries = 1
INVARIANT GracefulServesAll
