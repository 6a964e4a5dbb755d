SPECIFICATION Spec
CONSTANTS
    Worker = {w1, w2}
    Conn = {c1, c2, c3}
    Pool = {p1, p2, p3}
    None = None
    INT_MAX = 1000
    MaxRequestsPerChild = 1
    Poll = TRUE
    WakeTries = 1
INVARIANTS
    TypeOK
    IdleAccount
    PushIsSafe
    PoolsExclusive
    SocketsExclusive
PROPERTIES
    PoolsNeverLost
    ImplementsService
