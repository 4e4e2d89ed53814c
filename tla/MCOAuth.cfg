CONSTANTS
    NoUser = NoUser
    Clients = {cl1}
    Users = {u1}
    Requests = {r1, r2}
    PendingIds = {p1, p2}
    Codes = {c1, c2}
    Pairs = {k1, k2}
SYMMETRY MCSymmetry
SPECIFICATION Spec
INVARIANTS
    TypeOK
    OneCodePerRequest
    CodeSpentOnce
    HolderIsLinked
PROPERTIES
    RevocationSticks
CHECK_DEADLOCK FALSE
