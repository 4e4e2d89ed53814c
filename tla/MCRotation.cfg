CONSTANTS
    NoUser = NoUser
    Clients = {cl1}
    Users = {u1}
    Requests = {r1}
    PendingIds = {p1}
    Codes = {c1}
    Pairs = {k1, k2, k3}
SYMMETRY MCSymmetry
SPECIFICATION Spec
PROPERTIES
    RotationEndsRefresh
CHECK_DEADLOCK FALSE
