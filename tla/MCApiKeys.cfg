CONSTANTS
    Users = {u1, u2}
    KeyIds = {k1, k2, k3, k4}
    Requests = {r1, r2}
    MaxKeys = 2
SYMMETRY MCSymmetry
SPECIFICATION Spec
INVARIANTS
    TypeOK
    CapExceededByRacesOnly
PROPERTIES
    RevokedKeyServesNobody
CHECK_DEADLOCK FALSE
