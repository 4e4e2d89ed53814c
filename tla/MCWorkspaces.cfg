CONSTANTS
    u1 = u1
    u2 = u2
    u3 = u3
    p1 = p1
    p2 = p2
    p3 = p3
    team = team
    NoUser = NoUser
    NoDescription = NoDescription
    Users = {u1, u2}
    WsIds = {w1, w2, w3}
    InviteIds = {i1, i2}
    Requests = {r1, r2}
    Names = {p1, p2, team}
    Descriptions = {NoDescription}
    PersonalName <- MCPersonalName
SYMMETRY SlotSymmetry
SPECIFICATION Spec
INVARIANTS
    TypeOK
    OwnerIsCreator
    PersonalIsPrivate
    EveryUserHasPersonal
    NoDanglingRows
PROPERTIES
    OwnerDecides
    ImplementsAccess
CHECK_DEADLOCK FALSE
