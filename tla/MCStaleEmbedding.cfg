CONSTANTS
    u1 = u1
    u2 = u2
    w1 = w1
    w2 = w2
    t = t
    T = T
    Blank = Blank
    Unset = Unset
    Users = {u1}
    WsIds = {w1}
    MemIds = {m1}
    Requests = {r1, r2}
    Names = {n1, n2}
    Contents = {c1, c2}
    RawTags = {t}
    Normal <- OneTag
    Near <- MCNear
    InitRole <- OneOwner
    RolesChange = FALSE
    Edits <- AllEdits
    Batches = {}
    Reembeds = FALSE
SYMMETRY WsSymmetry
SPECIFICATION Spec
INVARIANTS
    EmbeddingFresh
CHECK_DEADLOCK FALSE
