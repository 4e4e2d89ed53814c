CONSTANTS
    u1 = u1
    u2 = u2
    w1 = w1
    w2 = w2
    t = t
    T = T
    Blank = Blank
    Unset = Unset
    Users = {u1, u2}
    WsIds = {w1}
    MemIds = {m1, m2, m3}
    Requests = {r1}
    Names = {n1, n2}
    Contents = {c1, c2}
    RawTags = {t, T}
    Normal <- CaseTags
    Near <- MCNear
    InitRole <- OwnerAndVisitor
    RolesChange = TRUE
    Edits <- AllEdits
    Batches <- TaggedPairs
    Reembeds = FALSE
SYMMETRY WsSymmetry
SPECIFICATION Spec
INVARIANTS
    EmbeddingFresh
PROPERTIES
    ImportIsWhole
CHECK_DEADLOCK FALSE
