CONSTANTS
    u1 = u1
    u2 = u2
    w1 = w1
    w2 = w2
    t = t
    T = T
    Blank = Blank
    Unset = Unset
    Users = {u1}
    WsIds = {w1, w2}
    MemIds = {m1, m2}
    Requests = {r1, r2}
    Names = {n1, n2}
    Contents = {c1, c2}
    RawTags = {}
    Normal <- NoTags
    Near <- MCNear
    InitRole <- OneOwner
    RolesChange = FALSE
    Edits <- UntaggedEdits
    Batches <- Pairs
    Reembeds = TRUE
SYMMETRY WsSymmetry
SPECIFICATION Spec
INVARIANTS
    TypeOK
    MemoryInLiveWorkspace
    UniquePerWorkspace
PROPERTIES
    DeletedWhereChecked
    OnlyProvidedFieldsChange
    NearDuplicatesOnlyByRaces
CHECK_DEADLOCK FALSE
