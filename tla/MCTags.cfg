CONSTANTS
    MemIds = {m1, m2}
    Serials = {1, 2}
    a = a
    b = b
    Names = {a, b}
    Requests = {r1, r2}
    Orders <- AllOrNothing
    NoTag = NoTag
SPECIFICATION Spec
INVARIANTS
    TypeOK
    NoDanglingPairs
PROPERTIES
    CommitStoresAskedTags
    EveryRequestEnds
CHECK_DEADLOCK FALSE
