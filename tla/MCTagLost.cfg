CONSTANTS
    MemIds = {m1, m2}
    Serials = {1, 2}
    a = a
    b = b
    Names = {a, b}
    Requests = {r1, r2}
    Orders <- AllOrders
    NoTag = NoTag
SYMMETRY Symmetry
SPECIFICATION Spec
PROPERTIES
    TagsAreKept
CHECK_DEADLOCK FALSE
