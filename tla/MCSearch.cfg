CONSTANTS
    both = both
    words = words
    meaning = meaning
    t = t
    T = T
    u = u
    blank = blank
    MemIds = {m1, m2}
    WsIds = {w1, w2}
    Docs = {both, words, meaning}
    Times = {1, 2}
    TextRank <- MCTextRank
    Distance <- MCDistance
    MaxDistance <- MCMaxDistance
    TagsOf <- MCTagsOf
    RawTags = {t, T, u, blank}
    Normal <- MCNormal
    Blank = Blank
    Limit = 1
    Window = 2
    K = 60
    PageSize = 1
    None = None
SYMMETRY Symmetry
SPECIFICATION Spec
INVARIANTS
    TypeOK
    BetterComesFirst
    TextHitsKept
    ShownAsScored
    DatedInPeriod
    NothingSkipped
PROPERTIES
    TagSearchMeans
CHECK_DEADLOCK FALSE
