CONSTANTS
    a = a
    A = A
    b = b
    B = B
    NoPassword = NoPassword
    NoSub = NoSub
    NoUser = NoUser
    NoToken = NoToken
    UserIds = {u1, u2}
    TokenIds = {k1, k2, k3}
    Requests = {r1, r2}
    Emails = {a, A, b, B}
    Normal <- MCNormal
    Passwords = {p1}
    Subs = {s1}
    AutoRegister = TRUE
SYMMETRY MCSymmetry
SPECIFICATION Spec
INVARIANTS
    TypeOK
    OneAccountPerAddress
    VerifiedByLink
    UsedLinkIsDead
    LiveLinksBounded
PROPERTIES
    PasswordChangedByLink
CHECK_DEADLOCK FALSE
