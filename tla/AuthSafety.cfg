SPECIFICATION Spec
CONSTANTS
    User = {u1, u2}
    Call = {c1, c2}
    CodeRow = {t1, t2}
    ResetRow = {r1}
    TokenLife = 1
    MaxTime = 2
    NoToken = NoToken
    NoRow = NoRow
    NoUser = NoUser
SYMMETRY Symmetry
INVARIANTS
    TypeOK
    HonouredOnce
    LateChangesBounded
    ClaimsHold
PROPERTIES
    ImplementsOneTimeToken
