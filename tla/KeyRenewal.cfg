SPECIFICATION FairSpec
CONSTANTS
    Key = {k1, k2}
    Cred = {c1, c2, bad}
    Known = {c1, c2}
    Sent = {NoToken, c1}
    Pass = {p1, p2}
    Stale = 1
    MaxEdits = 1
    NoToken = NoToken
    NoKey = NoKey
    Deleted = Deleted
    Idle = Idle
INVARIANTS
    TypeOK
    TokenIsItsOwn
PROPERTIES
    ActiveKeysStayRenewed
    TokensCatchUp
