SPECIFICATION Spec
CONSTANTS
    r1 = r1
    star = star
    Request = {r1}
    Celebrity = {star}
    CelebrityOf <- MCCelebrityOf
    SuperAdmin = SuperAdmin
    NoRequest = NoRequest
    NoRow = NoRow
    TxId = {t1, t2}
    Handler = {h1, h2}
    Releaser = {w1}
PROPERTY
    TimeoutDeclinesOnlyUnpaid
