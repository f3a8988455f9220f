SPECIFICATION Spec
CONSTANTS
    fan = fan
    star = star
    User = {star}
    Celebrity = {star}
    Call = {c1, c2}
    MonthLength = 2
    DefaultLimit = 1
    OnboardingLimit = 2
    LimitValues = {1, 2}
    MaxTime = 4
    MaxRequests = 4
    NoUser = NoUser
    NoRow = NoRow
SYMMETRY Symmetry
INVARIANTS
    TypeOK
    OvershootBounded
    CountNotInflated
