SPECIFICATION Spec
CONSTANTS
    fan = fan
    star = star
    User = {fan, star}
    Celebrity = {star}
    Call = {c1}
    MonthLength = 2
    DefaultLimit = 1
    OnboardingLimit = 1
    LimitValues = {1, 2}
    MaxTime = 4
    MaxRequests = 4
    NoUser = NoUser
    NoRow = NoRow
INVARIANT
    CelebrityLimitEnforced
