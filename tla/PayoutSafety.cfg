SPECIFICATION Spec
CONSTANTS
    star = star
    Request = {r1, r2}
    Celebrity = {star}
    CelebrityOf <- MCCelebrityOf
    SuperAdmin = SuperAdmin
    Price = {1, 5}
    Rate = {0, 2, 3}
    FeeSetting <- MCFeeSetting
    ServiceFee <- MCServiceFee
    Reported = {8, 13}
    NoRow = NoRow
SYMMETRY Symmetry
INVARIANTS
    TypeOK
    PayoutsAddUp
    PriceIsCovered
    DebtIsFixedFee
PROPERTIES
    BalancesFollowEarnings
    QuoteIsCharged
