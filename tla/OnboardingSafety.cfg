SPECIFICATION Spec
CONSTANTS
    hasty = hasty
    careful = careful
    c1 = c1
    c2 = c2
    c3 = c3
    User = {hasty, careful}
    Call = {c1, c2, c3}
    UserOf <- MCUserOf
    NoProfile = NoProfile
CONSTRAINT HastyHasNoRows
SYMMETRY Symmetry
INVARIANTS
    TypeOK
    OneCallReviewIsWhole
    UnderReviewIsComplete
PROPERTIES
    ImplementsReview
    WalletFollowsCompletion
