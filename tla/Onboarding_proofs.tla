------------------------- MODULE Onboarding_proofs -------------------------
(***************************************************************************)
(* Theorems about Onboarding, for any number of users and of calls each may *)
(* make at a time.                                                          *)
(***************************************************************************)
EXTENDS Onboarding, TLAPS

-----------------------------------------------------------------------------
(* Types *)

\* A call that has checked a step, or started a reset, did so of a profile.
DoingInv ==
    \A c \in Call : doing[c] \notin {"nothing", "create"} => HasProfile(UserOf[c])

Base == TypeOK /\ DoingInv

LEMMA RowIsProfile ==
    ASSUME TypeOK, NEW u \in User, HasProfile(u)
    PROVE  profile[u] \in Profile
BY DEF TypeOK, HasProfile

\* A row stays a row when one of its columns is written ...
LEMMA ColumnUpdates ==
    ASSUME NEW p \in Profile, NEW b \in BOOLEAN
    PROVE  /\ \A n \in 1..5 : [p EXCEPT !.onboardingStep = n] \in Profile
           /\ [p EXCEPT !.isOnboardingComplete = b] \in Profile
           /\ [p EXCEPT !.isUnderReview = b] \in Profile
           /\ \A s \in ReviewStatus : [p EXCEPT !.reviewStatus = s] \in Profile
           /\ [p EXCEPT !.photo = b] \in Profile
           /\ [p EXCEPT !.profession = b] \in Profile
BY DEF Profile

\* ... and so when a step or a reset writes several.
LEMMA RowUpdates ==
    ASSUME NEW p \in Profile
    PROVE  /\ [p EXCEPT !.photo = TRUE, !.onboardingStep = 3] \in Profile
           /\ [p EXCEPT !.profession = TRUE, !.onboardingStep = 4] \in Profile
           /\ [p EXCEPT !.onboardingStep = 5, !.isOnboardingComplete = TRUE,
                        !.isUnderReview = TRUE] \in Profile
           /\ [p EXCEPT !.onboardingStep = 1, !.isOnboardingComplete = FALSE,
                        !.isUnderReview = FALSE, !.reviewStatus = "PENDING",
                        !.photo = FALSE] \in Profile
<1>0. 1 \in 1..5 /\ 3 \in 1..5 /\ 4 \in 1..5 /\ 5 \in 1..5
  OBVIOUS
<1>1. [p EXCEPT !.photo = TRUE, !.onboardingStep = 3] \in Profile
  <2>1. [p EXCEPT !.photo = TRUE] \in Profile
    BY ColumnUpdates
  <2>2. QED
    BY <1>0, <2>1, ColumnUpdates
<1>2. [p EXCEPT !.profession = TRUE, !.onboardingStep = 4] \in Profile
  <2>1. [p EXCEPT !.profession = TRUE] \in Profile
    BY ColumnUpdates
  <2>2. QED
    BY <1>0, <2>1, ColumnUpdates
<1>3. [p EXCEPT !.onboardingStep = 5, !.isOnboardingComplete = TRUE,
               !.isUnderReview = TRUE] \in Profile
  <2>1. [p EXCEPT !.onboardingStep = 5] \in Profile
    BY <1>0, ColumnUpdates
  <2>2. [p EXCEPT !.onboardingStep = 5, !.isOnboardingComplete = TRUE] \in Profile
    BY <2>1, ColumnUpdates
  <2>3. QED
    BY <2>2, ColumnUpdates
<1>4. [p EXCEPT !.onboardingStep = 1, !.isOnboardingComplete = FALSE,
               !.isUnderReview = FALSE, !.reviewStatus = "PENDING",
               !.photo = FALSE] \in Profile
  <2>1. [p EXCEPT !.onboardingStep = 1] \in Profile
    BY <1>0, ColumnUpdates
  <2>2. [p EXCEPT !.onboardingStep = 1, !.isOnboardingComplete = FALSE] \in Profile
    BY <2>1, ColumnUpdates
  <2>3. [p EXCEPT !.onboardingStep = 1, !.isOnboardingComplete = FALSE,
                 !.isUnderReview = FALSE] \in Profile
    BY <2>2, ColumnUpdates
  <2>4. [p EXCEPT !.onboardingStep = 1, !.isOnboardingComplete = FALSE,
                 !.isUnderReview = FALSE, !.reviewStatus = "PENDING"] \in Profile
    BY <2>3, ColumnUpdates DEF ReviewStatus
  <2>5. QED
    BY <2>4, ColumnUpdates
<1>5. QED
  BY <1>1, <1>2, <1>3, <1>4

\* What a step of call c may change: its own state and its user's row, and the row
\* of a user who has one stays.
Moves(c) ==
    /\ TypeOK'
    /\ \A u \in User \ {UserOf[c]} : profile'[u] = profile[u]
    /\ \A d \in Call \ {c} : doing'[d] = doing[d]
    /\ HasProfile(UserOf[c]) => HasProfile(UserOf[c])'
    /\ doing'[c] \notin {"nothing", "create"} => HasProfile(UserOf[c])'

LEMMA Waits ==
    ASSUME Base, NEW c \in Call, NEW what \in Doing, Goto(c, what), profile' = profile,
           wallets' \subseteq User, limits' \subseteq User,
           what \notin {"nothing", "create"} => HasProfile(UserOf[c])
    PROVE  Moves(c)
<1>1. UserOf[c] \in User
  BY OnboardingAssumption
<1>2. /\ doing' \in [Call -> Doing]
      /\ doing'[c] = what
      /\ \A d \in Call \ {c} : doing'[d] = doing[d]
  BY DEF Base, TypeOK, Goto
<1>3. QED
  BY <1>1, <1>2 DEF Base, TypeOK, Moves, HasProfile

LEMMA Writes ==
    ASSUME Base, NEW c \in Call, NEW row \in Profile, NEW what \in Doing, Goto(c, what),
           profile' = [profile EXCEPT ![UserOf[c]] = row],
           UNCHANGED <<wallets, limits>>
    PROVE  Moves(c)
<1>1. UserOf[c] \in User
  BY OnboardingAssumption
<1>2. /\ doing' \in [Call -> Doing]
      /\ doing'[c] = what
      /\ \A d \in Call \ {c} : doing'[d] = doing[d]
  BY DEF Base, TypeOK, Goto
<1>3. /\ profile' \in [User -> Profile \cup {NoProfile}]
      /\ profile'[UserOf[c]] = row
      /\ \A u \in User \ {UserOf[c]} : profile'[u] = profile[u]
  BY <1>1 DEF Base, TypeOK
<1>4. row # NoProfile
  BY OnboardingAssumption
<1>5. QED
  BY <1>1, <1>2, <1>3, <1>4 DEF Base, TypeOK, Moves, HasProfile

LEMMA CallMoves ==
    ASSUME Base, NEW c \in Call, CallNext(c)
    PROVE  Moves(c)
<1> DEFINE u == UserOf[c]
           p == profile[UserOf[c]]
<1>0. u \in User
  BY OnboardingAssumption
<1>1. doing[c] \notin {"nothing", "create"} => HasProfile(u) /\ p \in Profile
  BY <1>0, RowIsProfile DEF Base, DoingInv
<1>2. wallets \subseteq User /\ limits \subseteq User
  BY DEF Base, TypeOK
<1>3. CASE StartStep(c)
  BY <1>2, <1>3, Waits DEF StartStep, StartStep1, CheckStep, Doing, Goto
<1>4. CASE CreateProfile(c)
  <2> DEFINE row == [onboardingStep |-> 2, isOnboardingComplete |-> FALSE,
                     isUnderReview |-> FALSE, reviewStatus |-> "PENDING",
                     photo |-> FALSE, profession |-> FALSE]
  <2>1. row \in Profile
    BY DEF Profile, ReviewStatus
  <2>2. QED
    BY <1>4, <2>1, Writes DEF CreateProfile, Return, Doing
<1>5. CASE FinishStep1(c)
  <2>1. [p EXCEPT !.onboardingStep = 2] \in Profile
    BY <1>1, <1>5 DEF FinishStep1, Profile
  <2>2. QED
    BY <1>5, <2>1, Writes DEF FinishStep1, Return, Doing
<1>6. CASE FinishStep2(c)
  <2>1. [p EXCEPT !.photo = TRUE, !.onboardingStep = 3] \in Profile
    BY <1>1, <1>6, RowUpdates DEF FinishStep2
  <2>2. profile' = [profile EXCEPT ![u] = [p EXCEPT !.photo = TRUE, !.onboardingStep = 3]]
    BY <1>0, <1>6 DEF FinishStep2, Base, TypeOK
  <2>3. QED
    BY <1>6, <2>1, <2>2, Writes DEF FinishStep2, Return, Doing
<1>7. CASE FinishStep3(c)
  <2>1. [p EXCEPT !.profession = TRUE, !.onboardingStep = 4] \in Profile
    BY <1>1, <1>7, RowUpdates DEF FinishStep3
  <2>2. profile' = [profile EXCEPT ![u] = [p EXCEPT !.profession = TRUE, !.onboardingStep = 4]]
    BY <1>0, <1>7 DEF FinishStep3, Base, TypeOK
  <2>3. QED
    BY <1>7, <2>1, <2>2, Writes DEF FinishStep3, Return, Doing
<1>8. CASE FinishStep4(c)
  <2> DEFINE row == [p EXCEPT !.onboardingStep = 5, !.isOnboardingComplete = TRUE,
                              !.isUnderReview = TRUE]
  <2>1. row \in Profile
    BY <1>1, <1>8, RowUpdates DEF FinishStep4
  <2>2. profile' = [profile EXCEPT ![u] = row]
    BY <1>0, <1>8 DEF FinishStep4, Base, TypeOK
  <2>3. QED
    BY <1>8, <2>1, <2>2, Writes DEF FinishStep4, Doing
<1>9. CASE CreateWallet(c)
  BY <1>0, <1>1, <1>2, <1>9, Waits DEF CreateWallet, Doing
<1>10. CASE SkipWallet(c)
  BY <1>1, <1>2, <1>10, Waits DEF SkipWallet, Doing
<1>11. CASE CreateLimit(c)
  BY <1>0, <1>2, <1>11, Waits DEF CreateLimit, Return, Doing
<1>12. CASE StartReset(c)
  BY <1>2, <1>12, Waits DEF StartReset, Doing
<1>13. CASE DeletePhoto(c)
  BY <1>1, <1>2, <1>13, Waits DEF DeletePhoto, Doing
<1>14. CASE ResetOnboarding(c)
  <2> DEFINE row == [p EXCEPT !.onboardingStep = 1, !.isOnboardingComplete = FALSE,
                              !.isUnderReview = FALSE, !.reviewStatus = "PENDING",
                              !.photo = FALSE]
  <2>1. row \in Profile
    BY <1>1, <1>14, RowUpdates DEF ResetOnboarding
  <2>2. QED
    BY <1>14, <2>1, Writes DEF ResetOnboarding, Return, Doing
<1>15. CASE FailCall(c)
  BY <1>2, <1>15, Waits DEF FailCall, Return, Doing
<1>16. QED
  BY <1>3, <1>4, <1>5, <1>6, <1>7, <1>8, <1>9, <1>10, <1>11, <1>12, <1>13, <1>14, <1>15
     DEF CallNext

\* A decision, an update of the description or a read of the limit leaves the calls
\* alone, puts no profile under review and empties no column.
LEMMA OthersMove ==
    ASSUME Base, NEW u \in User,
           \/ \E verdict \in {"APPROVED", "REJECTED"} : Review(u, verdict)
           \/ Describe(u)
           \/ ReadLimit(u)
    PROVE  /\ TypeOK'
           /\ doing' = doing
           /\ \A v \in User : HasProfile(v)' <=> HasProfile(v)
           /\ \A v \in User : HasProfile(v) =>
                 /\ profile'[v].onboardingStep = profile[v].onboardingStep
                 /\ profile'[v].isOnboardingComplete = profile[v].isOnboardingComplete
                 /\ profile[v].photo => profile'[v].photo
                 /\ profile[v].profession => profile'[v].profession
                 /\ profile'[v].isUnderReview => profile[v].isUnderReview
<1>1. CASE \E verdict \in {"APPROVED", "REJECTED"} : Review(u, verdict)
  <2>1. PICK verdict \in {"APPROVED", "REJECTED"} : Review(u, verdict)
    BY <1>1
  <2> DEFINE row == [profile[u] EXCEPT !.isUnderReview = FALSE, !.reviewStatus = verdict]
  <2>2. profile[u] \in Profile
    BY <2>1, RowIsProfile DEF Review, Base
  <2>3. row \in Profile /\ row # NoProfile
    BY <2>2, OnboardingAssumption DEF Profile, ReviewStatus
  <2>4. profile' = [profile EXCEPT ![u] = row]
    BY <2>1 DEF Review, Base, TypeOK
  <2>5. /\ profile'[u] = row
        /\ \A v \in User \ {u} : profile'[v] = profile[v]
        /\ profile' \in [User -> Profile \cup {NoProfile}]
    BY <2>3, <2>4 DEF Base, TypeOK
  <2>6. /\ row.onboardingStep = profile[u].onboardingStep
        /\ row.isOnboardingComplete = profile[u].isOnboardingComplete
        /\ row.photo = profile[u].photo
        /\ row.profession = profile[u].profession
        /\ row.isUnderReview = FALSE
    BY <2>2 DEF Profile
  <2> HIDE DEF row
  <2>7. TypeOK' /\ doing' = doing
    BY <2>1, <2>5 DEF Review, Base, TypeOK
  <2>8. HasProfile(u)
    BY <2>1 DEF Review
  <2>9. QED
    BY <2>3, <2>5, <2>6, <2>7, <2>8 DEF HasProfile
<1>2. CASE Describe(u)
  <2>1. profile[u] \in Profile /\ HasProfile(u)
    BY <1>2, RowIsProfile DEF Describe, Base
  <2>2. PICK row \in Profile :
           /\ profile' = [profile EXCEPT ![u] = row]
           /\ row.onboardingStep = profile[u].onboardingStep
           /\ row.isOnboardingComplete = profile[u].isOnboardingComplete
           /\ row.isUnderReview = profile[u].isUnderReview
           /\ profile[u].photo => row.photo
           /\ profile[u].profession => row.profession
    <3> DEFINE withPhoto == [profile[u] EXCEPT !.photo = TRUE]
               withProfession == [profile[u] EXCEPT !.profession = TRUE]
    <3>1. withPhoto \in Profile /\ withProfession \in Profile
      BY <2>1, ColumnUpdates
    <3>2. CASE profile' = [profile EXCEPT ![u].photo = TRUE]
      <4>1. /\ withPhoto.onboardingStep = profile[u].onboardingStep
            /\ withPhoto.isOnboardingComplete = profile[u].isOnboardingComplete
            /\ withPhoto.isUnderReview = profile[u].isUnderReview
            /\ withPhoto.photo
            /\ withPhoto.profession = profile[u].profession
        BY <2>1 DEF Profile
      <4>2. QED
        BY <3>1, <3>2, <4>1
    <3>3. CASE profile' = [profile EXCEPT ![u].profession = TRUE]
      <4>1. /\ withProfession.onboardingStep = profile[u].onboardingStep
            /\ withProfession.isOnboardingComplete = profile[u].isOnboardingComplete
            /\ withProfession.isUnderReview = profile[u].isUnderReview
            /\ withProfession.photo = profile[u].photo
            /\ withProfession.profession
        BY <2>1 DEF Profile
      <4>2. QED
        BY <3>1, <3>3, <4>1
    <3>4. QED
      BY <1>2, <3>2, <3>3 DEF Describe
  <2>3. /\ profile'[u] = row /\ row # NoProfile
        /\ \A v \in User \ {u} : profile'[v] = profile[v]
        /\ profile' \in [User -> Profile \cup {NoProfile}]
    BY <2>2, OnboardingAssumption DEF Base, TypeOK
  <2>4. TypeOK' /\ doing' = doing
    BY <1>2, <2>3 DEF Describe, Base, TypeOK
  <2>5. QED
    BY <2>1, <2>2, <2>3, <2>4 DEF HasProfile
<1>3. CASE ReadLimit(u)
  BY <1>3 DEF ReadLimit, Base, TypeOK, HasProfile
<1>4. QED
  BY <1>1, <1>2, <1>3

LEMMA NextBase ==
    ASSUME Base, [Next]_vars
    PROVE  Base'
<1>1. CASE Next
  <2>1. ASSUME NEW c \in Call, CallNext(c)
        PROVE  Base'
    <3>1. Moves(c)
      BY <2>1, CallMoves
    <3>2. ASSUME NEW d \in Call, doing'[d] \notin {"nothing", "create"}
          PROVE  HasProfile(UserOf[d])'
      <4>1. UserOf[d] \in User /\ UserOf[c] \in User
        BY OnboardingAssumption
      <4>2. CASE d = c
        BY <3>1, <3>2, <4>2 DEF Moves
      <4>3. CASE d # c
        BY <3>1, <3>2, <4>1, <4>3 DEF Moves, Base, DoingInv, HasProfile
      <4>4. QED
        BY <4>2, <4>3
    <3>3. QED
      BY <3>1, <3>2 DEF Base, DoingInv, Moves
  <2>2. ASSUME NEW u \in User,
               \/ \E verdict \in {"APPROVED", "REJECTED"} : Review(u, verdict)
               \/ Describe(u)
               \/ ReadLimit(u)
        PROVE  Base'
    BY <2>2, OthersMove, OnboardingAssumption DEF Base, DoingInv
  <2>3. QED
    BY <1>1, <2>1, <2>2 DEF Next
<1>2. CASE UNCHANGED vars
  BY <1>2 DEF vars, Base, TypeOK, DoingInv, HasProfile
<1>3. QED
  BY <1>1, <1>2

LEMMA InitBase == Init => Base
BY DEF Init, Base, TypeOK, DoingInv, Doing

LEMMA AlwaysBase == Spec => []Base
<1>1. Base /\ [Next]_vars => Base'
  BY NextBase
<1>2. QED
  BY InitBase, <1>1, PTL DEF Spec

\* Type correctness of the onboarding, calls of one user overlapping or not.
THEOREM TypeCorrect == Spec => []TypeOK
<1>1. Base => TypeOK
  BY DEF Base
<1>2. QED
  BY AlwaysBase, <1>1, PTL

-----------------------------------------------------------------------------
(* What a step makes of a row *)

\* The columns that the writes of a call leave and set.
LEMMA RowAfter ==
    ASSUME Base, NEW c \in Call, NEW u \in User, u = UserOf[c]
    PROVE  /\ FinishStep1(c) =>
                 /\ profile'[u].onboardingStep = 2
                 /\ profile'[u].isUnderReview = profile[u].isUnderReview
                 /\ profile'[u].isOnboardingComplete = profile[u].isOnboardingComplete
           /\ FinishStep2(c) =>
                 /\ profile'[u].onboardingStep = 3
                 /\ profile'[u].photo
                 /\ profile'[u].isUnderReview = profile[u].isUnderReview
                 /\ profile'[u].isOnboardingComplete = profile[u].isOnboardingComplete
           /\ FinishStep3(c) =>
                 /\ profile'[u].onboardingStep = 4
                 /\ profile'[u].profession
                 /\ profile'[u].photo = profile[u].photo
                 /\ profile'[u].isUnderReview = profile[u].isUnderReview
                 /\ profile'[u].isOnboardingComplete = profile[u].isOnboardingComplete
           /\ FinishStep4(c) =>
                 /\ profile'[u].onboardingStep = 5
                 /\ profile'[u].isOnboardingComplete
                 /\ profile'[u].photo = profile[u].photo
                 /\ profile'[u].profession = profile[u].profession
           /\ ResetOnboarding(c) =>
                 /\ profile'[u].onboardingStep = 1
                 /\ profile'[u].isUnderReview = FALSE
           /\ CreateProfile(c) =>
                 /\ profile'[u].onboardingStep = 2
                 /\ profile'[u].isUnderReview = FALSE
<1> DEFINE p == profile[u]
<1>1. doing[c] \notin {"nothing", "create"} => HasProfile(u) /\ p \in Profile
  BY RowIsProfile DEF Base, DoingInv
<1>2. profile \in [User -> Profile \cup {NoProfile}]
  BY DEF Base, TypeOK
<1>3. ASSUME FinishStep1(c)
      PROVE  /\ profile'[u].onboardingStep = 2
             /\ profile'[u].isUnderReview = p.isUnderReview
             /\ profile'[u].isOnboardingComplete = p.isOnboardingComplete
  BY <1>1, <1>2, <1>3 DEF FinishStep1, Profile
<1>4. ASSUME FinishStep2(c)
      PROVE  /\ profile'[u].onboardingStep = 3
             /\ profile'[u].photo
             /\ profile'[u].isUnderReview = p.isUnderReview
             /\ profile'[u].isOnboardingComplete = p.isOnboardingComplete
  BY <1>1, <1>2, <1>4 DEF FinishStep2, Profile
<1>5. ASSUME FinishStep3(c)
      PROVE  /\ profile'[u].onboardingStep = 4
             /\ profile'[u].profession
             /\ profile'[u].photo = p.photo
             /\ profile'[u].isUnderReview = p.isUnderReview
             /\ profile'[u].isOnboardingComplete = p.isOnboardingComplete
  BY <1>1, <1>2, <1>5 DEF FinishStep3, Profile
<1>6. ASSUME FinishStep4(c)
      PROVE  /\ profile'[u].onboardingStep = 5
             /\ profile'[u].isOnboardingComplete
             /\ profile'[u].photo = p.photo
             /\ profile'[u].profession = p.profession
  BY <1>1, <1>2, <1>6 DEF FinishStep4, Profile
<1>7. ASSUME ResetOnboarding(c)
      PROVE  /\ profile'[u].onboardingStep = 1
             /\ profile'[u].isUnderReview = FALSE
  BY <1>1, <1>2, <1>7 DEF ResetOnboarding, Profile
<1>8. ASSUME CreateProfile(c)
      PROVE  /\ profile'[u].onboardingStep = 2
             /\ profile'[u].isUnderReview = FALSE
  BY <1>2, <1>8 DEF CreateProfile
<1>9. QED
  BY <1>3, <1>4, <1>5, <1>6, <1>7, <1>8

\* The steps of a call that write no row.
NoWrite(c) ==
    \/ StartStep(c)
    \/ CreateWallet(c)
    \/ SkipWallet(c)
    \/ CreateLimit(c)
    \/ StartReset(c)
    \/ DeletePhoto(c)
    \/ FailCall(c)

LEMMA NoWriteKeepsRows ==
    ASSUME NEW c \in Call, NoWrite(c)
    PROVE  profile' = profile
BY DEF NoWrite, StartStep, StartStep1, CheckStep, CreateWallet, SkipWallet, CreateLimit,
       StartReset, DeletePhoto, FailCall

-----------------------------------------------------------------------------
(* Completeness, however calls interleave *)

LEMMA NextComplete ==
    ASSUME Base, UnderReviewIsComplete, [Next]_vars
    PROVE  UnderReviewIsComplete'
<1> SUFFICES ASSUME NEW u \in User, HasProfile(u)', profile'[u].isUnderReview
             PROVE  profile'[u].isOnboardingComplete
  BY DEF UnderReviewIsComplete, HasProfile
<1>1. ASSUME profile'[u] = profile[u]
      PROVE  profile'[u].isOnboardingComplete
  BY <1>1 DEF UnderReviewIsComplete, HasProfile
<1>2. ASSUME NEW c \in Call, CallNext(c)
      PROVE  profile'[u].isOnboardingComplete
  <2>1. CASE u # UserOf[c]
    BY <1>1, <1>2, <2>1, CallMoves DEF Moves
  <2>2. CASE u = UserOf[c]
    <3>1. CASE NoWrite(c)
      BY <1>1, <3>1, NoWriteKeepsRows
    <3>2. CASE \/ FinishStep1(c) \/ FinishStep2(c) \/ FinishStep3(c)
      <4>1. HasProfile(u)
        BY <2>2, <3>2 DEF FinishStep1, FinishStep2, FinishStep3, Base, DoingInv
      <4>2. QED
        BY <2>2, <3>2, <4>1, RowAfter DEF UnderReviewIsComplete
    <3>3. CASE FinishStep4(c) \/ ResetOnboarding(c) \/ CreateProfile(c)
      BY <2>2, <3>3, RowAfter
    <3>4. QED
      BY <1>2, <3>1, <3>2, <3>3 DEF CallNext, NoWrite
  <2>3. QED
    BY <2>1, <2>2
<1>3. ASSUME NEW v \in User,
             \/ \E verdict \in {"APPROVED", "REJECTED"} : Review(v, verdict)
             \/ Describe(v)
             \/ ReadLimit(v)
      PROVE  profile'[u].isOnboardingComplete
  BY <1>3, OthersMove DEF UnderReviewIsComplete
<1>4. CASE UNCHANGED vars
  BY <1>1, <1>4 DEF vars
<1>5. QED
  BY <1>2, <1>3, <1>4 DEF Next

\* An admin is shown no profile that is not complete, whatever calls a user makes
\* at the same time and wherever they fail.
THEOREM ReviewNeedsCompletion == Spec => []UnderReviewIsComplete
<1>1. Init => UnderReviewIsComplete
  BY DEF Init, UnderReviewIsComplete, HasProfile
<1>2. Base /\ UnderReviewIsComplete /\ [Next]_vars => UnderReviewIsComplete'
  BY NextComplete
<1>3. QED
  BY AlwaysBase, <1>1, <1>2, PTL DEF Spec

-----------------------------------------------------------------------------
(* One call at a time *)

\* What a profile's step says of what the user has done.
Progress(u) ==
    HasProfile(u) =>
       /\ profile[u].onboardingStep >= 3 => profile[u].photo
       /\ profile[u].onboardingStep >= 4 => profile[u].profession
       /\ profile[u].isUnderReview =>
             profile[u].onboardingStep = 5 /\ profile[u].isOnboardingComplete

\* The step a call has checked is still the user's step.
Checked(c) ==
    LET step == profile[UserOf[c]].onboardingStep
    IN /\ doing[c] = "step1" => step = 1
       /\ doing[c] = "step2" => step = 2
       /\ doing[c] = "step3" => step = 3
       /\ doing[c] = "step4" => step = 4

OneCallInv ==
    \A u \in User : OneCall(u) =>
       Progress(u) /\ \A c \in Call : UserOf[c] = u => Checked(c)

LEMMA CallProgress ==
    ASSUME Base, OneCallInv, NEW c \in Call, CallNext(c), OneCall(UserOf[c])
    PROVE  Progress(UserOf[c])' /\ Checked(c)'
<1> DEFINE u == UserOf[c]
<1>0. u \in User
  BY OnboardingAssumption
<1>1. Progress(u) /\ Checked(c)
  BY <1>0 DEF OneCallInv
<1>2. doing \in [Call -> Doing]
  BY DEF Base, TypeOK
<1>3. doing[c] \notin {"nothing", "create"} => HasProfile(u)
  BY DEF Base, DoingInv
<1>4. CASE NoWrite(c)
  <2>1. Progress(u)'
    BY <1>1, <1>4, NoWriteKeepsRows DEF Progress, HasProfile
  <2>2. Checked(c)'
    <3>1. CASE StartStep(c)
      BY <1>2, <3>1 DEF StartStep, StartStep1, CheckStep, Goto, Checked
    <3>2. CASE ~StartStep(c)
      <4>1. doing'[c] \in {"nothing", "limit", "deletePhoto", "reset"}
        BY <1>2, <1>4, <3>2 DEF NoWrite, CreateWallet, SkipWallet, CreateLimit, StartReset,
                                DeletePhoto, FailCall, Return, Goto
      <4>2. QED
        BY <4>1 DEF Checked
    <3>3. QED
      BY <3>1, <3>2
  <2>3. QED
    BY <2>1, <2>2
<1>5. CASE FinishStep1(c)
  <2>1. HasProfile(u) /\ profile[u].onboardingStep = 1
    BY <1>1, <1>3, <1>5 DEF FinishStep1, Checked
  <2>2. ~profile[u].isUnderReview
    BY <1>1, <2>1 DEF Progress
  <2>3. profile'[u].onboardingStep = 2 /\ ~profile'[u].isUnderReview
    BY <1>0, <1>5, <2>2, RowAfter
  <2>4. Progress(u)'
    BY <2>3 DEF Progress
  <2>5. QED
    BY <1>2, <1>5, <2>4 DEF FinishStep1, Return, Goto, Checked
<1>6. CASE FinishStep2(c)
  <2>1. HasProfile(u) /\ profile[u].onboardingStep = 2
    BY <1>1, <1>3, <1>6 DEF FinishStep2, Checked
  <2>2. ~profile[u].isUnderReview
    BY <1>1, <2>1 DEF Progress
  <2>3. profile'[u].onboardingStep = 3 /\ ~profile'[u].isUnderReview /\ profile'[u].photo
    BY <1>0, <1>6, <2>2, RowAfter
  <2>4. Progress(u)'
    BY <2>3 DEF Progress
  <2>5. QED
    BY <1>2, <1>6, <2>4 DEF FinishStep2, Return, Goto, Checked
<1>7. CASE FinishStep3(c)
  <2>1. HasProfile(u) /\ profile[u].onboardingStep = 3
    BY <1>1, <1>3, <1>7 DEF FinishStep3, Checked
  <2>2. ~profile[u].isUnderReview /\ profile[u].photo
    BY <1>1, <2>1 DEF Progress
  <2>3. Progress(u)'
    BY <1>0, <1>7, <2>2, RowAfter DEF Progress
  <2>4. QED
    BY <1>2, <1>7, <2>3 DEF FinishStep3, Return, Goto, Checked
<1>8. CASE FinishStep4(c)
  <2>1. HasProfile(u) /\ profile[u].onboardingStep = 4
    BY <1>1, <1>3, <1>8 DEF FinishStep4, Checked
  <2>2. profile[u].photo /\ profile[u].profession
    BY <1>1, <2>1 DEF Progress
  <2>3. Progress(u)'
    BY <1>0, <1>8, <2>2, RowAfter DEF Progress
  <2>4. QED
    BY <1>2, <1>8, <2>3 DEF FinishStep4, Goto, Checked
<1>9. CASE ResetOnboarding(c) \/ CreateProfile(c)
  <2>1. profile'[u].onboardingStep \in {1, 2} /\ ~profile'[u].isUnderReview
    BY <1>0, <1>9, RowAfter
  <2>2. Progress(u)'
    BY <2>1 DEF Progress
  <2>3. QED
    BY <1>2, <1>9, <2>2 DEF ResetOnboarding, CreateProfile, Return, Goto, Checked
<1>10. QED
  BY <1>4, <1>5, <1>6, <1>7, <1>8, <1>9 DEF CallNext, NoWrite

LEMMA NextOneCall ==
    ASSUME Base, OneCallInv, [Next]_vars
    PROVE  OneCallInv'
<1> SUFFICES ASSUME NEW u \in User, OneCall(u)
             PROVE  Progress(u)' /\ \A d \in Call : UserOf[d] = u => Checked(d)'
  BY DEF OneCallInv, OneCall
<1> DEFINE Goal == Progress(u)' /\ \A d \in Call : UserOf[d] = u => Checked(d)'
<1>1. Progress(u) /\ \A d \in Call : UserOf[d] = u => Checked(d)
  BY DEF OneCallInv
<1>2. ASSUME profile'[u] = profile[u],
             \A d \in Call : UserOf[d] = u => doing'[d] = doing[d]
      PROVE  Goal
  BY <1>1, <1>2 DEF Progress, Checked, HasProfile
<1>3. ASSUME NEW c \in Call, CallNext(c)
      PROVE  Goal
  <2>1. CASE UserOf[c] = u
    <3>1. Progress(u)' /\ Checked(c)'
      BY <1>3, <2>1, CallProgress
    <3>2. \A d \in Call : UserOf[d] = u => d = c
      BY <2>1 DEF OneCall
    <3>3. QED
      BY <3>1, <3>2
  <2>2. CASE UserOf[c] # u
    BY <1>2, <1>3, <2>2, CallMoves DEF Moves
  <2>3. QED
    BY <2>1, <2>2
<1>4. ASSUME NEW v \in User,
             \/ \E verdict \in {"APPROVED", "REJECTED"} : Review(v, verdict)
             \/ Describe(v)
             \/ ReadLimit(v)
      PROVE  Goal
  <2>1. Progress(u)'
    BY <1>1, <1>4, OthersMove DEF Progress
  <2>2. ASSUME NEW d \in Call, UserOf[d] = u
        PROVE  Checked(d)'
    <3>1. doing[d] \notin {"nothing", "create"} =>
             profile'[u].onboardingStep = profile[u].onboardingStep
      BY <1>4, <2>2, OthersMove DEF Base, DoingInv
    <3>2. doing'[d] = doing[d]
      BY <1>4, OthersMove
    <3>3. QED
      BY <1>1, <2>2, <3>1, <3>2 DEF Checked
  <2>3. QED
    BY <2>1, <2>2
<1>5. CASE UNCHANGED vars
  BY <1>2, <1>5 DEF vars
<1>6. QED
  BY <1>3, <1>4, <1>5 DEF Next

Steady == Base /\ OneCallInv

LEMMA AlwaysSteady == Spec => []Steady
<1>1. Init => OneCallInv
  BY DEF Init, OneCallInv, Progress, Checked, HasProfile
<1>2. Base /\ OneCallInv /\ [Next]_vars => OneCallInv'
  BY NextOneCall
<1>3. Base /\ OneCallInv => Steady
  BY DEF Steady
<1>4. QED
  BY AlwaysBase, <1>1, <1>2, <1>3, PTL DEF Spec

\* A user who makes one call at a time is reviewed with a whole profile, whatever
\* fails and whatever admins and the other users do.
THEOREM ReviewIsWhole == Spec => []OneCallReviewIsWhole
<1>1. Steady => OneCallReviewIsWhole
  <2> SUFFICES ASSUME Steady, NEW u \in User, OneCall(u), HasProfile(u),
                      profile[u].isUnderReview
               PROVE  /\ profile[u].onboardingStep = 5
                      /\ profile[u].isOnboardingComplete
                      /\ profile[u].photo
                      /\ profile[u].profession
    BY DEF OneCallReviewIsWhole, Whole
  <2>1. Progress(u)
    BY DEF Steady, OneCallInv
  <2>2. QED
    BY <2>1 DEF Progress
<1>2. QED
  BY AlwaysSteady, <1>1, PTL

-----------------------------------------------------------------------------
(* Wallets *)

\* The profile went through every step.
Done(u) ==
    /\ HasProfile(u)
    /\ profile[u].onboardingStep = 5
    /\ profile[u].isOnboardingComplete
    /\ profile[u].photo
    /\ profile[u].profession

\* A call that is about to create the wallet still has a whole profile behind it.
WalletInv ==
    \A c \in Call : OneCall(UserOf[c]) /\ doing[c] = "wallet" => Done(UserOf[c])

LEMMA NextWallet ==
    ASSUME Steady, WalletInv, [Next]_vars
    PROVE  WalletInv'
<1> SUFFICES ASSUME NEW d \in Call, OneCall(UserOf[d]), doing'[d] = "wallet"
             PROVE  Done(UserOf[d])'
  BY DEF WalletInv, OneCall
<1> DEFINE u == UserOf[d]
<1>0. u \in User /\ Base
  BY OnboardingAssumption DEF Steady
<1>1. ASSUME doing'[d] = doing[d], profile'[u] = profile[u]
      PROVE  Done(u)'
  BY <1>1 DEF WalletInv, Done, HasProfile
<1>2. ASSUME NEW c \in Call, CallNext(c), UserOf[c] # u
      PROVE  Done(u)'
  <2>1. Moves(c) /\ c # d
    BY <1>0, <1>2, CallMoves
  <2>2. QED
    BY <1>0, <1>1, <1>2, <2>1 DEF Moves
<1>3. ASSUME NEW c \in Call, CallNext(c), UserOf[c] = u
      PROVE  Done(u)'
  <2>1. c = d
    BY <1>3 DEF OneCall
  <2>2. doing \in [Call -> Doing]
    BY <1>0 DEF Base, TypeOK
  <2>3. FinishStep4(d)
    BY <1>3, <2>1, <2>2
       DEF CallNext, StartStep, StartStep1, CheckStep, CreateProfile, FinishStep1,
           FinishStep2, FinishStep3, CreateWallet, SkipWallet, CreateLimit, StartReset,
           DeletePhoto, ResetOnboarding, FailCall, Return, Goto
  <2>4. HasProfile(u) /\ Progress(u) /\ Checked(d)
    BY <1>0, <2>3 DEF Steady, OneCallInv, Base, DoingInv, FinishStep4
  <2>5. profile[u].photo /\ profile[u].profession
    BY <2>3, <2>4 DEF Progress, Checked, FinishStep4
  <2>6. HasProfile(u)'
    BY <1>0, <1>3, <2>1, <2>4, CallMoves DEF Moves
  <2>7. QED
    BY <1>0, <2>3, <2>5, <2>6, RowAfter DEF Done
<1>4. ASSUME NEW v \in User,
             \/ \E verdict \in {"APPROVED", "REJECTED"} : Review(v, verdict)
             \/ Describe(v)
             \/ ReadLimit(v)
      PROVE  Done(u)'
  <2>1. doing'[d] = doing[d]
    BY <1>0, <1>4, OthersMove
  <2>2. Done(u)
    BY <2>1 DEF WalletInv
  <2>3. QED
    BY <1>0, <1>4, <2>2, OthersMove DEF Done
<1>5. CASE UNCHANGED vars
  BY <1>1, <1>5 DEF vars
<1>6. QED
  BY <1>2, <1>3, <1>4, <1>5 DEF Next

LEMMA AlwaysWallet == Spec => []WalletInv
<1>1. Init => WalletInv
  BY DEF Init, WalletInv
<1>2. Steady /\ WalletInv /\ [Next]_vars => WalletInv'
  BY NextWallet
<1>3. QED
  BY AlwaysSteady, <1>1, <1>2, PTL DEF Spec

\* A user who makes one call at a time is given a wallet with a whole profile only,
\* for any number of users and calls and wherever a call fails.
THEOREM WalletIsEarned == Spec => WalletFollowsCompletion
<1> DEFINE Earned == \A u \in OneCallUser :
                        u \in wallets' \ wallets =>
                           /\ HasProfile(u)
                           /\ profile[u].onboardingStep = 5
                           /\ profile[u].isOnboardingComplete
                           /\ profile[u].photo
                           /\ profile[u].profession
<1>1. WalletInv /\ [Next]_vars => [Earned]_vars
  <2> SUFFICES ASSUME WalletInv, Next, NEW u \in OneCallUser, u \in wallets' \ wallets
               PROVE  Done(u)
    BY DEF Done
  <2>1. PICK c \in Call : CreateWallet(c)
    BY DEF Next, CallNext, StartStep, StartStep1, CheckStep, CreateProfile, FinishStep1,
           FinishStep2, FinishStep3, FinishStep4, SkipWallet, CreateLimit, StartReset,
           DeletePhoto, ResetOnboarding, FailCall, Review, Describe, ReadLimit
  <2>2. u = UserOf[c] /\ doing[c] = "wallet"
    BY <2>1 DEF CreateWallet
  <2>3. QED
    BY <2>2 DEF WalletInv, OneCallUser
<1>2. QED
  BY <1>1, AlwaysWallet, PTL DEF Spec, WalletFollowsCompletion

-----------------------------------------------------------------------------
(* The abstract review *)

\* What the review sees of a user, and what of her a step may change.
Step(u) == IF HasProfile(u) THEN profile[u].onboardingStep ELSE 0

Listed(u) == HasProfile(u) /\ profile[u].isUnderReview

Stays(u) == Step(u)' = Step(u) /\ (Listed(u)' <=> Listed(u))

\* One of the actions of the review, as it looks to the user it is about.
Reviewed(u) ==
    \/ Step(u) = 0 /\ Step(u)' = 2 /\ (Listed(u)' <=> Listed(u))
    \/ Step(u) \in 1..3 /\ Step(u)' = Step(u) + 1 /\ (Listed(u)' <=> Listed(u))
    \/ Step(u) = 4 /\ Step(u)' = 5 /\ Listed(u)'
    \/ Listed(u) /\ Step(u)' = Step(u) /\ ~Listed(u)'
    \/ Step(u) # 0 /\ Step(u)' = 1 /\ ~Listed(u)'

\* A call of a user who makes one at a time is a step of the review or none.
LEMMA CallIsReviewed ==
    ASSUME Steady, NEW c \in Call, NEW u \in User, u = UserOf[c], OneCall(u), CallNext(c)
    PROVE  Stays(u) \/ Reviewed(u)
<1>1. Base /\ Progress(u) /\ Checked(c)
  BY DEF Steady, OneCallInv
<1>2. doing[c] \notin {"nothing", "create"} => HasProfile(u)
  BY <1>1 DEF Base, DoingInv
<1>3. HasProfile(u)' <=> profile'[u] # NoProfile
  BY DEF HasProfile
<1>4. CASE NoWrite(c)
  BY <1>4, NoWriteKeepsRows DEF Stays, Step, Listed, HasProfile
<1>5. CASE CreateProfile(c)
  <2>1. ~HasProfile(u)
    BY <1>5 DEF CreateProfile
  <2>2. Step(u) = 0 /\ ~Listed(u)
    BY <2>1 DEF Step, Listed
  <2>3. profile'[u].onboardingStep = 2 /\ profile'[u].isUnderReview = FALSE
    BY <1>1, <1>5, RowAfter
  <2>4. HasProfile(u)'
    <3>1. profile \in [User -> Profile \cup {NoProfile}]
      BY <1>1 DEF Base, TypeOK
    <3>2. profile'[u] \in Profile
      BY <1>5, <3>1 DEF CreateProfile, Profile, ReviewStatus
    <3> QED
      BY <3>2, OnboardingAssumption DEF HasProfile
  <2>5. Step(u)' = 2 /\ ~Listed(u)'
    BY <2>3, <2>4 DEF Step, Listed
  <2> QED
    BY <2>2, <2>5 DEF Reviewed
<1>6. HasProfile(u) => HasProfile(u)'
  <2>1. Moves(c)
    BY <1>1, CallMoves
  <2> QED
    BY <2>1 DEF Moves, HasProfile
<1>7. CASE FinishStep1(c) \/ FinishStep2(c) \/ FinishStep3(c)
  <2>1. HasProfile(u) /\ HasProfile(u)'
    BY <1>2, <1>6, <1>7 DEF FinishStep1, FinishStep2, FinishStep3
  <2>2. /\ profile[u].onboardingStep \in 1..3
        /\ profile'[u].onboardingStep = profile[u].onboardingStep + 1
        /\ profile'[u].isUnderReview = profile[u].isUnderReview
    <3>1. CASE FinishStep1(c)
      <4>1. profile[u].onboardingStep = 1
        BY <1>1, <3>1 DEF Checked, FinishStep1
      <4>2. /\ profile'[u].onboardingStep = 2
            /\ profile'[u].isUnderReview = profile[u].isUnderReview
        BY <1>1, <3>1, RowAfter
      <4> QED
        BY <4>1, <4>2
    <3>2. CASE FinishStep2(c)
      <4>1. profile[u].onboardingStep = 2
        BY <1>1, <3>2 DEF Checked, FinishStep2
      <4>2. /\ profile'[u].onboardingStep = 3
            /\ profile'[u].isUnderReview = profile[u].isUnderReview
        BY <1>1, <3>2, RowAfter
      <4> QED
        BY <4>1, <4>2
    <3>3. CASE FinishStep3(c)
      <4>1. profile[u].onboardingStep = 3
        BY <1>1, <3>3 DEF Checked, FinishStep3
      <4>2. /\ profile'[u].onboardingStep = 4
            /\ profile'[u].isUnderReview = profile[u].isUnderReview
        BY <1>1, <3>3, RowAfter
      <4> QED
        BY <4>1, <4>2
    <3> QED
      BY <1>7, <3>1, <3>2, <3>3
  <2> QED
    BY <2>1, <2>2 DEF Reviewed, Step, Listed
<1>8. CASE FinishStep4(c)
  <2>1. HasProfile(u) /\ HasProfile(u)'
    BY <1>2, <1>6, <1>8 DEF FinishStep4
  <2>2. profile[u].onboardingStep = 4 /\ profile'[u].onboardingStep = 5
    BY <1>1, <1>8, RowAfter DEF Checked, FinishStep4
  <2>3. profile'[u].isUnderReview
    BY <1>1, <1>8, <2>1, RowIsProfile DEF FinishStep4, Base, TypeOK, Profile
  <2> QED
    BY <2>1, <2>2, <2>3 DEF Reviewed, Step, Listed
<1>9. CASE ResetOnboarding(c)
  <2>1. HasProfile(u) /\ HasProfile(u)'
    BY <1>2, <1>6, <1>9 DEF ResetOnboarding
  <2>2. profile[u].onboardingStep # 0
    BY <1>1, <2>1, RowIsProfile DEF Base, Profile
  <2>3. profile'[u].onboardingStep = 1 /\ profile'[u].isUnderReview = FALSE
    BY <1>1, <1>9, RowAfter
  <2> QED
    BY <2>1, <2>2, <2>3 DEF Reviewed, Step, Listed
<1> QED
  BY <1>4, <1>5, <1>7, <1>8, <1>9 DEF CallNext, NoWrite

\* So is what an admin does.
LEMMA OthersAreReviewed ==
    ASSUME Steady, NEW v \in User,
           \/ \E verdict \in {"APPROVED", "REJECTED"} : Review(v, verdict)
           \/ Describe(v)
           \/ ReadLimit(v)
    PROVE  /\ \A u \in User \ {v} : Stays(u)
           /\ Stays(v) \/ Reviewed(v)
<1>1. profile \in [User -> Profile \cup {NoProfile}]
  BY DEF Steady, Base, TypeOK
<1>2. ASSUME NEW u \in User \ {v} PROVE Stays(u)
  <2>1. profile'[u] = profile[u]
    BY <1>1 DEF Review, Describe, ReadLimit
  <2> QED
    BY <2>1 DEF Stays, Step, Listed, HasProfile
<1>3. /\ HasProfile(v)' <=> HasProfile(v)
      /\ HasProfile(v) =>
            /\ profile'[v].onboardingStep = profile[v].onboardingStep
            /\ profile'[v].isUnderReview => profile[v].isUnderReview
  BY OthersMove DEF Steady
<1>4. /\ Step(v)' = Step(v)
      /\ Listed(v)' => Listed(v)
  BY <1>3 DEF Step, Listed
<1> QED
  BY <1>2, <1>4 DEF Stays, Reviewed

\* What one user's part of a step is in the review.
LEMMA ReviewStep ==
    ASSUME NEW u \in OneCallUser, Stays(u) \/ Reviewed(u),
           \A v \in OneCallUser \ {u} : Stays(v)
    PROVE  [R!Next]_R!reviewVars
<1>1. /\ stepOf \in [OneCallUser -> {Step(v) : v \in OneCallUser}]
      /\ \A v \in OneCallUser : stepOf[v] = Step(v)
      /\ \A v \in OneCallUser : stepOf'[v] = Step(v)'
      /\ stepOf' = [stepOf EXCEPT ![u] = Step(u)']
  BY DEF stepOf, Step, Stays
<1>2. /\ \A v \in OneCallUser : v \in underReview <=> Listed(v)
      /\ (underReview' = underReview) \/ (Listed(u)' /\ ~Listed(u)) \/ (~Listed(u)' /\ Listed(u))
      /\ Listed(u)' => underReview' = underReview \cup {u}
      /\ ~Listed(u)' => underReview' = underReview \ {u}
  BY DEF underReview, Listed, Stays
<1>3. CASE Stays(u)
  BY <1>1, <1>2, <1>3 DEF Stays, R!reviewVars
<1>4. CASE Reviewed(u)
  BY <1>1, <1>2, <1>4 DEF Reviewed, R!Next, R!Register, R!Advance, R!Submit, R!Decide,
     R!StartOver
<1> QED
  BY <1>3, <1>4

\* The review is implemented for the users who make one call at a time, whatever the
\* others do.
THEOREM Refinement == Spec => ImplementsReview
<1>1. Init => R!Init
  BY DEF Init, R!Init, stepOf, underReview, HasProfile, OneCallUser
<1>2. Steady /\ [Next]_vars => [R!Next]_R!reviewVars
  <2> SUFFICES ASSUME Steady, [Next]_vars PROVE [R!Next]_R!reviewVars
    OBVIOUS
  <2>1. ASSUME \A u \in OneCallUser : Stays(u)
        PROVE  UNCHANGED R!reviewVars
    BY <2>1 DEF R!reviewVars, stepOf, underReview, Stays, Step, Listed
  <2>2. CASE UNCHANGED vars
    BY <2>1, <2>2 DEF vars, Stays, Step, Listed, HasProfile
  <2>3. ASSUME NEW c \in Call, CallNext(c)
        PROVE  [R!Next]_R!reviewVars
    <3>1. UserOf[c] \in User
      BY OnboardingAssumption
    <3>2. ASSUME NEW u \in User \ {UserOf[c]} PROVE Stays(u)
      <4>1. profile'[u] = profile[u]
        BY <2>3, CallMoves DEF Moves, Steady
      <4> QED
        BY <4>1 DEF Stays, Step, Listed, HasProfile
    <3>3. CASE OneCall(UserOf[c])
      <4>1. Stays(UserOf[c]) \/ Reviewed(UserOf[c])
        BY <2>3, <3>1, <3>3, CallIsReviewed
      <4> QED
        BY <3>1, <3>2, <3>3, <4>1, ReviewStep DEF OneCallUser
    <3>4. CASE ~OneCall(UserOf[c])
      BY <2>1, <3>2, <3>4 DEF OneCallUser
    <3> QED
      BY <3>3, <3>4
  <2>4. ASSUME NEW v \in User,
               \/ \E verdict \in {"APPROVED", "REJECTED"} : Review(v, verdict)
               \/ Describe(v)
               \/ ReadLimit(v)
        PROVE  [R!Next]_R!reviewVars
    <3>1. (\A u \in User \ {v} : Stays(u)) /\ (Stays(v) \/ Reviewed(v))
      BY <2>4, OthersAreReviewed
    <3>2. CASE OneCall(v)
      BY <3>1, <3>2, ReviewStep DEF OneCallUser
    <3>3. CASE ~OneCall(v)
      BY <2>1, <3>1, <3>3 DEF OneCallUser
    <3> QED
      BY <3>2, <3>3
  <2> QED
    BY <2>2, <2>3, <2>4 DEF Next
<1> QED
  BY <1>1, <1>2, AlwaysSteady, PTL DEF Spec, ImplementsReview, R!Spec
=============================================================================
