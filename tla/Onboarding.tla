----------------------------- MODULE Onboarding -----------------------------
(***************************************************************************)
(* A celebrity's onboarding (onboarding.service.ts) and the admin's review  *)
(* (admin.service.ts).  Every step checks the profile's step in one query,  *)
(* may wait for an upload, and writes in another; step 4 makes three writes *)
(* that are not a transaction.                                              *)
(***************************************************************************)
EXTENDS Integers

CONSTANTS
    User,
    Call,       \* calls of the onboarding endpoints that may run at a time
    UserOf,     \* whose call it is, by its token
    NoProfile

ReviewStatus == {"PENDING", "APPROVED", "REJECTED"}

\* photo and profession: that profilePhotoUrl and profession have been filled in.
Profile == [onboardingStep : 1..5, isOnboardingComplete : BOOLEAN,
            isUnderReview : BOOLEAN, reviewStatus : ReviewStatus,
            photo : BOOLEAN, profession : BOOLEAN]

ASSUME OnboardingAssumption ==
    /\ UserOf \in [Call -> User]
    /\ NoProfile \notin Profile

VARIABLES
    profile,   \* rows of CelebrityProfile by user
    wallets,   \* users with a wallet
    limits,    \* users with a row in request_limits
    doing      \* what each call has checked and is about to do

vars == <<profile, wallets, limits, doing>>

Doing == {"nothing", "create", "step1", "step2", "step3", "step4",
          "wallet", "limit", "deletePhoto", "reset"}

TypeOK ==
    /\ profile \in [User -> Profile \cup {NoProfile}]
    /\ wallets \subseteq User
    /\ limits \subseteq User
    /\ doing \in [Call -> Doing]

Init ==
    /\ profile = [u \in User |-> NoProfile]
    /\ wallets = {}
    /\ limits = {}
    /\ doing = [c \in Call |-> "nothing"]

HasProfile(u) == profile[u] # NoProfile

Goto(c, what) == doing' = [doing EXCEPT ![c] = what]

Return(c) == Goto(c, "nothing")

-----------------------------------------------------------------------------
(* The steps, up to their first write *)

\* startOrCompleteStep1, also for a user it has just registered.
StartStep1(c) ==
    LET u == UserOf[c]
    IN /\ doing[c] = "nothing"
       /\ \/ ~HasProfile(u) /\ Goto(c, "create")
          \/ /\ HasProfile(u)
             /\ profile[u].onboardingStep = 1
             /\ Goto(c, "step1")
       /\ UNCHANGED <<profile, wallets, limits>>

\* Mutant: a step may be done again after it, as the progress endpoint suggests.
CheckStepReached(c, n, what) ==
    /\ doing[c] = "nothing"
    /\ HasProfile(UserOf[c])
    /\ profile[UserOf[c]].onboardingStep >= n
    /\ Goto(c, what)
    /\ UNCHANGED <<profile, wallets, limits>>

\* The check of the other steps; step 2 then uploads the photo.
CheckStep(c, n, what) ==
    /\ doing[c] = "nothing"
    /\ HasProfile(UserOf[c])
    /\ profile[UserOf[c]].onboardingStep = n
    /\ Goto(c, what)
    /\ UNCHANGED <<profile, wallets, limits>>

StartStep(c) ==
    \/ StartStep1(c)
    \/ CheckStep(c, 2, "step2")
    \/ CheckStep(c, 3, "step3")
    \/ CheckStep(c, 4, "step4")

-----------------------------------------------------------------------------
(* The writes *)

\* userId is unique: no second profile.
CreateProfile(c) ==
    LET u == UserOf[c]
    IN /\ doing[c] = "create"
       /\ ~HasProfile(u)
       /\ profile' = [profile EXCEPT ![u] =
             [onboardingStep |-> 2, isOnboardingComplete |-> FALSE,
              isUnderReview |-> FALSE, reviewStatus |-> "PENDING",
              photo |-> FALSE, profession |-> FALSE]]
       /\ Return(c)
       /\ UNCHANGED <<wallets, limits>>

FinishStep1(c) ==
    /\ doing[c] = "step1"
    /\ profile' = [profile EXCEPT ![UserOf[c]].onboardingStep = 2]
    /\ Return(c)
    /\ UNCHANGED <<wallets, limits>>

\* After the upload: the step it has become is not looked at.
FinishStep2(c) ==
    /\ doing[c] = "step2"
    /\ profile' = [profile EXCEPT ![UserOf[c]].photo = TRUE,
                                  ![UserOf[c]].onboardingStep = 3]
    /\ Return(c)
    /\ UNCHANGED <<wallets, limits>>

FinishStep3(c) ==
    /\ doing[c] = "step3"
    /\ profile' = [profile EXCEPT ![UserOf[c]].profession = TRUE,
                                  ![UserOf[c]].onboardingStep = 4]
    /\ Return(c)
    /\ UNCHANGED <<wallets, limits>>

\* Mutant: the step is counted up instead of set.
FinishStep4Increments(c) ==
    /\ doing[c] = "step4"
    /\ profile' = [profile EXCEPT ![UserOf[c]].onboardingStep = @ + 1,
                                  ![UserOf[c]].isOnboardingComplete = TRUE,
                                  ![UserOf[c]].isUnderReview = TRUE]
    /\ Goto(c, "wallet")
    /\ UNCHANGED <<wallets, limits>>

\* The first write of step 4: the profile is complete from here on.
FinishStep4(c) ==
    /\ doing[c] = "step4"
    /\ profile' = [profile EXCEPT ![UserOf[c]].onboardingStep = 5,
                                  ![UserOf[c]].isOnboardingComplete = TRUE,
                                  ![UserOf[c]].isUnderReview = TRUE]
    /\ Goto(c, "wallet")
    /\ UNCHANGED <<wallets, limits>>

\* Mutant: the wallet and the profile are written side by side.
CreateWalletAlongside(c) ==
    /\ doing[c] \in {"step4", "wallet"}
    /\ UserOf[c] \notin wallets
    /\ wallets' = wallets \cup {UserOf[c]}
    /\ IF doing[c] = "wallet" THEN Goto(c, "limit") ELSE UNCHANGED doing
    /\ UNCHANGED <<profile, limits>>

\* The second, if the currency is there; a user has one wallet.
CreateWallet(c) ==
    /\ doing[c] = "wallet"
    /\ UserOf[c] \notin wallets
    /\ wallets' = wallets \cup {UserOf[c]}
    /\ Goto(c, "limit")
    /\ UNCHANGED <<profile, limits>>

SkipWallet(c) ==
    /\ doing[c] = "wallet"
    /\ Goto(c, "limit")
    /\ UNCHANGED <<profile, wallets, limits>>

\* The third; a user has one limits row.
CreateLimit(c) ==
    /\ doing[c] = "limit"
    /\ UserOf[c] \notin limits
    /\ limits' = limits \cup {UserOf[c]}
    /\ Return(c)
    /\ UNCHANGED <<profile, wallets>>

-----------------------------------------------------------------------------
(* Reset, failure, and what others do meanwhile *)

\* resetOnboarding, up to its write: a photo is deleted first.
StartReset(c) ==
    /\ doing[c] = "nothing"
    /\ HasProfile(UserOf[c])
    /\ Goto(c, IF profile[UserOf[c]].photo THEN "deletePhoto" ELSE "reset")
    /\ UNCHANGED <<profile, wallets, limits>>

\* deleteImage; an error is caught and forgotten.
DeletePhoto(c) ==
    /\ doing[c] = "deletePhoto"
    /\ Goto(c, "reset")
    /\ UNCHANGED <<profile, wallets, limits>>

\* Mutant: the photo is forgotten, the review is not.
ResetPhotoOnly(c) ==
    /\ doing[c] = "reset"
    /\ profile' = [profile EXCEPT ![UserOf[c]].photo = FALSE,
                                  ![UserOf[c]].onboardingStep = 1,
                                  ![UserOf[c]].isOnboardingComplete = FALSE]
    /\ Return(c)
    /\ UNCHANGED <<wallets, limits>>

ResetOnboarding(c) ==
    /\ doing[c] = "reset"
    /\ profile' = [profile EXCEPT ![UserOf[c]] =
                     [@ EXCEPT !.onboardingStep = 1,
                               !.isOnboardingComplete = FALSE,
                               !.isUnderReview = FALSE,
                               !.reviewStatus = "PENDING",
                               !.photo = FALSE]]
    /\ Return(c)
    /\ UNCHANGED <<wallets, limits>>

\* A query, the upload or the lookup of the address throws (an insertion also if
\* the row exists), or the process restarts.
FailCall(c) ==
    /\ doing[c] # "nothing"
    /\ Return(c)
    /\ UNCHANGED <<profile, wallets, limits>>

\* Mutant: the decision is recorded, and the profile stays on the list of reviews
\* and is marked for it even if it was not.
ReviewKeepsListed(u, verdict) ==
    /\ HasProfile(u)
    /\ profile' = [profile EXCEPT ![u].isUnderReview = TRUE, ![u].reviewStatus = verdict]
    /\ UNCHANGED <<wallets, limits, doing>>

\* approveUser and rejectUser: of any profile, whatever its state.
Review(u, verdict) ==
    /\ HasProfile(u)
    /\ profile' = [profile EXCEPT ![u].isUnderReview = FALSE,
                                  ![u].reviewStatus = verdict]
    /\ UNCHANGED <<wallets, limits, doing>>

\* updateUserProfile (by an admin) and updateCelebrityProfile (by the user herself)
\* may fill in a photo or a profession at any step, and empty none.
Describe(u) ==
    /\ HasProfile(u)
    /\ \/ profile' = [profile EXCEPT ![u].photo = TRUE]
       \/ profile' = [profile EXCEPT ![u].profession = TRUE]
    /\ UNCHANGED <<wallets, limits, doing>>

\* The first read of the user's request limit makes her row (getRequestLimit).
ReadLimit(u) ==
    /\ limits' = limits \cup {u}
    /\ UNCHANGED <<profile, wallets, doing>>

-----------------------------------------------------------------------------

CallNext(c) ==
    \/ StartStep(c)
    \/ CreateProfile(c)
    \/ FinishStep1(c)
    \/ FinishStep2(c)
    \/ FinishStep3(c)
    \/ FinishStep4(c)
    \/ CreateWallet(c)
    \/ SkipWallet(c)
    \/ CreateLimit(c)
    \/ StartReset(c)
    \/ DeletePhoto(c)
    \/ ResetOnboarding(c)
    \/ FailCall(c)

Next ==
    \/ \E c \in Call : CallNext(c)
    \/ \E u \in User :
          \/ \E verdict \in {"APPROVED", "REJECTED"} : Review(u, verdict)
          \/ Describe(u)
          \/ ReadLimit(u)

Spec == Init /\ [][Next]_vars

-----------------------------------------------------------------------------
(* Properties *)

\* The user waits for the answer to one call before the next.
OneCall(u) == \A c, d \in Call : UserOf[c] = u /\ UserOf[d] = u => c = d

\* What reaches an admin's review went through every step and was not reset since.
Whole(u) ==
    HasProfile(u) /\ profile[u].isUnderReview =>
       /\ profile[u].onboardingStep = 5
       /\ profile[u].isOnboardingComplete
       /\ profile[u].photo
       /\ profile[u].profession

\* A user who makes one call at a time is reviewed with a whole profile, through
\* errors, restarts, resets and decisions of admins between any two queries.
OneCallReviewIsWhole == \A u \in User : OneCall(u) => Whole(u)

OneCallUser == {u \in User : OneCall(u)}

stepOf ==
    [u \in OneCallUser |-> IF HasProfile(u) THEN profile[u].onboardingStep ELSE 0]

underReview == {u \in OneCallUser : HasProfile(u) /\ profile[u].isUnderReview}

R == INSTANCE ProfileReview WITH User <- OneCallUser, step <- stepOf,
                                 listed <- underReview

\* For a user who makes one call at a time the split steps, the admins' decisions
\* and the resets implement ProfileReview: she goes forward by one step or back to
\* the start, is listed by her last step only, and a profile that was decided on
\* is not listed again without all the steps (onboarding.service.ts:365).
ImplementsReview == R!Spec

\* The rows of step 4 are written in an order and not together: an error may leave a
\* complete profile without a wallet, but a user who makes one call at a time is never
\* given one before her profile is whole, nor by a call that a reset has overtaken
\* (onboarding.service.ts:364-428).
WalletFollowsCompletion ==
    [][\A u \in OneCallUser :
          u \in wallets' \ wallets =>
             /\ HasProfile(u)
             /\ profile[u].onboardingStep = 5
             /\ profile[u].isOnboardingComplete
             /\ profile[u].photo
             /\ profile[u].profession]_vars

\* However calls interleave, an admin is shown no profile that is not complete.
UnderReviewIsComplete ==
    \A u \in User :
       HasProfile(u) /\ profile[u].isUnderReview => profile[u].isOnboardingComplete
=============================================================================
