----------------------------- MODULE AuthTokens -----------------------------
(***************************************************************************)
(* Accounts, the verification codes and password reset tokens that are      *)
(* mailed to their users, and the access tokens that say what an account    *)
(* was when they were signed (auth.service.ts, users.listener.ts).          *)
(*                                                                          *)
(* Using a token takes steps: look it up, (hash the password,) change the   *)
(* account, delete the row, (sign).  Calls run concurrently and stop        *)
(* anywhere.  A code has five digits, its column is not unique and its row   *)
(* names no user: which stored row an entered code finds, and whom it was    *)
(* sent to, is left open.                                                    *)
(***************************************************************************)
EXTENDS Integers, FiniteSets

CONSTANTS
    User,
    Call,       \* concurrent verify-token and reset-password calls
    CodeRow,    \* bound: rows of VerifyToken that are ever made
    ResetRow,   \* bound: rows of ResetToken that are ever made
    TokenLife,  \* 15 minutes
    MaxTime,    \* bound on the clock
    NoToken, NoRow, NoUser

Token == CodeRow \cup ResetRow

Status == {"sending", "stored", "gone"}

TokenRow == [status : Status, ttl : Nat]

Account == {"none", "unverified", "verified"}

ASSUME AuthAssumption ==
    /\ CodeRow \cap ResetRow = {}
    /\ IsFiniteSet(Call) /\ Call # {}
    /\ TokenLife \in Nat
    /\ NoRow \notin TokenRow
    /\ NoToken \notin Token
    /\ NoUser \notin User

VARIABLES
    now,
    account,    \* of each user: is there one, and its isVerified
    signedIn,   \* users who hold an access token
    claims,     \* users who hold one that says isVerified
    tokens,     \* rows of both tables
    call,       \* what each call has found and is about to do
    honoured,   \* history: calls that deleted the token they used
    late        \* history: changes of accounts by a token that was deleted already

vars == <<now, account, signedIn, claims, tokens, call, honoured, late>>
accountVars == <<account, signedIn, claims>>
history == <<honoured, late>>

Idle == [at |-> "idle", user |-> NoUser, token |-> NoToken]

\* Whose password a reset changes is not kept: nothing here depends on it.
CallState ==
    [at : {"verify", "consume", "sign"}, user : User, token : CodeRow]
       \cup [at : {"change", "consume"}, user : {NoUser}, token : ResetRow]

TypeOK ==
    /\ now \in Nat
    /\ account \in [User -> Account]
    /\ signedIn \subseteq User
    /\ claims \subseteq User
    /\ tokens \in [Token -> TokenRow \cup {NoRow}]
    /\ call \in [Call -> CallState \cup {Idle}]
    /\ honoured \in [Token -> Nat]
    /\ late \in [Token -> Nat]

Init ==
    /\ now = 0
    /\ account = [u \in User |-> "none"]
    /\ signedIn = {}
    /\ claims = {}
    /\ tokens = [t \in Token |-> NoRow]
    /\ call = [c \in Call |-> Idle]
    /\ honoured = [t \in Token |-> 0]
    /\ late = [t \in Token |-> 0]

Stored(t) == tokens[t] # NoRow /\ tokens[t].status = "stored"

Gone(t) == tokens[t] # NoRow /\ tokens[t].status = "gone"

\* ttl < new Date() is refused: a token may be used in its last moment.
Usable(t) == Stored(t) /\ tokens[t].ttl >= now

-----------------------------------------------------------------------------
(* Accounts and access tokens *)

\* Mutant: whoever signs in is taken for verified.
SignVerified(u, a) ==
    /\ signedIn' = signedIn \cup {u}
    /\ claims' = claims \cup {u}

\* An access token says of the account what the row said when it was read.
Sign(u, a) ==
    /\ signedIn' = signedIn \cup {u}
    /\ claims' = IF a = "verified" THEN claims \cup {u} ELSE claims

SignIn(u) == Sign(u, account[u]) /\ UNCHANGED account

SignUp(u, a) ==
    /\ account[u] = "none"
    /\ account' = [account EXCEPT ![u] = a]
    /\ Sign(u, a)

\* Mutant: the time of expiry is not stored.
SendWithoutExpiry(t) ==
    /\ tokens[t] = NoRow
    /\ tokens' = [tokens EXCEPT ![t] = [status |-> "sending"]]

\* The listener of verification.sent: a code is chosen, its insertion is started
\* and not awaited, its mail is posted.
SendCode(t) ==
    /\ tokens[t] = NoRow
    /\ tokens' = [tokens EXCEPT ![t] = [status |-> "sending", ttl |-> now + TokenLife]]

PasswordlessSignup(u, t) ==
    /\ SignUp(u, "unverified")
    /\ SendCode(t)
    /\ UNCHANGED <<now, call, history>>

PasswordlessLogin(u, t) ==
    /\ account[u] # "none"
    /\ SignIn(u)
    /\ SendCode(t)
    /\ UNCHANGED <<now, call, history>>

\* login of an account that is not verified sends a code and throws; request-token
\* sends one to whoever holds an access token.
RequestToken(u, t) ==
    /\ account[u] = "unverified" \/ u \in signedIn
    /\ SendCode(t)
    /\ UNCHANGED <<now, accountVars, call, history>>

\* login with the right password, and refreshToken, which reads the row again.
Login(u) ==
    /\ account[u] = "verified" \/ u \in signedIn
    /\ SignIn(u)
    /\ UNCHANGED <<now, tokens, call, history>>

\* An account made by a social provider is verified; an older one stays as it is.
SocialAuth(u) ==
    /\ \/ SignUp(u, "verified")
       \/ account[u] # "none" /\ SignIn(u)
    /\ UNCHANGED <<now, tokens, call, history>>

\* verifyUser of admin.service.ts.
VerifyUser(u) ==
    /\ account[u] # "none"
    /\ account' = [account EXCEPT ![u] = "verified"]
    /\ UNCHANGED <<now, signedIn, claims, tokens, call, history>>

-----------------------------------------------------------------------------
(* Tokens on their way *)

\* The insertion saveVerificationToken started.
SaveVerificationToken(t) ==
    /\ tokens[t] # NoRow
    /\ tokens[t].status = "sending"
    /\ tokens' = [tokens EXCEPT ![t].status = "stored"]
    /\ UNCHANGED <<now, accountVars, call, history>>

\* forgotPassword: the row is there before its mail is posted.
ForgotPassword(u, t) ==
    /\ account[u] # "none"
    /\ tokens[t] = NoRow
    /\ tokens' = [tokens EXCEPT ![t] = [status |-> "stored", ttl |-> now + TokenLife]]
    /\ UNCHANGED <<now, accountVars, call, history>>

-----------------------------------------------------------------------------
(* Tokens in use *)

Begin(c, step, u, t) ==
    /\ call[c] = Idle
    /\ call' = [call EXCEPT ![c] = [at |-> step, user |-> u, token |-> t]]

Finish(c) == call' = [call EXCEPT ![c] = Idle]

\* verifyToken, up to its first write: whoever is signed in enters a code, and a row
\* with that code is found.  Nothing asks whether it was sent to her.
VerifyToken(c, u, t) ==
    /\ u \in signedIn
    /\ Usable(t)
    /\ Begin(c, "verify", u, t)
    /\ UNCHANGED <<now, accountVars, tokens, history>>

\* A call changes an account by token t, which may be gone by now.
ActBy(t) == late' = [late EXCEPT ![t] = IF Stored(t) THEN @ ELSE @ + 1]

\* The caller's own account is verified, whoever else has found the row meanwhile.
MarkVerified(c) ==
    /\ call[c].at = "verify"
    /\ account' = [account EXCEPT ![call[c].user] = "verified"]
    /\ ActBy(call[c].token)
    /\ call' = [call EXCEPT ![c].at = "consume"]
    /\ UNCHANGED <<now, signedIn, claims, tokens, honoured>>

\* resetPassword, up to the hashing of the new password.
ResetPassword(c, t) ==
    /\ Usable(t)
    /\ Begin(c, "change", NoUser, t)
    /\ UNCHANGED <<now, accountVars, tokens, history>>

\* Mutant: the write may be repeated, as after a timeout.
ChangeAgain(c) ==
    /\ call[c].at = "change"
    /\ ActBy(call[c].token)
    /\ call' \in {call, [call EXCEPT ![c].at = "consume"]}
    /\ UNCHANGED <<now, accountVars, tokens, honoured>>

\* The write does not look at the token again.
ChangePassword(c) ==
    /\ call[c].at = "change"
    /\ ActBy(call[c].token)
    /\ call' = [call EXCEPT ![c].at = "consume"]
    /\ UNCHANGED <<now, accountVars, tokens, honoured>>

\* Mutant: deleteMany, which does not mind that the row is gone.
DeleteMany(c) ==
    LET t == call[c].token
    IN /\ call[c].at = "consume"
       /\ tokens' = [tokens EXCEPT ![t].status = "gone"]
       /\ honoured' = [honoured EXCEPT ![t] = @ + 1]
       /\ IF t \in CodeRow THEN call' = [call EXCEPT ![c].at = "sign"] ELSE Finish(c)
       /\ UNCHANGED <<now, accountVars, late>>

\* delete throws if another call has deleted the row.  A reset ends here.
ConsumeToken(c) ==
    LET t == call[c].token
    IN /\ call[c].at = "consume"
       /\ Stored(t)
       /\ tokens' = [tokens EXCEPT ![t].status = "gone"]
       /\ honoured' = [honoured EXCEPT ![t] = @ + 1]
       /\ IF t \in CodeRow THEN call' = [call EXCEPT ![c].at = "sign"] ELSE Finish(c)
       /\ UNCHANGED <<now, accountVars, late>>

\* A verification reads the account again and signs an access token.
AnswerVerified(c) ==
    /\ call[c].at = "sign"
    /\ SignIn(call[c].user)
    /\ Finish(c)
    /\ UNCHANGED <<now, tokens, history>>

\* A query throws; what was written stays.
FailCall(c) ==
    /\ call[c] # Idle
    /\ Finish(c)
    /\ UNCHANGED <<now, accountVars, tokens, history>>

\* Also when an insertion that nobody awaits fails: the rejection is unhandled.
Restart ==
    /\ call' = [c \in Call |-> Idle]
    /\ tokens' = [t \in Token |->
                    IF tokens[t] # NoRow /\ tokens[t].status = "sending"
                      THEN [tokens[t] EXCEPT !.status = "gone"]
                      ELSE tokens[t]]
    /\ UNCHANGED <<now, accountVars, history>>

Tick ==
    /\ now < MaxTime
    /\ now' = now + 1
    /\ UNCHANGED <<accountVars, tokens, call, history>>

-----------------------------------------------------------------------------

UserNext(u) ==
    \/ \E t \in CodeRow :
          \/ PasswordlessSignup(u, t)
          \/ PasswordlessLogin(u, t)
          \/ RequestToken(u, t)
    \/ \E t \in ResetRow : ForgotPassword(u, t)
    \/ Login(u)
    \/ SocialAuth(u)
    \/ VerifyUser(u)

CallNext(c) ==
    \/ \E u \in User, t \in CodeRow : VerifyToken(c, u, t)
    \/ MarkVerified(c)
    \/ \E t \in ResetRow : ResetPassword(c, t)
    \/ ChangePassword(c)
    \/ ConsumeToken(c)
    \/ AnswerVerified(c)
    \/ FailCall(c)

Next ==
    \/ \E u \in User : UserNext(u)
    \/ \E t \in CodeRow : SaveVerificationToken(t)
    \/ \E c \in Call : CallNext(c)
    \/ Restart
    \/ Tick

Spec == Init /\ [][Next]_vars

-----------------------------------------------------------------------------
(* Properties *)

\* What a call works with was found.
CallInv ==
    \A c \in Call :
       call[c] # Idle =>
          Stored(call[c].token) \/ Gone(call[c].token)

\* Calls that have found a token usable and are still to change an account by it.
Changing(t) == {c \in Call : call[c].token = t /\ call[c].at \in {"verify", "change"}}

\* At most one call gets past the deletion of a code or a reset token, however many
\* have found it: the check and the deletion are apart, but one deletion finds the row.
HonouredOnce ==
    \A t \in Token : honoured[t] <= IF Gone(t) THEN 1 ELSE 0

\* The inductive form of the next.
ChangesLeft(t) ==
    IF Gone(t)
      THEN late[t] + Cardinality(Changing(t)) <= Cardinality(Call) - 1
      ELSE late[t] = 0

\* A code or reset token that was used to the end verifies a further account, or changes
\* a password again, only by calls that had found it before, and so less often than
\* calls run at a time (auth.service.ts:356-379, 403-424).
LateChangesBounded ==
    \A t \in Token :
       IF Gone(t)
         THEN late[t] <= Cardinality(Call) - 1
         ELSE late[t] = 0

\* A token as OneTimeToken sees it: an insertion that is under way, or was lost, has
\* made none.
phaseOf ==
    [t \in Token |-> IF Stored(t) THEN "live"
                     ELSE IF honoured[t] > 0 THEN "used" ELSE "none"]

O == INSTANCE OneTimeToken WITH phase <- phaseOf, uses <- honoured, acts <- late,
                                MostLate <- Cardinality(Call) - 1

\* Codes and reset tokens are one-time tokens: stored once, used up by one call and by
\* nothing else, and never stored again, through errors, restarts and calls that have
\* found the same row (auth.service.ts:356-394, 403-436).
ImplementsOneTimeToken == O!Spec

\* What a call works with is stored, or was used up by another call.
FoundOrUsed ==
    \A c \in Call :
       call[c] # Idle => Stored(call[c].token) \/ honoured[call[c].token] > 0

\* An access token that says its user is verified is right, whatever she, an admin
\* and her calls do after it was signed.
ClaimsHold == \A u \in claims : u \in signedIn /\ account[u] = "verified"
=============================================================================
