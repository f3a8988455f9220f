------------------------- MODULE AuthTokens_proofs -------------------------
(***************************************************************************)
(* Theorems about AuthTokens, for any number of users, calls and tokens,     *)
(* whichever row an entered code finds, and any life of a token.            *)
(***************************************************************************)
EXTENDS AuthTokens, FiniteSetTheorems, TLAPS

-----------------------------------------------------------------------------
(* Types *)

LEMMA Busy ==
    ASSUME TypeOK, NEW c \in Call, call[c].at # "idle"
    PROVE  /\ call[c] \in CallState
           /\ call[c] # Idle
           /\ call[c].token \in Token
           /\ call[c].at \in {"verify", "sign"} => call[c].user \in User
BY DEF TypeOK, CallState, Idle, Token

\* A call that has changed an account goes on to delete its token.
LEMMA ThenConsumes ==
    ASSUME TypeOK, NEW c \in Call, call[c].at \in {"verify", "change"},
           call' = [call EXCEPT ![c].at = "consume"]
    PROVE  /\ call' \in [Call -> CallState \cup {Idle}]
           /\ call'[c].at = "consume" /\ call'[c].token = call[c].token
<1>1. call[c] \in CallState
  BY Busy
<1>2. [call[c] EXCEPT !.at = "consume"] \in CallState
  BY <1>1 DEF CallState
<1>3. call'[c] = [call[c] EXCEPT !.at = "consume"]
  BY DEF TypeOK
<1>4. call' \in [Call -> CallState \cup {Idle}]
  BY <1>2 DEF TypeOK
<1>5. QED
  BY <1>1, <1>3, <1>4 DEF CallState

LEMMA LateTypes ==
    ASSUME TypeOK, NEW t \in Token, ActBy(t)
    PROVE  late' \in [Token -> Nat]
<1>1. \A d \in Token : late[d] \in Nat /\ late[d] + 1 \in Nat
  BY DEF TypeOK
<1>2. QED
  BY <1>1 DEF ActBy, TypeOK

LEMMA RowIsTokenRow ==
    ASSUME TypeOK, NEW t \in Token, tokens[t] # NoRow
    PROVE  tokens[t] \in TokenRow
BY DEF TypeOK

\* A row stays a row when its status is written.
LEMMA StatusWritten ==
    ASSUME TypeOK, NEW t \in Token, tokens[t] # NoRow, NEW s \in Status
    PROVE  /\ [tokens EXCEPT ![t].status = s] \in [Token -> TokenRow \cup {NoRow}]
           /\ [tokens[t] EXCEPT !.status = s] \in TokenRow
<1>1. [tokens[t] EXCEPT !.status = s] \in TokenRow
  BY RowIsTokenRow DEF TokenRow
<1>2. [tokens EXCEPT ![t].status = s] = [tokens EXCEPT ![t] = [tokens[t] EXCEPT !.status = s]]
  BY DEF TypeOK
<1>3. QED
  BY <1>1, <1>2 DEF TypeOK

LEMMA NewRow ==
    ASSUME TypeOK, NEW s \in Status
    PROVE  [status |-> s, ttl |-> now + TokenLife] \in TokenRow
<1>1. now + TokenLife \in Nat
  BY AuthAssumption DEF TypeOK
<1>2. QED
  BY <1>1 DEF TokenRow

LEMMA SignTypes ==
    ASSUME TypeOK, NEW u \in User, NEW a, Sign(u, a)
    PROVE  signedIn' \subseteq User /\ claims' \subseteq User
BY DEF TypeOK, Sign

LEMMA UserTypes ==
    ASSUME TypeOK, NEW u \in User, UserNext(u)
    PROVE  TypeOK'
<1>1. ASSUME NEW a \in {"unverified", "verified"}, SignUp(u, a)
      PROVE  account' \in [User -> Account] /\ signedIn' \subseteq User /\ claims' \subseteq User
  BY <1>1, SignTypes DEF SignUp, TypeOK, Account
<1>2. ASSUME SignIn(u)
      PROVE  account' \in [User -> Account] /\ signedIn' \subseteq User /\ claims' \subseteq User
  BY <1>2, SignTypes DEF SignIn, TypeOK
<1>3. ASSUME NEW t \in CodeRow, SendCode(t)
      PROVE  tokens' \in [Token -> TokenRow \cup {NoRow}]
  <2>1. [status |-> "sending", ttl |-> now + TokenLife] \in TokenRow
    BY NewRow DEF Status
  <2>2. QED
    BY <1>3, <2>1 DEF SendCode, TypeOK, Token
<1>4. ASSUME NEW t \in CodeRow, PasswordlessSignup(u, t)
      PROVE  TypeOK'
  BY <1>1, <1>3, <1>4 DEF PasswordlessSignup, TypeOK, history
<1>5. ASSUME NEW t \in CodeRow, PasswordlessLogin(u, t)
      PROVE  TypeOK'
  BY <1>2, <1>3, <1>5 DEF PasswordlessLogin, TypeOK, history
<1>6. ASSUME NEW t \in CodeRow, RequestToken(u, t)
      PROVE  TypeOK'
  BY <1>3, <1>6 DEF RequestToken, TypeOK, accountVars, history
<1>7. ASSUME NEW t \in ResetRow, ForgotPassword(u, t)
      PROVE  TypeOK'
  <2>1. [status |-> "stored", ttl |-> now + TokenLife] \in TokenRow
    BY NewRow DEF Status
  <2>2. tokens' \in [Token -> TokenRow \cup {NoRow}]
    BY <1>7, <2>1 DEF ForgotPassword, TypeOK, Token
  <2>3. QED
    BY <1>7, <2>2 DEF ForgotPassword, TypeOK, accountVars, history
<1>8. CASE Login(u)
  BY <1>2, <1>8 DEF Login, TypeOK, history
<1>9. CASE SocialAuth(u)
  BY <1>1, <1>2, <1>9 DEF SocialAuth, TypeOK, history
<1>10. CASE VerifyUser(u)
  BY <1>10 DEF VerifyUser, TypeOK, Account, history
<1>11. QED
  BY <1>4, <1>5, <1>6, <1>7, <1>8, <1>9, <1>10 DEF UserNext

LEMMA CallTypes ==
    ASSUME TypeOK, NEW c \in Call, CallNext(c)
    PROVE  TypeOK'
<1>1. ASSUME NEW u \in User, NEW t \in CodeRow, VerifyToken(c, u, t)
      PROVE  TypeOK'
  BY <1>1 DEF VerifyToken, Begin, TypeOK, CallState, Token, accountVars, history
<1>2. CASE MarkVerified(c)
  <2>1. call' \in [Call -> CallState \cup {Idle}]
    BY <1>2, ThenConsumes DEF MarkVerified
  <2>2. account' \in [User -> Account]
    BY <1>2 DEF MarkVerified, TypeOK, Account
  <2>3. late' \in [Token -> Nat]
    BY <1>2, Busy, LateTypes DEF MarkVerified
  <2>4. QED
    BY <1>2, <2>1, <2>2, <2>3 DEF MarkVerified, TypeOK
<1>3. ASSUME NEW t \in ResetRow, ResetPassword(c, t)
      PROVE  TypeOK'
  BY <1>3 DEF ResetPassword, Begin, TypeOK, CallState, Token, accountVars, history
<1>4. CASE ChangePassword(c)
  <2>1. call' \in [Call -> CallState \cup {Idle}]
    BY <1>4, ThenConsumes DEF ChangePassword
  <2>2. late' \in [Token -> Nat]
    BY <1>4, Busy, LateTypes DEF ChangePassword
  <2>3. QED
    BY <1>4, <2>1, <2>2 DEF ChangePassword, TypeOK, accountVars
<1>5. CASE ConsumeToken(c)
  <2>1. call[c].token \in Token
    BY <1>5, Busy DEF ConsumeToken
  <2>2. tokens' \in [Token -> TokenRow \cup {NoRow}]
    <3>1. tokens[call[c].token] # NoRow
      BY <1>5 DEF ConsumeToken, Stored
    <3>2. [tokens EXCEPT ![call[c].token].status = "gone"] \in [Token -> TokenRow \cup {NoRow}]
      BY <2>1, <3>1, StatusWritten DEF Status
    <3>3. QED
      BY <1>5, <3>2 DEF ConsumeToken
  <2>3. call[c].token \in CodeRow => [call[c] EXCEPT !.at = "sign"] \in CallState
    BY <1>5, Busy, AuthAssumption DEF ConsumeToken, CallState
  <2>4. honoured' \in [Token -> Nat]
    <3>1. \A t \in Token : honoured[t] \in Nat /\ honoured[t] + 1 \in Nat
      BY DEF TypeOK
    <3>2. QED
      BY <1>5, <3>1 DEF ConsumeToken, TypeOK
  <2>5. call' \in [Call -> CallState \cup {Idle}]
    BY <1>5, <2>3 DEF ConsumeToken, Finish, TypeOK
  <2>6. QED
    BY <1>5, <2>2, <2>4, <2>5 DEF ConsumeToken, TypeOK, accountVars
<1>6. CASE AnswerVerified(c)
  <2>1. signedIn' \subseteq User /\ claims' \subseteq User
    BY <1>6, Busy, SignTypes DEF AnswerVerified, SignIn
  <2>2. QED
    BY <1>6, <2>1 DEF AnswerVerified, SignIn, Finish, TypeOK, history
<1>7. CASE FailCall(c)
  BY <1>7 DEF FailCall, Finish, TypeOK, accountVars, history
<1>8. QED
  BY <1>1, <1>2, <1>3, <1>4, <1>5, <1>6, <1>7 DEF CallNext

LEMMA NextTypes ==
    ASSUME TypeOK, [Next]_vars
    PROVE  TypeOK'
<1>1. ASSUME NEW t \in CodeRow, SaveVerificationToken(t)
      PROVE  TypeOK'
  <2>1. tokens' \in [Token -> TokenRow \cup {NoRow}]
    BY <1>1, StatusWritten DEF SaveVerificationToken, Status, Token
  <2>2. QED
    BY <1>1, <2>1 DEF SaveVerificationToken, TypeOK, accountVars, history
<1>3. CASE Restart
  <2>1. ASSUME NEW t \in Token
        PROVE  (IF tokens[t] # NoRow /\ tokens[t].status = "sending"
                  THEN [tokens[t] EXCEPT !.status = "gone"]
                  ELSE tokens[t]) \in TokenRow \cup {NoRow}
    <3>1. tokens[t] # NoRow => [tokens[t] EXCEPT !.status = "gone"] \in TokenRow
      BY StatusWritten DEF Status
    <3>2. QED
      BY <3>1 DEF TypeOK
  <2>2. tokens' \in [Token -> TokenRow \cup {NoRow}]
    BY <1>3, <2>1 DEF Restart
  <2>3. call' \in [Call -> CallState \cup {Idle}]
    BY <1>3 DEF Restart
  <2>4. QED
    BY <1>3, <2>2, <2>3 DEF Restart, TypeOK, accountVars, history
<1>4. CASE Tick
  BY <1>4 DEF Tick, TypeOK, accountVars, history
<1>5. CASE UNCHANGED vars
  BY <1>5 DEF vars, TypeOK
<1>6. QED
  BY <1>1, <1>3, <1>4, <1>5, UserTypes, CallTypes DEF Next

\* Type correctness of accounts, tokens and calls.
THEOREM TypeCorrect == Spec => []TypeOK
<1>1. Init => TypeOK
  BY DEF Init, TypeOK, Account
<1>2. TypeOK /\ [Next]_vars => TypeOK'
  BY NextTypes
<1>3. QED
  BY <1>1, <1>2, PTL DEF Spec

LEMMA AlwaysTypes == Spec => []TypeOK
BY TypeCorrect

-----------------------------------------------------------------------------
(* Access tokens *)

\* No account is lost or ceases to be verified, and a token is signed for an account
\* that is there.
LEMMA SignHolds ==
    ASSUME ClaimsHold, NEW u \in User, NEW a, Sign(u, a),
           \A v \in User : account[v] = "verified" => account'[v] = "verified",
           a = "verified" => account'[u] = "verified", claims \subseteq User
    PROVE  ClaimsHold'
BY DEF ClaimsHold, Sign

LEMMA AccountsOnly ==
    ASSUME TypeOK, ClaimsHold, UNCHANGED <<signedIn, claims>>,
           \A v \in User : account[v] = "verified" => account'[v] = "verified"
    PROVE  ClaimsHold'
BY DEF ClaimsHold, TypeOK

LEMMA NextClaims ==
    ASSUME TypeOK, ClaimsHold, [Next]_vars
    PROVE  ClaimsHold'
<1>0. claims \subseteq User
  BY DEF TypeOK
<1>1. ASSUME UNCHANGED accountVars
      PROVE  ClaimsHold'
  BY <1>1, AccountsOnly DEF accountVars
<1>2. ASSUME NEW u \in User, UserNext(u)
      PROVE  ClaimsHold'
  <2>1. ASSUME SignIn(u)
        PROVE  ClaimsHold'
    BY <1>0, <2>1, SignHolds DEF SignIn
  <2>2. ASSUME NEW a \in {"unverified", "verified"}, SignUp(u, a)
        PROVE  ClaimsHold'
    <3>1. \A v \in User : account[v] = "verified" => account'[v] = "verified"
      BY <2>2 DEF SignUp, TypeOK
    <3>2. account'[u] = a
      BY <2>2 DEF SignUp, TypeOK
    <3>3. QED
      BY <1>0, <2>2, <3>1, <3>2, SignHolds DEF SignUp
  <2>3. CASE VerifyUser(u)
    <3>1. \A v \in User : account[v] = "verified" => account'[v] = "verified"
      BY <2>3 DEF VerifyUser, TypeOK
    <3>2. QED
      BY <2>3, <3>1, AccountsOnly DEF VerifyUser
  <2>4. QED
    BY <1>1, <1>2, <2>1, <2>2, <2>3
       DEF UserNext, PasswordlessSignup, PasswordlessLogin, RequestToken, ForgotPassword,
           Login, SocialAuth
<1>3. ASSUME NEW c \in Call, CallNext(c)
      PROVE  ClaimsHold'
  <2>1. CASE MarkVerified(c)
    <3>1. \A v \in User : account[v] = "verified" => account'[v] = "verified"
      BY <2>1 DEF MarkVerified, TypeOK
    <3>2. QED
      BY <2>1, <3>1, AccountsOnly DEF MarkVerified
  <2>2. CASE AnswerVerified(c)
    BY <1>0, <2>2, Busy, SignHolds DEF AnswerVerified, SignIn
  <2>3. QED
    BY <1>1, <1>3, <2>1, <2>2
       DEF CallNext, VerifyToken, ResetPassword, ChangePassword, ConsumeToken, FailCall
<1>4. ASSUME NEW t \in Token, SaveVerificationToken(t)
      PROVE  ClaimsHold'
  BY <1>1, <1>4 DEF SaveVerificationToken
<1>5. CASE Restart \/ Tick \/ UNCHANGED vars
  BY <1>1, <1>5 DEF Restart, Tick, vars, accountVars
<1>6. QED
  BY <1>2, <1>3, <1>4, <1>5 DEF Next, Token

\* An access token that says its user is verified stays right.
THEOREM ClaimsAreTrue == Spec => []ClaimsHold
<1>1. Init => ClaimsHold
  BY DEF Init, ClaimsHold
<1>2. TypeOK /\ ClaimsHold /\ [Next]_vars => ClaimsHold'
  BY NextClaims
<1>3. QED
  BY AlwaysTypes, <1>1, <1>2, PTL DEF Spec

-----------------------------------------------------------------------------
(* The life of a row *)

\* What a step may make of the row t.
RowMoves(t) ==
    \/ tokens'[t] = tokens[t]
    \/ tokens[t] = NoRow /\ ~Gone(t)'
    \/ ~Stored(t) /\ ~Gone(t) /\ ~Gone(t)'

LEMMA SendMoves ==
    ASSUME TypeOK, NEW u \in User, UserNext(u), NEW t \in Token
    PROVE  /\ RowMoves(t)
           /\ UNCHANGED <<call, history>>
<1>1. ASSUME NEW d \in CodeRow, SendCode(d)
      PROVE  RowMoves(t)
  BY <1>1 DEF SendCode, RowMoves, Gone, TypeOK
<1>2. ASSUME NEW d \in ResetRow, ForgotPassword(u, d)
      PROVE  RowMoves(t)
  BY <1>2 DEF ForgotPassword, RowMoves, Gone, TypeOK
<1>3. QED
  BY <1>1, <1>2 DEF UserNext, PasswordlessSignup, PasswordlessLogin, RequestToken,
       ForgotPassword, Login, SocialAuth, VerifyUser, RowMoves

LEMMA SaveMoves ==
    ASSUME TypeOK, NEW d \in Token, SaveVerificationToken(d), NEW t \in Token
    PROVE  RowMoves(t) /\ UNCHANGED <<call, history>>
<1>1. CASE t = d
  <2>1. tokens'[t] = [tokens[t] EXCEPT !.status = "stored"]
    BY <1>1 DEF SaveVerificationToken, TypeOK
  <2>2. tokens[t] \in TokenRow /\ ~Stored(t) /\ ~Gone(t)
    BY <1>1, RowIsTokenRow DEF SaveVerificationToken, Stored, Gone
  <2>3. tokens'[t].status = "stored"
    BY <2>1, <2>2 DEF TokenRow
  <2>4. QED
    BY <2>2, <2>3 DEF SaveVerificationToken, RowMoves, Gone
<1>2. CASE t # d
  BY <1>2 DEF SaveVerificationToken, RowMoves, TypeOK
<1>3. QED
  BY <1>1, <1>2

\* Only the deletion that ends a call makes a stored row go.
LEMMA Consumed ==
    ASSUME TypeOK, NEW c \in Call, ConsumeToken(c), NEW t \in Token
    PROVE  IF t = call[c].token
             THEN Stored(t) /\ ~Gone(t) /\ Gone(t)' /\ honoured'[t] = honoured[t] + 1
             ELSE tokens'[t] = tokens[t] /\ honoured'[t] = honoured[t]
<1>1. CASE t = call[c].token
  <2>1. Stored(t) /\ ~Gone(t)
    BY <1>1 DEF ConsumeToken, Stored, Gone
  <2>2. tokens'[t] = [tokens[t] EXCEPT !.status = "gone"]
    BY <1>1 DEF ConsumeToken, TypeOK
  <2>3. tokens'[t] \in TokenRow /\ tokens'[t].status = "gone"
    BY <2>1, <2>2, StatusWritten, RowIsTokenRow DEF Stored, Status, TokenRow
  <2>4. Gone(t)'
    BY <2>3, AuthAssumption DEF Gone
  <2>5. honoured'[t] = honoured[t] + 1
    BY <1>1 DEF ConsumeToken, TypeOK
  <2>6. QED
    BY <1>1, <2>1, <2>4, <2>5
<1>2. CASE t # call[c].token
  BY <1>2 DEF ConsumeToken, TypeOK
<1>3. QED
  BY <1>1, <1>2

\* An insertion that is lost in a restart was of a row nobody had found.
LEMMA RestartMoves ==
    ASSUME TypeOK, Restart, NEW t \in Token
    PROVE  \/ tokens'[t] = tokens[t]
           \/ ~Stored(t) /\ ~Gone(t)
BY DEF Restart, Stored, Gone

\* A row that is gone stays gone; one that was found is there or gone.
LEMMA RowStays ==
    ASSUME TypeOK, [Next]_vars, NEW t \in Token
    PROVE  /\ Gone(t) => Gone(t)'
           /\ Stored(t) => Stored(t)' \/ Gone(t)'
<1>1. ASSUME tokens'[t] = tokens[t]
      PROVE  (Gone(t) => Gone(t)') /\ (Stored(t) => Stored(t)')
  BY <1>1 DEF Gone, Stored
<1>2. ASSUME RowMoves(t)
      PROVE  (Gone(t) => Gone(t)') /\ (Stored(t) => Stored(t)')
  BY <1>1, <1>2 DEF RowMoves, Gone, Stored
<1>3. ASSUME NEW u \in User, UserNext(u)
      PROVE  RowMoves(t)
  BY <1>3, SendMoves
<1>4. ASSUME NEW d \in CodeRow, SaveVerificationToken(d)
      PROVE  RowMoves(t)
  BY <1>4, SaveMoves DEF Token
<1>5. ASSUME NEW c \in Call, CallNext(c)
      PROVE  tokens'[t] = tokens[t] \/ (Stored(t) /\ ~Gone(t) /\ Gone(t)')
  BY <1>5, Consumed
     DEF CallNext, VerifyToken, MarkVerified, ResetPassword, ChangePassword, AnswerVerified,
         FailCall
<1>6. ASSUME Restart
      PROVE  tokens'[t] = tokens[t] \/ (~Stored(t) /\ ~Gone(t))
  BY <1>6, RestartMoves
<1>7. ASSUME Tick \/ UNCHANGED vars
      PROVE  tokens'[t] = tokens[t]
  BY <1>7 DEF Tick, vars
<1>8. QED
  BY <1>1, <1>2, <1>3, <1>4, <1>5, <1>6, <1>7 DEF Next

-----------------------------------------------------------------------------
(* One use of a token *)

LEMMA NextHonoured ==
    ASSUME TypeOK, HonouredOnce, [Next]_vars
    PROVE  HonouredOnce'
<1> SUFFICES ASSUME NEW t \in Token
             PROVE  honoured'[t] <= IF Gone(t)' THEN 1 ELSE 0
  BY DEF HonouredOnce
<1>1. honoured[t] \in Nat /\ honoured[t] <= IF Gone(t) THEN 1 ELSE 0
  BY DEF TypeOK, HonouredOnce
<1>2. Gone(t) => Gone(t)'
  BY RowStays
<1>3. ASSUME honoured' = honoured
      PROVE  honoured'[t] <= IF Gone(t)' THEN 1 ELSE 0
  BY <1>1, <1>2, <1>3
<1>4. ASSUME NEW c \in Call, ConsumeToken(c)
      PROVE  honoured'[t] <= IF Gone(t)' THEN 1 ELSE 0
  <2>1. CASE t = call[c].token
    BY <1>1, <1>4, <2>1, Consumed
  <2>2. CASE t # call[c].token
    BY <1>1, <1>2, <1>4, <2>2, Consumed
  <2>3. QED
    BY <2>1, <2>2
<1>5. ASSUME NEW u \in User, UserNext(u)
      PROVE  honoured' = honoured
  BY <1>5, SendMoves DEF history
<1>6. ASSUME NEW c \in Call, CallNext(c), ~ConsumeToken(c)
      PROVE  honoured' = honoured
  BY <1>6 DEF CallNext, VerifyToken, MarkVerified, ResetPassword, ChangePassword, AnswerVerified,
       FailCall, history
<1>7. QED
  BY <1>3, <1>4, <1>5, <1>6
     DEF Next, SaveVerificationToken, Restart, Tick, vars, history

\* At most one call gets past the deletion of a code or a reset token.
THEOREM HonouredAtMostOnce == Spec => []HonouredOnce
<1>1. Init => HonouredOnce
  BY DEF Init, HonouredOnce, Gone
<1>2. TypeOK /\ HonouredOnce /\ [Next]_vars => HonouredOnce'
  BY NextHonoured
<1>3. QED
  BY AlwaysTypes, <1>1, <1>2, PTL DEF Spec

-----------------------------------------------------------------------------
(* What a call works with *)

\* A call works with the token it had before, or with one it has just found stored.
LEMMA CallMoves ==
    ASSUME TypeOK, [Next]_vars, NEW c \in Call, call'[c] # Idle, NEW t, t = call'[c].token
    PROVE  \/ call[c] # Idle /\ call[c].token = t
           \/ t \in Token /\ Stored(t)
<1>1. ASSUME call' = call
      PROVE  call[c] # Idle /\ call[c].token = t
  BY <1>1
<1>2. ASSUME NEW u \in User, UserNext(u)
      PROVE  call' = call
  BY <1>2, SendMoves DEF UserNext, PasswordlessSignup, PasswordlessLogin, RequestToken,
       ForgotPassword, Login, SocialAuth, VerifyUser
<1>3. ASSUME NEW d \in Call, d # c, CallNext(d)
      PROVE  call'[c] = call[c]
  BY <1>3 DEF CallNext, VerifyToken, MarkVerified, ResetPassword, ChangePassword, ConsumeToken,
       AnswerVerified, FailCall, Begin, Finish, TypeOK
<1>4. ASSUME CallNext(c)
      PROVE  \/ call[c] # Idle /\ call[c].token = t
             \/ t \in Token /\ Stored(t)
  <2>1. ASSUME NEW u \in User, NEW d \in CodeRow, VerifyToken(c, u, d)
        PROVE  t \in Token /\ Stored(t)
    BY <2>1 DEF VerifyToken, Begin, Usable, Token, TypeOK
  <2>2. ASSUME NEW d \in ResetRow, ResetPassword(c, d)
        PROVE  t \in Token /\ Stored(t)
    BY <2>2 DEF ResetPassword, Begin, Usable, Token, TypeOK
  <2>3. CASE MarkVerified(c)
    BY <2>3, Busy DEF MarkVerified, CallState, TypeOK
  <2>4. CASE ChangePassword(c)
    BY <2>4, Busy DEF ChangePassword, CallState, TypeOK
  <2>5. CASE ConsumeToken(c)
    BY <2>5, Busy DEF ConsumeToken, Finish, CallState, TypeOK
  <2>6. CASE AnswerVerified(c) \/ FailCall(c)
    BY <2>6 DEF AnswerVerified, FailCall, Finish, TypeOK
  <2>7. QED
    BY <1>4, <2>1, <2>2, <2>3, <2>4, <2>5, <2>6 DEF CallNext
<1>5. CASE Restart
  BY <1>5 DEF Restart
<1>6. QED
  BY <1>1, <1>2, <1>3, <1>4, <1>5 DEF Next, SaveVerificationToken, Tick, vars, history

\* What was found is stored or gone: a row that is gone stays gone.
LEMMA NextCallInv ==
    ASSUME TypeOK, CallInv, [Next]_vars
    PROVE  CallInv'
<1> SUFFICES ASSUME NEW c \in Call, call'[c] # Idle, NEW t, t = call'[c].token
             PROVE  Stored(t)' \/ Gone(t)'
  BY DEF CallInv, Stored, Gone
<1>1. t \in Token /\ (Stored(t) \/ Gone(t))
  <2>1. CASE call[c] # Idle /\ call[c].token = t
    BY <2>1 DEF CallInv, TypeOK, CallState, Token
  <2>2. QED
    BY <2>1, CallMoves
<1>2. QED
  BY <1>1, RowStays

-----------------------------------------------------------------------------
(* Changes of accounts after the end *)

LEMMA CallsCounted ==
    ASSUME NEW S, S \subseteq Call
    PROVE  /\ IsFiniteSet(S)
           /\ Cardinality(S) \in Nat
           /\ Cardinality(Call) \in Nat \ {0}
           /\ S # Call => Cardinality(S) <= Cardinality(Call) - 1
<1>1. /\ IsFiniteSet(S) /\ Cardinality(S) <= Cardinality(Call)
      /\ Cardinality(S) = Cardinality(Call) => S = Call
  BY FS_Subset, AuthAssumption
<1>2. Cardinality(S) \in Nat /\ Cardinality(Call) \in Nat
  BY <1>1, FS_CardinalityType, AuthAssumption
<1>3. Cardinality(Call) # 0
  BY FS_EmptySet, AuthAssumption
<1>4. QED
  BY <1>1, <1>2, <1>3

\* Fewer calls that are to change an account by the token keep the bound.
LEMMA FewerChanging ==
    ASSUME TypeOK, NEW t \in Token, ChangesLeft(t), late'[t] = late[t],
           tokens'[t] = tokens[t], Changing(t)' \subseteq Changing(t)
    PROVE  ChangesLeft(t)'
<1>1. Gone(t)' <=> Gone(t)
  BY DEF Gone
<1>2. /\ IsFiniteSet(Changing(t)) /\ Cardinality(Changing(t)) \in Nat
      /\ Cardinality(Changing(t)') \in Nat /\ Cardinality(Call) \in Nat
  <2>1. Changing(t) \subseteq Call /\ Changing(t)' \subseteq Call
    BY DEF Changing
  <2>2. QED
    BY <2>1, CallsCounted
<1>3. Cardinality(Changing(t)') <= Cardinality(Changing(t))
  BY <1>2, FS_Subset
<1>4. late[t] \in Nat
  BY DEF TypeOK
<1>5. QED
  BY <1>1, <1>2, <1>3, <1>4 DEF ChangesLeft

\* A row that is not gone yet leaves the bound trivial.
LEMMA NotGoneYet ==
    ASSUME NEW t \in Token, ChangesLeft(t), ~Gone(t), ~Gone(t)', late'[t] = late[t]
    PROVE  ChangesLeft(t)'
BY DEF ChangesLeft

LEMMA RowMovesLeft ==
    ASSUME TypeOK, NEW t \in Token, ChangesLeft(t), RowMoves(t), UNCHANGED <<call, history>>
    PROVE  ChangesLeft(t)'
<1>1. CASE tokens'[t] = tokens[t]
  BY <1>1, FewerChanging DEF history, Changing
<1>2. CASE tokens'[t] # tokens[t]
  BY <1>2, NotGoneYet DEF RowMoves, Gone, history
<1>3. QED
  BY <1>1, <1>2

LEMMA CallLeft ==
    ASSUME TypeOK, CallInv, NEW t \in Token, ChangesLeft(t), NEW c \in Call, CallNext(c)
    PROVE  ChangesLeft(t)'
<1> DEFINE N == Cardinality(Call)
<1>1. late[t] \in Nat
  BY DEF TypeOK
<1>2. /\ Changing(t) \subseteq Call /\ Changing(t)' \subseteq Call
      /\ Changing(t)' \ {c} = Changing(t) \ {c}
  <2>1. \A d \in Call \ {c} : call'[d] = call[d]
    BY DEF CallNext, VerifyToken, MarkVerified, ResetPassword, ChangePassword, ConsumeToken,
         AnswerVerified, FailCall, Begin, Finish, TypeOK
  <2>2. QED
    BY <2>1 DEF Changing
<1>3. /\ IsFiniteSet(Changing(t)) /\ Cardinality(Changing(t)) \in Nat
      /\ Cardinality(Changing(t)') \in Nat /\ N \in Nat \ {0}
  BY <1>2, CallsCounted
<1>4. ASSUME c \notin Changing(t)', late' = late, tokens' = tokens
      PROVE  ChangesLeft(t)'
  BY <1>2, <1>4, FewerChanging
<1>5. ASSUME NEW d \in Token, Usable(d), NEW u, NEW a, Begin(c, a, u, d),
             UNCHANGED <<tokens, history>>
      PROVE  ChangesLeft(t)'
  <2>1. CASE t = d
    <3>1. ~Gone(t) /\ ~Gone(t)'
      BY <1>5, <2>1 DEF Usable, Stored, Gone
    <3>2. QED
      BY <1>5, <3>1, NotGoneYet DEF history
  <2>2. CASE t # d
    <3>1. call'[c].token = d
      BY <1>5 DEF Begin, TypeOK
    <3>2. QED
      BY <1>4, <1>5, <2>2, <3>1 DEF Changing, history
  <2>3. QED
    BY <2>1, <2>2
<1>6. ASSUME NEW u \in User, NEW d \in CodeRow, VerifyToken(c, u, d)
      PROVE  ChangesLeft(t)'
  BY <1>5, <1>6 DEF VerifyToken, Token
<1>7. ASSUME NEW d \in ResetRow, ResetPassword(c, d)
      PROVE  ChangesLeft(t)'
  BY <1>5, <1>7 DEF ResetPassword, Token
<1>8. CASE MarkVerified(c) \/ ChangePassword(c)
  <2>0. /\ call[c].at \in {"verify", "change"}
        /\ call' = [call EXCEPT ![c].at = "consume"]
        /\ ActBy(call[c].token)
        /\ tokens' = tokens
    BY <1>8 DEF MarkVerified, ChangePassword
  <2>1. call[c] # Idle /\ call[c].token \in Token /\ call'[c].at = "consume"
    BY <2>0, Busy, ThenConsumes
  <2>2. c \notin Changing(t)' /\ Changing(t)' = Changing(t) \ {c}
    BY <1>2, <2>1 DEF Changing
  <2>3. CASE t # call[c].token \/ Stored(t)
    <3>1. late'[t] = late[t]
      BY <2>0, <2>1, <2>3 DEF ActBy, TypeOK
    <3>2. QED
      BY <2>0, <2>2, <3>1, FewerChanging
  <2>4. CASE t = call[c].token /\ ~Stored(t)
    <3>1. Gone(t) /\ Gone(t)'
      BY <2>0, <2>1, <2>4 DEF CallInv, Gone
    <3>2. late'[t] = late[t] + 1
      BY <2>0, <2>1, <2>4 DEF ActBy, TypeOK
    <3>3. c \in Changing(t)
      BY <2>0, <2>4 DEF Changing
    <3>4. Cardinality(Changing(t)') = Cardinality(Changing(t)) - 1
      BY <1>3, <2>2, <3>3, FS_RemoveElement
    <3>5. QED
      BY <1>1, <1>3, <3>1, <3>2, <3>4 DEF ChangesLeft
  <2>5. QED
    BY <2>3, <2>4
<1>9. CASE ConsumeToken(c)
  <2>1. call'[c].at \notin {"verify", "change"}
    BY <1>9, Busy DEF ConsumeToken, Finish, Idle, CallState, TypeOK
  <2>2. c \notin Changing(t)'
    BY <2>1 DEF Changing
  <2>3. late' = late
    BY <1>9 DEF ConsumeToken
  <2>4. CASE t = call[c].token
    <3>1. ~Gone(t) /\ Gone(t)'
      BY <1>9, <2>4, Consumed
    <3>2. late'[t] = 0
      BY <2>3, <3>1 DEF ChangesLeft
    <3>3. Cardinality(Changing(t)') <= N - 1
      BY <1>2, <2>2, CallsCounted
    <3>4. QED
      BY <1>3, <3>1, <3>2, <3>3 DEF ChangesLeft
  <2>5. CASE t # call[c].token
    <3>1. tokens'[t] = tokens[t]
      BY <1>9, <2>5, Consumed
    <3>2. QED
      BY <1>2, <2>2, <2>3, <3>1, FewerChanging
  <2>6. QED
    BY <2>4, <2>5
<1>10. CASE AnswerVerified(c) \/ FailCall(c)
  <2>1. call'[c] = Idle
    BY <1>10 DEF AnswerVerified, FailCall, Finish, TypeOK
  <2>2. QED
    BY <1>4, <1>10, <2>1 DEF AnswerVerified, FailCall, Changing, Idle, history
<1>11. QED
  BY <1>6, <1>7, <1>8, <1>9, <1>10 DEF CallNext

LEMMA RestartLeft ==
    ASSUME TypeOK, NEW t \in Token, ChangesLeft(t), Restart
    PROVE  ChangesLeft(t)'
<1>1. Changing(t)' = {} /\ late' = late
  BY DEF Restart, Changing, Idle, history
<1>2. Cardinality(Changing(t)') = 0
  BY <1>1, FS_EmptySet
<1>3. /\ late[t] \in Nat /\ Cardinality(Changing(t)) \in Nat
      /\ Cardinality(Call) \in Nat \ {0}
  <2>1. Changing(t) \subseteq Call
    BY DEF Changing
  <2>2. QED
    BY <2>1, CallsCounted DEF TypeOK
<1>4. QED
  BY <1>1, <1>2, <1>3, RestartMoves DEF ChangesLeft, Gone

AllChangesLeft == \A t \in Token : ChangesLeft(t)

LEMMA NextChangesLeft ==
    ASSUME TypeOK, CallInv, AllChangesLeft, [Next]_vars
    PROVE  AllChangesLeft'
<1> SUFFICES ASSUME NEW t \in Token
             PROVE  ChangesLeft(t)'
  BY DEF AllChangesLeft
<1>0. ChangesLeft(t)
  BY DEF AllChangesLeft
<1>1. ASSUME NEW u \in User, UserNext(u)
      PROVE  ChangesLeft(t)'
  BY <1>0, <1>1, SendMoves, RowMovesLeft
<1>2. ASSUME NEW d \in CodeRow, SaveVerificationToken(d)
      PROVE  ChangesLeft(t)'
  BY <1>0, <1>2, SaveMoves, RowMovesLeft DEF Token
<1>3. ASSUME Tick \/ UNCHANGED vars
      PROVE  ChangesLeft(t)'
  BY <1>0, <1>3, RowMovesLeft DEF Tick, vars, RowMoves, history
<1>4. QED
  BY <1>0, <1>1, <1>2, <1>3, CallLeft, RestartLeft DEF Next

LEMMA AlwaysLeft == Spec => [](CallInv /\ AllChangesLeft)
<1>1. Init => CallInv /\ AllChangesLeft
  BY DEF Init, CallInv, AllChangesLeft, ChangesLeft, Gone
<1>2. TypeOK /\ (CallInv /\ AllChangesLeft) /\ [Next]_vars => (CallInv /\ AllChangesLeft)'
  BY NextCallInv, NextChangesLeft
<1>3. QED
  BY AlwaysTypes, <1>1, <1>2, PTL DEF Spec

\* After a code or reset token was used to the end, it verifies an account or changes a
\* password fewer times than there are calls at a time: never, when there is one.
THEOREM LateChanges == Spec => []LateChangesBounded
<1>1. TypeOK /\ CallInv /\ AllChangesLeft => LateChangesBounded
  <2> SUFFICES ASSUME TypeOK, AllChangesLeft, NEW t \in Token
               PROVE  IF Gone(t) THEN late[t] <= Cardinality(Call) - 1 ELSE late[t] = 0
    BY DEF LateChangesBounded
  <2>1. late[t] \in Nat /\ Changing(t) \subseteq Call
    BY DEF TypeOK, Changing
  <2>2. Cardinality(Changing(t)) \in Nat /\ Cardinality(Call) \in Nat
    BY <2>1, CallsCounted
  <2>3. QED
    BY <2>1, <2>2 DEF AllChangesLeft, ChangesLeft
<1>2. QED
  BY AlwaysTypes, AlwaysLeft, <1>1, PTL

-----------------------------------------------------------------------------
(* The abstract one-time token *)

\* What the abstract token sees of a row, before and after a step.
Phase(t) == IF Stored(t) THEN "live" ELSE IF honoured[t] > 0 THEN "used" ELSE "none"

LEMMA PhaseValue ==
    /\ phaseOf \in [Token -> {"none", "live", "used"}]
    /\ phaseOf' \in [Token -> {"none", "live", "used"}]
    /\ \A t \in Token : phaseOf[t] = Phase(t) /\ phaseOf'[t] = Phase(t)'
BY DEF phaseOf, Phase

\* A stored row stays stored until it is used up, and a token that was used up stays so.
LEMMA StoredEnds ==
    ASSUME TypeOK, [Next]_vars, NEW t \in Token
    PROVE  /\ Stored(t) => Stored(t)' \/ honoured'[t] > 0
           /\ honoured[t] > 0 => honoured'[t] > 0
<1>1. honoured[t] \in Nat
  BY DEF TypeOK
<1>2. ASSUME NEW c \in Call, ConsumeToken(c)
      PROVE  /\ Stored(t) => Stored(t)' \/ honoured'[t] > 0
             /\ honoured[t] > 0 => honoured'[t] > 0
  BY <1>1, <1>2, Consumed DEF Stored
<1>3. ASSUME RowMoves(t), honoured' = honoured
      PROVE  /\ Stored(t) => Stored(t)' \/ honoured'[t] > 0
             /\ honoured[t] > 0 => honoured'[t] > 0
  BY <1>3 DEF RowMoves, Stored
<1>4. ASSUME NEW c \in Call, CallNext(c), ~ConsumeToken(c)
      PROVE  UNCHANGED <<tokens, honoured>>
  BY <1>4 DEF CallNext, VerifyToken, MarkVerified, ResetPassword, ChangePassword,
       AnswerVerified, FailCall, history
<1>5. CASE Restart
  BY <1>5, RestartMoves DEF Restart, Stored, history
<1>6. CASE Tick \/ UNCHANGED vars
  BY <1>3, <1>6 DEF Tick, vars, history, RowMoves
<1>7. ASSUME NEW u \in User, UserNext(u)
      PROVE  RowMoves(t) /\ honoured' = honoured
  BY <1>7, SendMoves DEF history
<1>8. ASSUME NEW d \in CodeRow, SaveVerificationToken(d)
      PROVE  RowMoves(t) /\ honoured' = honoured
  BY <1>8, SaveMoves DEF history, Token
<1>9. ASSUME UNCHANGED <<tokens, honoured>>
      PROVE  RowMoves(t) /\ honoured' = honoured
  BY <1>9 DEF RowMoves
<1>10. QED
  BY <1>2, <1>3, <1>4, <1>5, <1>6, <1>7, <1>8, <1>9 DEF Next

LEMMA NextFound ==
    ASSUME TypeOK, FoundOrUsed, [Next]_vars
    PROVE  FoundOrUsed'
<1> SUFFICES ASSUME NEW c \in Call, call'[c] # Idle, NEW t, t = call'[c].token
             PROVE  Stored(t)' \/ honoured'[t] > 0
  BY DEF FoundOrUsed, Stored
<1>1. t \in Token /\ (Stored(t) \/ honoured[t] > 0)
  <2>1. CASE call[c] # Idle /\ call[c].token = t
    BY <2>1 DEF FoundOrUsed, TypeOK, CallState, Token
  <2>2. QED
    BY <2>1, CallMoves
<1>2. QED
  BY <1>1, StoredEnds

Used == TypeOK /\ HonouredOnce /\ LateChangesBounded /\ FoundOrUsed

LEMMA AlwaysUsed == Spec => []Used
<1>1. Init => FoundOrUsed
  BY DEF Init, FoundOrUsed
<1>2. TypeOK /\ FoundOrUsed /\ [Next]_vars => FoundOrUsed'
  BY NextFound
<1>3. TypeOK /\ HonouredOnce /\ LateChangesBounded /\ FoundOrUsed => Used
  BY DEF Used
<1>4. QED
  BY AlwaysTypes, HonouredAtMostOnce, LateChanges, <1>1, <1>2, <1>3, PTL DEF Spec

\* A row that is written becomes usable, and is not one that was used up.
LEMMA Issues ==
    ASSUME TypeOK, HonouredOnce, NEW t \in Token,
           \/ SaveVerificationToken(t)
           \/ \E u \in User : t \in ResetRow /\ ForgotPassword(u, t)
    PROVE  O!Issue(t)
<1>1. honoured[t] \in Nat /\ ~Gone(t) /\ ~Stored(t)
  BY DEF TypeOK, SaveVerificationToken, ForgotPassword, Gone, Stored
<1>2. ~(honoured[t] > 0)
  BY <1>1 DEF HonouredOnce
<1>3. UNCHANGED history /\ \A d \in Token \ {t} : tokens'[d] = tokens[d]
  BY DEF SaveVerificationToken, ForgotPassword, TypeOK
<1>4. Stored(t)'
  <2>1. CASE SaveVerificationToken(t)
    <3>1. tokens'[t] = [tokens[t] EXCEPT !.status = "stored"] /\ tokens[t] # NoRow
      BY <2>1 DEF SaveVerificationToken, TypeOK
    <3>2. tokens'[t] \in TokenRow /\ tokens'[t].status = "stored"
      BY <3>1, StatusWritten, RowIsTokenRow DEF Status, TokenRow
    <3>3. QED
      BY <3>2, AuthAssumption DEF Stored
  <2>2. ASSUME NEW u \in User, ForgotPassword(u, t)
        PROVE  Stored(t)'
    <3>1. tokens'[t] = [status |-> "stored", ttl |-> now + TokenLife]
      BY <2>2 DEF ForgotPassword, TypeOK
    <3>2. tokens'[t] \in TokenRow
      BY <3>1, NewRow DEF Status
    <3>3. QED
      BY <3>1, <3>2, AuthAssumption DEF Stored
  <2>3. QED
    BY <2>1, <2>2
<1>5. Phase(t) = "none" /\ Phase(t)' = "live"
  BY <1>1, <1>2, <1>4 DEF Phase
<1>6. ASSUME NEW d \in Token, d # t
      PROVE  Phase(d)' = Phase(d)
  BY <1>3, <1>6 DEF Phase, Stored, history
<1>7. phaseOf' = [phaseOf EXCEPT ![t] = "live"]
  BY <1>5, <1>6, PhaseValue
<1>8. QED
  BY <1>3, <1>5, <1>7, PhaseValue DEF O!Issue, O!Move, history

\* The deletion that ends a call uses its token up.
LEMMA Uses ==
    ASSUME TypeOK, HonouredOnce, NEW c \in Call, ConsumeToken(c),
           NEW t \in Token, t = call[c].token
    PROVE  O!Use(t)
<1>1. Stored(t) /\ Gone(t)' /\ honoured'[t] = honoured[t] + 1 /\ honoured[t] \in Nat
  BY Consumed DEF TypeOK
<1>2. Phase(t) = "live" /\ Phase(t)' = "used"
  <2>1. ~Stored(t)'
    BY <1>1 DEF Stored, Gone
  <2>2. honoured'[t] > 0
    BY <1>1
  <2>3. QED
    BY <1>1, <2>1, <2>2 DEF Phase
<1>3. ASSUME NEW d \in Token, d # t
      PROVE  Phase(d)' = Phase(d)
  <2>1. tokens'[d] = tokens[d] /\ honoured'[d] = honoured[d]
    BY <1>3, Consumed
  <2>2. QED
    BY <2>1 DEF Phase, Stored
<1>4. phaseOf' = [phaseOf EXCEPT ![t] = "used"]
  BY <1>2, <1>3, PhaseValue
<1>5. honoured' = [honoured EXCEPT ![t] = @ + 1] /\ late' = late
  BY DEF ConsumeToken
<1>6. QED
  BY <1>2, <1>4, <1>5, PhaseValue DEF O!Use, O!Move

\* An account that is changed by a token that is not stored any more is a late act.
LEMMA ActsLate ==
    ASSUME Used, LateChangesBounded', NEW c \in Call, call[c].at # "idle",
           ActBy(call[c].token), UNCHANGED <<tokens, honoured>>
    PROVE  O!ActLate(call[c].token) \/ late' = late
<1> DEFINE t == call[c].token
<1>1. t \in Token /\ call[c] # Idle /\ late[t] \in Nat
  BY Busy DEF Used, TypeOK
<1>2. CASE Stored(t)
  <2>1. late' = [late EXCEPT ![t] = late[t]]
    BY <1>2 DEF ActBy
  <2>2. QED
    BY <2>1 DEF Used, TypeOK
<1>3. CASE ~Stored(t)
  <2>1. late' = [late EXCEPT ![t] = @ + 1]
    BY <1>3 DEF ActBy
  <2>2. honoured[t] > 0
    BY <1>1, <1>3 DEF Used, FoundOrUsed
  <2>3. phaseOf[t] = "used" /\ phaseOf' = phaseOf
    BY <1>1, <1>3, <2>1, <2>2 DEF phaseOf, Stored
  <2>4. late'[t] = late[t] + 1
    BY <1>1, <2>1 DEF Used, TypeOK
  <2>5. Cardinality(Call) \in Nat \ {0}
    BY CallsCounted
  <2>6. late'[t] <= Cardinality(Call) - 1
    BY <1>1, <2>4, <2>5 DEF LateChangesBounded
  <2>7. late[t] < Cardinality(Call) - 1
    BY <1>1, <2>4, <2>5, <2>6
  <2>8. QED
    BY <2>1, <2>3, <2>7 DEF O!ActLate
<1>4. QED
  BY <1>2, <1>3

\* Any other step leaves what the abstract token sees as it is.
LEMMA TokenStep ==
    ASSUME Used, Used', [Next]_vars
    PROVE  [O!Next]_(O!tokenVars)
<1> USE DEF Used
<1>1. ASSUME \A t \in Token : Phase(t)' = Phase(t), UNCHANGED history
      PROVE  UNCHANGED O!tokenVars
  BY <1>1, PhaseValue DEF O!tokenVars, history
<1>2. ASSUME UNCHANGED <<tokens, history>>
      PROVE  UNCHANGED O!tokenVars
  BY <1>1, <1>2 DEF Phase, Stored, history
<1>3. ASSUME NEW d \in CodeRow, SendCode(d), UNCHANGED history
      PROVE  UNCHANGED O!tokenVars
  <2>1. ASSUME NEW t \in Token
        PROVE  Stored(t)' <=> Stored(t)
    BY <1>3, <2>1 DEF SendCode, Stored, TypeOK
  <2>2. QED
    BY <1>1, <1>3, <2>1 DEF Phase, history
<1>4. ASSUME NEW u \in User, UserNext(u)
      PROVE  [O!Next]_(O!tokenVars)
  <2>1. CASE \E t \in ResetRow : ForgotPassword(u, t)
    BY <2>1, Issues DEF O!Next, Token
  <2>2. QED
    BY <1>2, <1>3, <1>4, <2>1
       DEF UserNext, PasswordlessSignup, PasswordlessLogin, RequestToken, Login,
           SocialAuth, VerifyUser
<1>5. ASSUME NEW c \in Call, CallNext(c)
      PROVE  [O!Next]_(O!tokenVars)
  <2>1. CASE ConsumeToken(c)
    <3>1. call[c].token \in Token
      BY <2>1, Busy DEF ConsumeToken
    <3>2. QED
      BY <2>1, <3>1, Uses DEF O!Next
  <2>2. CASE MarkVerified(c) \/ ChangePassword(c)
    <3>0. /\ call[c].at # "idle" /\ ActBy(call[c].token)
          /\ UNCHANGED <<tokens, honoured>>
      BY <2>2 DEF MarkVerified, ChangePassword
    <3>1. call[c].token \in Token
      BY <3>0, Busy
    <3>2. CASE late' = late
      BY <1>2, <3>0, <3>2 DEF history
    <3>3. QED
      BY <3>0, <3>1, <3>2, ActsLate DEF O!Next
  <2>3. QED
    BY <1>2, <1>5, <2>1, <2>2
       DEF CallNext, VerifyToken, ResetPassword, AnswerVerified, FailCall
<1>6. CASE Restart
  <2>1. ASSUME NEW t \in Token
        PROVE  Stored(t)' <=> Stored(t)
    <3>1. CASE tokens[t] # NoRow /\ tokens[t].status = "sending"
      <4>1. tokens'[t] = [tokens[t] EXCEPT !.status = "gone"]
        BY <1>6, <3>1 DEF Restart
      <4>2. tokens'[t].status = "gone"
        BY <3>1, <4>1, RowIsTokenRow DEF TokenRow
      <4>3. QED
        BY <3>1, <4>2 DEF Stored
    <3>2. CASE ~(tokens[t] # NoRow /\ tokens[t].status = "sending")
      BY <1>6, <3>2 DEF Restart, Stored
    <3>3. QED
      BY <3>1, <3>2
  <2>2. QED
    BY <1>1, <1>6, <2>1 DEF Restart, Phase, history
<1>7. ASSUME NEW t \in CodeRow, SaveVerificationToken(t)
      PROVE  [O!Next]_(O!tokenVars)
  BY <1>7, Issues DEF O!Next, Token
<1>8. CASE Tick \/ UNCHANGED vars
  BY <1>2, <1>8 DEF Tick, vars, history
<1>9. QED
  BY <1>4, <1>5, <1>6, <1>7, <1>8 DEF Next

\* The rows of both tables and the calls that race for them implement one-time
\* tokens, for any number of calls: a code or reset token is used up by one call and
\* by nothing else, and what is done by it later is bounded by the calls.
THEOREM Refinement == Spec => ImplementsOneTimeToken
<1>1. Init => O!Init
  BY DEF Init, O!Init, phaseOf, Stored
<1>2. Used /\ Used' /\ [Next]_vars => [O!Next]_(O!tokenVars)
  BY TokenStep
<1>3. QED
  BY <1>1, <1>2, AlwaysUsed, PTL DEF Spec, ImplementsOneTimeToken, O!Spec

\* What the abstract token promises the code keeps: every token is used exactly once
\* when it is used up and not before, and what is done by it late is bounded.
COROLLARY EveryTokenUsedOnce == Spec => []O!UsedOnce
<1>1. Cardinality(Call) - 1 \in Nat
  BY CallsCounted
<1>2. O!Spec => [](O!TypeOK /\ O!UsedOnce)
  BY <1>1, O!OneUse
<1>3. QED
  BY <1>2, Refinement, PTL DEF ImplementsOneTimeToken
=============================================================================
