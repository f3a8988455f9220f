---------------------------- MODULE RequestLimits ----------------------------
(***************************************************************************)
(* The monthly request limits: the rows of request_limits, the creation of  *)
(* requests that checks and counts against them (request.service.ts), the   *)
(* endpoints of request-limit.service.ts and the row onboarding creates.    *)
(* Calls run concurrently; an action ends where the code awaits a query.    *)
(*                                                                          *)
(* A date is a number of time units, MonthLength units to a month.          *)
(***************************************************************************)
EXTENDS Integers, FiniteSets

CONSTANTS
    User,             \* everyone with an account, and so possibly a limits row
    Celebrity,        \* users one can order from
    Call,             \* concurrent calls of the API
    MonthLength,
    DefaultLimit,     \* monthlyLimit of a row made on first read; 10 in the code
    OnboardingLimit,  \* monthlyLimit of a row made by onboarding; 20 in the code
    LimitValues,      \* what a user may set; 1..1000 in the code
    MaxTime,          \* bound on the clock
    MaxRequests,      \* bound on the requests of a period
    NoUser,
    NoRow

Limits == [monthlyLimit : Nat \ {0}, currentMonthCount : Nat,
           resetDate : Nat, isActive : BOOLEAN]

ASSUME LimitsAssumption ==
    /\ Celebrity \subseteq User
    /\ Call # {} /\ IsFiniteSet(Call)
    /\ MonthLength \in Nat \ {0}
    /\ DefaultLimit \in Nat \ {0}
    /\ OnboardingLimit \in Nat \ {0}
    /\ LimitValues \subseteq Nat \ {0}
    /\ NoUser \notin User
    /\ NoRow \notin Limits

VARIABLES
    now,       \* the date
    limits,    \* rows of request_limits by user
    call,      \* what each call has read and is about to do
    highest,   \* history: the highest limit a user's row ever had
    made,      \* history: requests a user made since her row was last reset
    received   \* history: requests a celebrity got since her row was last reset

vars == <<now, limits, call, highest, made, received>>
history == <<highest, made, received>>

CreateStep == {"validate", "reset", "record", "increment"}
LimitStep == {"check", "insert", "refresh", "write"}

\* row is the row as it was read; next is the row about to be written.
Idle == [at |-> "idle", user |-> NoUser, row |-> NoRow, next |-> NoRow]

CallState == [at : CreateStep \cup LimitStep, user : User,
              row : Limits \cup {NoRow}, next : Limits \cup {NoRow}]

TypeOK ==
    /\ now \in Nat
    /\ limits \in [User -> Limits \cup {NoRow}]
    /\ call \in [Call -> CallState \cup {Idle}]
    /\ highest \in [User -> Nat]
    /\ made \in [User -> Nat]
    /\ received \in [Celebrity -> Nat]

Init ==
    /\ now = 0
    /\ limits = [u \in User |-> NoRow]
    /\ call = [c \in Call |-> Idle]
    /\ highest = [u \in User |-> 0]
    /\ made = [u \in User |-> 0]
    /\ received = [s \in Celebrity |-> 0]

-----------------------------------------------------------------------------

\* getNextResetDate: the first of the next month.
NextResetDate(date) == (date \div MonthLength + 1) * MonthLength

\* Mutant: the limit is stored as the last count that is still below it.
FreshRowBelow(limit, active, date) ==
    [monthlyLimit |-> limit - 1, currentMonthCount |-> 0, resetDate |-> date,
     isActive |-> active]

FreshRow(limit, active, date) ==
    [monthlyLimit |-> limit, currentMonthCount |-> 0, resetDate |-> date,
     isActive |-> active]

\* Only an active row limits its user and counts her requests.
Enforced(row) == row # NoRow /\ row.isActive

Expired(row) == now >= row.resetDate

Goto(c, step) == call' = [call EXCEPT ![c].at = step]

GotoWith(c, step, row) ==
    call' = [call EXCEPT ![c].at = step, ![c].next = row]

Finish(c) == call' = [call EXCEPT ![c] = Idle]

Higher(u, limit) ==
    highest' = [highest EXCEPT ![u] = IF limit > @ THEN limit ELSE @]

NewPeriod(u) ==
    /\ made' = [made EXCEPT ![u] = 0]
    /\ received' = [s \in Celebrity |-> IF s = u THEN 0 ELSE received[s]]

\* userId is unique: the insertion is made only if there is no row yet.
InsertRow(u, row) ==
    /\ limits[u] = NoRow
    /\ limits' = [limits EXCEPT ![u] = row]
    /\ Higher(u, row.monthlyLimit)
    /\ NewPeriod(u)

\* The update that both resets make: of the row as it is now, with the date
\* computed when the call found the row expired.
ResetRow(c) ==
    LET u == call[c].user
    IN /\ limits' = [limits EXCEPT ![u].currentMonthCount = 0,
                                   ![u].resetDate = call[c].next.resetDate]
       /\ NewPeriod(u)
       /\ UNCHANGED <<now, highest>>

ReadRow(c, u, step) ==
    /\ call[c] = Idle
    /\ call' = [call EXCEPT ![c] = [at |-> step, user |-> u,
                                    row |-> limits[u], next |-> NoRow]]

-----------------------------------------------------------------------------
(* Creating a request *)

\* fetchRequestDependencies: the row of the user who orders.
FetchRequestDependencies(c, u) ==
    /\ made[u] < MaxRequests
    /\ ReadRow(c, u, "validate")
    /\ UNCHANGED <<now, limits, history>>

\* Mutant: one request too many passes the check.
AdmitOffByOne(c, count) ==
    IF count > call[c].row.monthlyLimit THEN Finish(c) ELSE Goto(c, "record")

\* The comparison at the end of validateCelebrityRequestLimit; over the limit
\* the call throws.
Admit(c, count) ==
    IF count >= call[c].row.monthlyLimit THEN Finish(c) ELSE Goto(c, "record")

\* validateCelebrityRequestLimit, up to the reset it may await.
ValidateLimit(c) ==
    /\ call[c].at = "validate"
    /\ LET row == call[c].row
       IN \/ /\ ~Enforced(row)
             /\ Goto(c, "record")
          \/ /\ Enforced(row)
             /\ Expired(row)
             /\ GotoWith(c, "reset", [row EXCEPT !.resetDate = NextResetDate(now)])
          \/ /\ Enforced(row)
             /\ ~Expired(row)
             /\ Admit(c, row.currentMonthCount)
    /\ UNCHANGED <<now, limits, history>>

\* The reset, then the comparison with a count of 0.
ResetAndValidate(c) ==
    /\ call[c].at = "reset"
    /\ ResetRow(c)
    /\ Admit(c, 0)

\* Mutant: the error of a failed creation is swallowed and the request counted.
RecordNothing(c, s) ==
    /\ call[c].at = "record"
    /\ Enforced(call[c].row)
    /\ Goto(c, "increment")
    /\ UNCHANGED <<now, limits, history>>

\* createRequestRecord; the count is updated only if the row read at first was
\* there and active.
CreateRequestRecord(c, s) ==
    /\ call[c].at = "record"
    /\ made' = [made EXCEPT ![call[c].user] = @ + 1]
    /\ received' = [received EXCEPT ![s] = @ + 1]
    /\ IF Enforced(call[c].row)
         THEN Goto(c, "increment")
         ELSE Finish(c)
    /\ UNCHANGED <<now, limits, highest>>

\* incrementCelebrityRequestCount: an atomic increment of the row as it is now.
IncrementRequestCount(c) ==
    /\ call[c].at = "increment"
    /\ limits' = [limits EXCEPT ![call[c].user].currentMonthCount = @ + 1]
    /\ Finish(c)
    /\ UNCHANGED <<now, history>>

-----------------------------------------------------------------------------
(* Reading and setting limits *)

\* getRequestLimit, also behind getRequestStats and canMakeRequest.
GetRequestLimit(c, u) ==
    /\ ReadRow(c, u, "check")
    /\ UNCHANGED <<now, limits, history>>

\* What getRequestLimit does with the row it has: make one, reset it or return it.
CheckRow(c) ==
    /\ call[c].at = "check"
    /\ LET row == call[c].row
       IN \/ /\ row = NoRow
             /\ GotoWith(c, "insert",
                         FreshRow(DefaultLimit, TRUE, NextResetDate(now)))
          \/ /\ row # NoRow /\ Expired(row)
             /\ GotoWith(c, "refresh", [row EXCEPT !.resetDate = NextResetDate(now)])
          \/ /\ row # NoRow /\ ~Expired(row)
             /\ Finish(c)
    /\ UNCHANGED <<now, limits, history>>

CreateDefaultRow(c) ==
    /\ call[c].at = "insert"
    /\ InsertRow(call[c].user, call[c].next)
    /\ call' = [call EXCEPT ![c].at = "check", ![c].row = call[c].next,
                            ![c].next = NoRow]
    /\ UNCHANGED now

RefreshRow(c) ==
    /\ call[c].at = "refresh"
    /\ ResetRow(c)
    /\ Finish(c)

\* updateRequestLimit, up to its write.
UpdateRequestLimit(c, u, limit, active) ==
    /\ call[c] = Idle
    /\ call' = [call EXCEPT ![c] =
                  [at |-> "write", user |-> u, row |-> limits[u],
                   next |-> FreshRow(limit, active, NextResetDate(now))]]
    /\ UNCHANGED <<now, limits, history>>

\* The write: a new row if none was found, else the two settings.
WriteLimit(c) ==
    LET u == call[c].user
        new == call[c].next
    IN /\ call[c].at = "write"
       /\ \/ /\ call[c].row = NoRow
             /\ InsertRow(u, new)
          \/ /\ call[c].row # NoRow
             /\ limits' = [limits EXCEPT ![u].monthlyLimit = new.monthlyLimit,
                                        ![u].isActive = new.isActive]
             /\ Higher(u, new.monthlyLimit)
             /\ UNCHANGED <<made, received>>
       /\ Finish(c)
       /\ UNCHANGED now

\* completeStep4's row: a month from today, not the first of a month.
CreateOnboardingRow(u) ==
    /\ u \in Celebrity
    /\ InsertRow(u, FreshRow(OnboardingLimit, TRUE, now + MonthLength))
    /\ UNCHANGED <<now, call>>

\* A query or the payment provider throws (an insertion also if another call
\* has made the row), or the process restarts.
FailCall(c) ==
    /\ call[c] # Idle
    /\ Finish(c)
    /\ UNCHANGED <<now, limits, history>>

Tick ==
    /\ now < MaxTime
    /\ now' = now + 1
    /\ UNCHANGED <<limits, call, history>>

-----------------------------------------------------------------------------

CreateNext(c) ==
    \/ \E u \in User : FetchRequestDependencies(c, u)
    \/ ValidateLimit(c)
    \/ ResetAndValidate(c)
    \/ \E s \in Celebrity : CreateRequestRecord(c, s)
    \/ IncrementRequestCount(c)

LimitNext(c) ==
    \/ \E u \in User :
          \/ GetRequestLimit(c, u)
          \/ \E limit \in LimitValues, active \in BOOLEAN :
                UpdateRequestLimit(c, u, limit, active)
    \/ CheckRow(c)
    \/ CreateDefaultRow(c)
    \/ RefreshRow(c)
    \/ WriteLimit(c)

Next ==
    \/ \E c \in Call : CreateNext(c) \/ LimitNext(c) \/ FailCall(c)
    \/ \E u \in User : CreateOnboardingRow(u)
    \/ Tick

Spec == Init /\ [][Next]_vars

-----------------------------------------------------------------------------
(* Properties *)

\* What a call needs is there for as long as it needs it: rows stay once found,
\* and nothing is counted for a user without limits.
CallInv ==
    \A c \in Call :
       /\ call[c].row # NoRow => limits[call[c].user] # NoRow
       /\ call[c].at \in {"reset", "refresh", "increment"} => call[c].row # NoRow
       /\ call[c].at = "increment" => call[c].row.isActive
       /\ call[c].at \in {"reset", "refresh", "insert", "write"} => call[c].next # NoRow
       /\ call[c].at \in {"insert", "write"} => call[c].next.currentMonthCount = 0

\* A creation that read a row with room left and has not counted yet.
HasRoom(k) ==
    /\ Enforced(k.row)
    /\ \/ k.at \in {"record", "increment"}
       \/ k.at = "validate" /\ k.row.currentMonthCount < k.row.monthlyLimit

Admitted(u) == {c \in Call : call[c].user = u /\ HasRoom(call[c])}

\* Creations that made their request and have not counted it yet.
Uncounted(u) == {c \in Call : call[c].user = u /\ call[c].at = "increment"}

\* The inductive forms of the two properties below.
AdmittedWithinLimit(u) ==
    limits[u] # NoRow =>
       /\ limits[u].monthlyLimit <= highest[u]
       /\ limits[u].currentMonthCount + Cardinality(Admitted(u))
             <= highest[u] + Cardinality(Call) - 1

CountedWereMade(u) ==
    limits[u] # NoRow =>
       limits[u].currentMonthCount + Cardinality(Uncounted(u))
          <= made[u] + Cardinality(Call) - 1

\* The check and the count are separate queries, so concurrent creations run past
\* the limit; but only by one request for each further call in progress, however
\* months pass, rows are reset and limits are changed.
OvershootBounded ==
    \A u \in User :
       limits[u] # NoRow =>
          limits[u].currentMonthCount <= highest[u] + Cardinality(Call) - 1

\* A month's count charges a user with no more than she ordered in it, except
\* for calls that were in progress at the reset: nobody is locked out by orders
\* that failed.
CountNotInflated ==
    \A u \in User :
       limits[u] # NoRow =>
          limits[u].currentMonthCount <= made[u] + Cardinality(Call) - 1

\* "Check and enforce celebrity monthly request limits"
\* (src/request/REQUEST_SERVICE_REFACTOR.md:100): a celebrity with an active limit
\* gets no more requests in a period than that, but for concurrent calls.
CelebrityLimitEnforced ==
    \A s \in Celebrity :
       limits[s] # NoRow /\ limits[s].isActive =>
          received[s] <= highest[s] + Cardinality(Call) - 1
=============================================================================
