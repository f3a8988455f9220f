------------------------ MODULE RequestLimits_proofs ------------------------
(***************************************************************************)
(* Theorems about RequestLimits, for any number of users and calls, any     *)
(* limits and any length of a month.                                        *)
(***************************************************************************)
EXTENDS RequestLimits, FiniteSetTheorems, TLAPS

-----------------------------------------------------------------------------
(* Types *)

Base == TypeOK /\ CallInv

LEMMA NextResetDateType ==
    ASSUME NEW date \in Nat
    PROVE  NextResetDate(date) \in Nat
<1> DEFINE m == date \div MonthLength + 1
<1>1. date \div MonthLength \in Nat
  BY LimitsAssumption
<1>2. m \in Nat
  BY <1>1
<1> HIDE DEF m
<1>3. m * MonthLength \in Nat
  BY <1>2, LimitsAssumption
<1>4. QED
  BY <1>3 DEF NextResetDate, m

LEMMA FreshRowType ==
    ASSUME NEW limit \in Nat \ {0}, NEW active \in BOOLEAN, NEW date \in Nat
    PROVE  FreshRow(limit, active, date) \in Limits
BY DEF FreshRow, Limits

\* A call that is under way knows its user.
LEMMA Busy ==
    ASSUME TypeOK, NEW c \in Call, call[c] # Idle
    PROVE  call[c] \in CallState
BY DEF TypeOK

\* What a step leaves of the rows and the calls.
RowsStay ==
    /\ limits' \in [User -> Limits \cup {NoRow}]
    /\ \A u \in User : limits[u] # NoRow => limits'[u] # NoRow

\* What CallInv says of the state k of one call.
Fits(k) ==
    /\ k.row # NoRow => limits'[k.user] # NoRow
    /\ k.at \in {"reset", "refresh", "increment"} => k.row # NoRow
    /\ k.at = "increment" => k.row.isActive
    /\ k.at \in {"reset", "refresh", "insert", "write"} => k.next # NoRow
    /\ k.at \in {"insert", "write"} => k.next.currentMonthCount = 0

LEMMA OneCallMoves ==
    ASSUME Base, RowsStay, NEW c \in Call, NEW k \in CallState \cup {Idle},
           call' = [call EXCEPT ![c] = k], Fits(k)
    PROVE  /\ call' \in [Call -> CallState \cup {Idle}]
           /\ CallInv'
<1>1. call' \in [Call -> CallState \cup {Idle}]
  BY DEF Base, TypeOK
<1>2. ASSUME NEW d \in Call, d # c
      PROVE  Fits(call'[d])
  <2>1. call'[d] = call[d]
    BY <1>2 DEF Base, TypeOK
  <2>2. call[d] \in CallState \cup {Idle}
    BY DEF Base, TypeOK
  <2>3. call[d].row # NoRow => call[d].user \in User
    BY <2>2 DEF CallState, Idle
  <2>4. QED
    BY <2>1, <2>3 DEF Base, CallInv, RowsStay, Fits
<1>3. Fits(call'[c])
  BY DEF Base, TypeOK
<1>4. QED
  BY <1>1, <1>2, <1>3 DEF CallInv, Fits

LEMMA IdleFits == Fits(Idle)
BY DEF Fits, Idle

LEMMA CallsStay ==
    ASSUME Base, RowsStay, UNCHANGED call
    PROVE  CallInv'
<1>1. ASSUME NEW d \in Call
      PROVE  call[d].row # NoRow => call[d].user \in User
  <2>1. call[d] \in CallState \cup {Idle}
    BY DEF Base, TypeOK
  <2>2. QED
    BY <2>1 DEF CallState, Idle
<1>2. QED
  BY <1>1 DEF Base, CallInv, RowsStay

-----------------------------------------------------------------------------
(* The writes *)

\* userId is unique, so an insertion meets no row.
LEMMA InsertKeeps ==
    ASSUME TypeOK, NEW u \in User, NEW row \in Limits, InsertRow(u, row)
    PROVE  /\ RowsStay
           /\ highest' \in [User -> Nat]
           /\ made' \in [User -> Nat]
           /\ received' \in [Celebrity -> Nat]
           /\ limits[u] = NoRow
           /\ limits'[u] = row
           /\ made'[u] = 0
           /\ row.monthlyLimit <= highest'[u]
           /\ \A v \in User \ {u} : /\ limits'[v] = limits[v]
                                    /\ highest'[v] = highest[v]
                                    /\ made'[v] = made[v]
<1>1. row.monthlyLimit \in Nat
  BY DEF Limits
<1>2. RowsStay
  BY LimitsAssumption DEF InsertRow, TypeOK, RowsStay
<1>3. highest' \in [User -> Nat] /\ row.monthlyLimit <= highest'[u]
  BY <1>1 DEF InsertRow, Higher, TypeOK
<1>4. \A v \in User \ {u} : highest'[v] = highest[v]
  BY DEF InsertRow, Higher, TypeOK
<1>5. made' \in [User -> Nat] /\ received' \in [Celebrity -> Nat] /\ made'[u] = 0
  BY DEF InsertRow, NewPeriod, TypeOK
<1>6. \A v \in User \ {u} : made'[v] = made[v] /\ limits'[v] = limits[v]
  BY DEF InsertRow, NewPeriod, TypeOK
<1>7. limits[u] = NoRow /\ limits'[u] = row
  BY DEF InsertRow, TypeOK
<1>8. QED
  BY <1>2, <1>3, <1>4, <1>5, <1>6, <1>7

\* A reset finds the row and clears its count.
LEMMA ResetKeeps ==
    ASSUME Base, NEW c \in Call, call[c].at \in {"reset", "refresh"}, ResetRow(c),
           NEW u \in User, call[c].user = u
    PROVE  /\ RowsStay
           /\ made' \in [User -> Nat]
           /\ received' \in [Celebrity -> Nat]
           /\ limits[u] \in Limits
           /\ limits'[u] \in Limits
           /\ limits'[u].currentMonthCount = 0
           /\ limits'[u].monthlyLimit = limits[u].monthlyLimit
           /\ made'[u] = 0
           /\ \A v \in User \ {u} : limits'[v] = limits[v] /\ made'[v] = made[v]
           /\ UNCHANGED <<now, highest>>
<1>1. call[c] \in CallState
  BY DEF Base, TypeOK, Idle
<1>2. limits[u] \in Limits
  BY DEF Base, TypeOK, CallInv
<1>3. call[c].next \in Limits
  BY <1>1 DEF Base, CallInv, CallState
<1> DEFINE row == [limits[u] EXCEPT !.currentMonthCount = 0,
                                    !.resetDate = call[c].next.resetDate]
<1>4. row \in Limits /\ row.currentMonthCount = 0
                     /\ row.monthlyLimit = limits[u].monthlyLimit
  BY <1>2, <1>3 DEF Limits
<1>5. limits' = [limits EXCEPT ![u] = row]
  BY DEF ResetRow, Base, TypeOK
<1> HIDE DEF row
<1>6. limits'[u] = row /\ \A v \in User \ {u} : limits'[v] = limits[v]
  BY <1>5 DEF Base, TypeOK
<1>7. RowsStay
  BY <1>4, <1>5, LimitsAssumption DEF Base, TypeOK, RowsStay
<1>8. /\ made' \in [User -> Nat] /\ received' \in [Celebrity -> Nat]
      /\ made'[u] = 0 /\ \A v \in User \ {u} : made'[v] = made[v]
  BY DEF ResetRow, NewPeriod, Base, TypeOK
<1>9. QED
  BY <1>2, <1>4, <1>6, <1>7, <1>8 DEF ResetRow

\* The increment finds the row too.
LEMMA IncrementKeeps ==
    ASSUME Base, NEW c \in Call, IncrementRequestCount(c),
           NEW u \in User, call[c].user = u
    PROVE  /\ RowsStay
           /\ limits[u] \in Limits
           /\ limits'[u] = [limits[u] EXCEPT !.currentMonthCount = @ + 1]
           /\ \A v \in User \ {u} : limits'[v] = limits[v]
<1>1. call[c].at = "increment"
  BY DEF IncrementRequestCount
<1>2. limits[u] \in Limits
  BY <1>1 DEF Base, TypeOK, CallInv
<1> DEFINE row == [limits[u] EXCEPT !.currentMonthCount = @ + 1]
<1>3. row \in Limits
  BY <1>2 DEF Limits
<1>4. limits' = [limits EXCEPT ![u] = row]
  BY DEF IncrementRequestCount, Base, TypeOK
<1> HIDE DEF row
<1>5. limits'[u] = row /\ \A v \in User \ {u} : limits'[v] = limits[v]
  BY <1>4 DEF Base, TypeOK
<1>6. RowsStay
  BY <1>3, <1>4, LimitsAssumption DEF Base, TypeOK, RowsStay
<1>7. QED
  BY <1>2, <1>5, <1>6 DEF row

\* Writing the settings leaves the count alone.
SettingsWritten(c, u) ==
    /\ call[c].row # NoRow
    /\ limits' = [limits EXCEPT ![u].monthlyLimit = call[c].next.monthlyLimit,
                                ![u].isActive = call[c].next.isActive]
    /\ Higher(u, call[c].next.monthlyLimit)
    /\ UNCHANGED <<made, received>>

LEMMA SettingsKeep ==
    ASSUME Base, NEW c \in Call, call[c].at = "write",
           NEW u \in User, call[c].user = u, SettingsWritten(c, u)
    PROVE  /\ RowsStay
           /\ highest' \in [User -> Nat]
           /\ limits[u] \in Limits
           /\ limits'[u].currentMonthCount = limits[u].currentMonthCount
           /\ limits'[u].monthlyLimit <= highest'[u]
           /\ highest[u] <= highest'[u]
           /\ \A v \in User \ {u} : /\ limits'[v] = limits[v]
                                    /\ highest'[v] = highest[v]
<1>1. call[c] \in CallState
  BY DEF Base, TypeOK, Idle
<1>2. limits[u] \in Limits
  BY DEF Base, TypeOK, CallInv, SettingsWritten
<1>3. call[c].next \in Limits
  BY <1>1 DEF Base, CallInv, CallState
<1>4. call[c].next.monthlyLimit \in Nat
  BY <1>3 DEF Limits
<1> DEFINE row == [limits[u] EXCEPT !.monthlyLimit = call[c].next.monthlyLimit,
                                    !.isActive = call[c].next.isActive]
<1>5. /\ row \in Limits
      /\ row.currentMonthCount = limits[u].currentMonthCount
      /\ row.monthlyLimit = call[c].next.monthlyLimit
  BY <1>2, <1>3 DEF Limits
<1>6. limits' = [limits EXCEPT ![u] = row]
  BY DEF SettingsWritten, Base, TypeOK
<1> HIDE DEF row
<1>7. limits'[u] = row /\ \A v \in User \ {u} : limits'[v] = limits[v]
  BY <1>6 DEF Base, TypeOK
<1>8. RowsStay
  BY <1>5, <1>6, LimitsAssumption DEF Base, TypeOK, RowsStay
<1>9. /\ highest' \in [User -> Nat]
      /\ highest[u] <= highest'[u]
      /\ call[c].next.monthlyLimit <= highest'[u]
      /\ \A v \in User \ {u} : highest'[v] = highest[v]
  BY <1>4 DEF SettingsWritten, Higher, Base, TypeOK
<1>10. QED
  BY <1>2, <1>5, <1>7, <1>8, <1>9

-----------------------------------------------------------------------------
(* Type correctness *)

\* A step that leaves the rows alone.
LEMMA SameRows ==
    ASSUME TypeOK, UNCHANGED limits
    PROVE  RowsStay
BY DEF TypeOK, RowsStay

\* A step of call c that leaves the rows alone.
LEMMA CallOnly ==
    ASSUME Base, NEW c \in Call, NEW k \in CallState \cup {Idle},
           call' = [call EXCEPT ![c] = k],
           k.row # NoRow => limits[k.user] # NoRow,
           k.at \in {"reset", "refresh", "increment"} => k.row # NoRow,
           k.at = "increment" => k.row.isActive,
           k.at \in {"reset", "refresh", "insert", "write"} => k.next # NoRow,
           k.at \in {"insert", "write"} => k.next.currentMonthCount = 0,
           UNCHANGED <<now, limits, highest>>,
           made' \in [User -> Nat], received' \in [Celebrity -> Nat]
    PROVE  Base'
<1>1. RowsStay
  BY SameRows DEF Base
<1>2. Fits(k)
  BY DEF Fits
<1>3. QED
  BY <1>1, <1>2, OneCallMoves DEF Base, TypeOK

\* What a call found when it read its user's row.
LEMMA ReadFits ==
    ASSUME Base, NEW c \in Call, NEW u \in User, NEW step \in {"validate", "check"},
           ReadRow(c, u, step), UNCHANGED <<now, limits, history>>
    PROVE  Base'
<1> DEFINE k == [at |-> step, user |-> u, row |-> limits[u], next |-> NoRow]
<1>1. k \in CallState
  BY DEF CallState, CreateStep, LimitStep, Base, TypeOK
<1>2. call' = [call EXCEPT ![c] = k]
  BY DEF ReadRow
<1>3. /\ k.row # NoRow => limits[k.user] # NoRow
      /\ k.at \notin {"reset", "refresh", "increment", "insert", "write"}
  OBVIOUS
<1> HIDE DEF k
<1>4. QED
  BY <1>1, <1>2, <1>3, CallOnly DEF history, Base, TypeOK

\* A call that goes on to a step with a row to write, or without one.
LEMMA MoveFits ==
    ASSUME Base, NEW c \in Call, call[c] # Idle,
           NEW step \in CreateStep \cup LimitStep, NEW next \in Limits \cup {NoRow},
           call' = [call EXCEPT ![c].at = step, ![c].next = next],
           step \in {"reset", "refresh"} => call[c].row # NoRow,
           step = "increment" => Enforced(call[c].row),
           step \in {"reset", "refresh", "insert", "write"} => next # NoRow,
           step \in {"insert", "write"} => next.currentMonthCount = 0,
           UNCHANGED <<now, limits, highest>>,
           made' \in [User -> Nat], received' \in [Celebrity -> Nat]
    PROVE  Base'
<1>1. call[c] \in CallState
  BY Busy DEF Base
<1> DEFINE k == [call[c] EXCEPT !.at = step, !.next = next]
<1>2. /\ k \in CallState
      /\ k.at = step /\ k.next = next
      /\ k.user = call[c].user /\ k.row = call[c].row
  BY <1>1 DEF CallState
<1>3. call' = [call EXCEPT ![c] = k]
  BY DEF Base, TypeOK
<1> HIDE DEF k
<1>4. k.row # NoRow => limits[k.user] # NoRow
  BY <1>2 DEF Base, CallInv
<1>5. k.at \in {"reset", "refresh", "increment"} => k.row # NoRow
  BY <1>2 DEF Enforced
<1>6. k.at = "increment" => k.row.isActive
  BY <1>2 DEF Enforced
<1>7. /\ k.at \in {"reset", "refresh", "insert", "write"} => k.next # NoRow
      /\ k.at \in {"insert", "write"} => k.next.currentMonthCount = 0
  BY <1>2
<1>8. k \in CallState \cup {Idle}
  BY <1>2
<1>9. QED
  BY <1>3, <1>4, <1>5, <1>6, <1>7, <1>8, CallOnly

LEMMA GotoFits ==
    ASSUME Base, NEW c \in Call, call[c] # Idle,
           NEW step \in {"record", "increment"}, Goto(c, step),
           step = "increment" => Enforced(call[c].row),
           UNCHANGED <<now, limits, highest>>,
           made' \in [User -> Nat], received' \in [Celebrity -> Nat]
    PROVE  Base'
<1>1. call[c] \in CallState
  BY Busy DEF Base
<1>2. call' = [call EXCEPT ![c].at = step, ![c].next = call[c].next]
  BY <1>1 DEF Goto, Base, TypeOK, CallState
<1>3. call[c].next \in Limits \cup {NoRow} /\ step \in CreateStep \cup LimitStep
  BY <1>1 DEF CallState, CreateStep
<1>4. QED
  BY <1>2, <1>3, MoveFits

LEMMA FinishFits ==
    ASSUME Base, NEW c \in Call, Finish(c), UNCHANGED <<now, limits, highest>>,
           made' \in [User -> Nat], received' \in [Celebrity -> Nat]
    PROVE  Base'
BY CallOnly DEF Finish, Idle

\* The steps of a call that create a request.
LEMMA CreateBase ==
    ASSUME Base, NEW c \in Call, CreateNext(c)
    PROVE  Base'
<1>1. made \in [User -> Nat] /\ received \in [Celebrity -> Nat]
  BY DEF Base, TypeOK
<1>2. CASE \E u \in User : FetchRequestDependencies(c, u)
  BY <1>2, ReadFits DEF FetchRequestDependencies
<1>3. CASE ValidateLimit(c)
  <2>1. call[c] # Idle
    BY <1>3 DEF ValidateLimit, Idle
  <2>2. call[c] \in CallState
    BY <2>1, Busy DEF Base
  <2>3. UNCHANGED <<now, limits, highest, made, received>>
    BY <1>3 DEF ValidateLimit, history
  <2>4. CASE Goto(c, "record")
    BY <1>1, <2>1, <2>3, <2>4, GotoFits
  <2>5. CASE Finish(c)
    BY <1>1, <2>3, <2>5, FinishFits
  <2> DEFINE next == [call[c].row EXCEPT !.resetDate = NextResetDate(now)]
  <2>6. CASE Enforced(call[c].row) /\ GotoWith(c, "reset", next)
    <3>1. call[c].row \in Limits
      BY <2>2, <2>6 DEF CallState, Enforced
    <3>2. next \in Limits
      BY <3>1, NextResetDateType DEF Base, TypeOK, Limits
    <3> HIDE DEF next
    <3>3. "reset" \in CreateStep \cup LimitStep /\ next # NoRow
      BY <3>2, LimitsAssumption DEF CreateStep
    <3>4. QED
      BY <1>1, <2>1, <2>3, <2>6, <3>1, <3>2, <3>3, LimitsAssumption, MoveFits DEF GotoWith
  <2>7. QED
    BY <1>3, <2>4, <2>5, <2>6 DEF ValidateLimit, Admit
<1>4. CASE ResetAndValidate(c)
  <2>1. call[c].at = "reset" /\ ResetRow(c)
    BY <1>4 DEF ResetAndValidate
  <2>2. call[c] \in CallState
    BY <2>1, Busy DEF Idle, Base
  <2>3. PICK u \in User : call[c].user = u
    BY <2>2 DEF CallState
  <2>4. /\ RowsStay
        /\ made' \in [User -> Nat] /\ received' \in [Celebrity -> Nat]
        /\ UNCHANGED <<now, highest>>
    BY <2>1, <2>3, ResetKeeps
  <2>5. CASE Finish(c)
    BY <2>4, <2>5, IdleFits, OneCallMoves DEF Finish, Base, TypeOK, RowsStay
  <2>6. CASE Goto(c, "record")
    <3> DEFINE k == [call[c] EXCEPT !.at = "record"]
    <3>1. /\ k \in CallState /\ k.at = "record"
          /\ k.user = call[c].user /\ k.row = call[c].row
      BY <2>2 DEF CallState, CreateStep
    <3>2. call' = [call EXCEPT ![c] = k]
      BY <2>6 DEF Goto, Base, TypeOK
    <3> HIDE DEF k
    <3>3. Fits(k)
      BY <2>3, <2>4, <3>1 DEF Fits, Base, CallInv, RowsStay
    <3>4. QED
      BY <2>4, <3>1, <3>2, <3>3, OneCallMoves DEF Base, TypeOK, RowsStay
  <2>7. QED
    BY <1>4, <2>5, <2>6 DEF ResetAndValidate, Admit
<1>5. CASE \E s \in Celebrity : CreateRequestRecord(c, s)
  <2>1. /\ call[c].at = "record"
        /\ UNCHANGED <<now, limits, highest>>
        /\ \/ Enforced(call[c].row) /\ Goto(c, "increment")
           \/ Finish(c)
    BY <1>5 DEF CreateRequestRecord
  <2>2. call[c] \in CallState
    BY <2>1, Busy DEF Idle, Base
  <2>3. made' \in [User -> Nat] /\ received' \in [Celebrity -> Nat]
    BY <1>5, <2>2 DEF CreateRequestRecord, CallState, Base, TypeOK
  <2>4. CASE Finish(c)
    BY <2>1, <2>3, <2>4, FinishFits
  <2>5. CASE Enforced(call[c].row) /\ Goto(c, "increment")
    BY <2>1, <2>3, <2>5, GotoFits DEF Idle
  <2>6. QED
    BY <2>1, <2>4, <2>5
<1>6. CASE IncrementRequestCount(c)
  <2>1. call[c] \in CallState
    BY <1>6, Busy DEF IncrementRequestCount, Idle, Base
  <2>2. PICK u \in User : call[c].user = u
    BY <2>1 DEF CallState
  <2>3. RowsStay
    BY <1>6, <2>2, IncrementKeeps
  <2>4. Finish(c) /\ UNCHANGED <<now, highest, made, received>>
    BY <1>6 DEF IncrementRequestCount, history
  <2>5. QED
    BY <2>3, <2>4, IdleFits, OneCallMoves DEF Finish, Base, TypeOK, RowsStay
<1>7. QED
  BY <1>2, <1>3, <1>4, <1>5, <1>6 DEF CreateNext

\* The steps of a call that reads or sets limits.
LEMMA LimitBase ==
    ASSUME Base, NEW c \in Call, LimitNext(c)
    PROVE  Base'
<1>1. made \in [User -> Nat] /\ received \in [Celebrity -> Nat] /\ now \in Nat
  BY DEF Base, TypeOK
<1>2. CASE \E u \in User : GetRequestLimit(c, u)
  BY <1>2, ReadFits DEF GetRequestLimit
<1>3. ASSUME NEW u \in User, NEW limit \in LimitValues, NEW active \in BOOLEAN,
             UpdateRequestLimit(c, u, limit, active)
      PROVE  Base'
  <2> DEFINE next == FreshRow(limit, active, NextResetDate(now))
  <2>1. next \in Limits
    BY <1>1, FreshRowType, NextResetDateType, LimitsAssumption
  <2>2. next # NoRow /\ next.currentMonthCount = 0
    BY <2>1, LimitsAssumption DEF FreshRow
  <2> HIDE DEF next
  <2> DEFINE k == [at |-> "write", user |-> u, row |-> limits[u], next |-> next]
  <2>3. k \in CallState
    BY <2>1 DEF CallState, CreateStep, LimitStep, Base, TypeOK
  <2>4. call' = [call EXCEPT ![c] = k] /\ UNCHANGED <<now, limits, highest, made, received>>
    BY <1>3 DEF UpdateRequestLimit, history, next
  <2>5. /\ k.row # NoRow => limits[k.user] # NoRow
        /\ k.at \notin {"reset", "refresh", "increment"}
        /\ k.next # NoRow /\ k.next.currentMonthCount = 0
    BY <2>2
  <2> HIDE DEF k
  <2>6. QED
    BY <1>1, <2>3, <2>4, <2>5, CallOnly
<1>4. CASE CheckRow(c)
  <2>1. call[c] # Idle /\ UNCHANGED <<now, limits, highest, made, received>>
    BY <1>4 DEF CheckRow, Idle, history
  <2>2. call[c] \in CallState
    BY <2>1, Busy DEF Base
  <2>3. {"insert", "refresh"} \subseteq CreateStep \cup LimitStep
    BY DEF LimitStep
  <2>4. CASE Finish(c)
    BY <1>1, <2>1, <2>4, FinishFits
  <2> DEFINE default == FreshRow(DefaultLimit, TRUE, NextResetDate(now))
             next == [call[c].row EXCEPT !.resetDate = NextResetDate(now)]
  <2>5. CASE GotoWith(c, "insert", default)
    <3>1. default \in Limits /\ default.currentMonthCount = 0
      BY <1>1, FreshRowType, NextResetDateType, LimitsAssumption DEF FreshRow
    <3> HIDE DEF default
    <3>2. QED
      BY <1>1, <2>1, <2>3, <2>5, <3>1, LimitsAssumption, MoveFits DEF GotoWith
  <2>6. CASE call[c].row # NoRow /\ GotoWith(c, "refresh", next)
    <3>1. call[c].row \in Limits
      BY <2>2, <2>6 DEF CallState
    <3>2. next \in Limits
      BY <1>1, <3>1, NextResetDateType DEF Limits
    <3> HIDE DEF next
    <3>3. QED
      BY <1>1, <2>1, <2>3, <2>6, <3>2, LimitsAssumption, MoveFits DEF GotoWith
  <2>7. QED
    BY <1>4, <2>4, <2>5, <2>6 DEF CheckRow
<1>5. CASE CreateDefaultRow(c)
  <2>1. call[c] \in CallState
    BY <1>5, Busy DEF CreateDefaultRow, Idle, Base
  <2>2. call[c].next \in Limits
    BY <1>5, <2>1 DEF CreateDefaultRow, Base, CallInv, CallState
  <2>3. PICK u \in User : call[c].user = u
    BY <2>1 DEF CallState
  <2>4. InsertRow(u, call[c].next) /\ UNCHANGED now
    BY <1>5, <2>3 DEF CreateDefaultRow
  <2>5. /\ RowsStay /\ limits'[u] = call[c].next
        /\ highest' \in [User -> Nat]
        /\ made' \in [User -> Nat] /\ received' \in [Celebrity -> Nat]
    BY <2>2, <2>4, InsertKeeps DEF Base
  <2> DEFINE k == [call[c] EXCEPT !.at = "check", !.row = call[c].next, !.next = NoRow]
  <2>6. /\ k \in CallState /\ k.at = "check"
        /\ k.user = u /\ k.row = call[c].next
    BY <2>1, <2>2, <2>3 DEF CallState, LimitStep
  <2>7. call' = [call EXCEPT ![c] = k]
    BY <1>5 DEF CreateDefaultRow, Base, TypeOK
  <2> HIDE DEF k
  <2>8. Fits(k)
    BY <2>2, <2>5, <2>6, LimitsAssumption DEF Fits
  <2>9. QED
    BY <2>4, <2>5, <2>6, <2>7, <2>8, OneCallMoves DEF Base, TypeOK, RowsStay
<1>6. CASE RefreshRow(c)
  <2>1. call[c].at = "refresh" /\ ResetRow(c) /\ Finish(c)
    BY <1>6 DEF RefreshRow
  <2>2. PICK u \in User : call[c].user = u
    BY <2>1, Busy DEF Idle, CallState, Base
  <2>3. /\ RowsStay
        /\ made' \in [User -> Nat] /\ received' \in [Celebrity -> Nat]
        /\ UNCHANGED <<now, highest>>
    BY <2>1, <2>2, ResetKeeps
  <2>4. QED
    BY <2>1, <2>3, IdleFits, OneCallMoves DEF Finish, Base, TypeOK, RowsStay
<1>7. CASE WriteLimit(c)
  <2>1. call[c].at = "write" /\ Finish(c) /\ UNCHANGED now
    BY <1>7 DEF WriteLimit
  <2>2. call[c] \in CallState
    BY <2>1, Busy DEF Idle, Base
  <2>3. PICK u \in User : call[c].user = u
    BY <2>2 DEF CallState
  <2>4. call[c].next \in Limits
    BY <2>1, <2>2 DEF Base, CallInv, CallState
  <2>5. CASE InsertRow(u, call[c].next)
    <3>1. /\ RowsStay /\ highest' \in [User -> Nat]
          /\ made' \in [User -> Nat] /\ received' \in [Celebrity -> Nat]
      BY <2>4, <2>5, InsertKeeps DEF Base
    <3>2. QED
      BY <2>1, <3>1, IdleFits, OneCallMoves DEF Finish, Base, TypeOK, RowsStay
  <2>6. CASE SettingsWritten(c, u)
    <3>1. RowsStay /\ highest' \in [User -> Nat]
      BY <2>1, <2>3, <2>6, SettingsKeep
    <3>2. UNCHANGED <<made, received>>
      BY <2>6 DEF SettingsWritten
    <3>3. QED
      BY <1>1, <2>1, <3>1, <3>2, IdleFits, OneCallMoves DEF Finish, Base, TypeOK, RowsStay
  <2>7. QED
    BY <1>7, <2>3, <2>5, <2>6 DEF WriteLimit, SettingsWritten
<1>8. QED
  BY <1>2, <1>3, <1>4, <1>5, <1>6, <1>7 DEF LimitNext

LEMMA BaseStep ==
    ASSUME Base, [Next]_vars
    PROVE  Base'
<1>1. CASE \E c \in Call : CreateNext(c) \/ LimitNext(c)
  BY <1>1, CreateBase, LimitBase
<1>2. CASE \E c \in Call : FailCall(c)
  BY <1>2, FinishFits DEF FailCall, history, Base, TypeOK
<1>3. CASE \E u \in User : CreateOnboardingRow(u)
  <2>1. PICK u \in User :
           /\ InsertRow(u, FreshRow(OnboardingLimit, TRUE, now + MonthLength))
           /\ UNCHANGED <<now, call>>
    BY <1>3 DEF CreateOnboardingRow
  <2>2. FreshRow(OnboardingLimit, TRUE, now + MonthLength) \in Limits
    <3>1. now + MonthLength \in Nat
      BY LimitsAssumption DEF Base, TypeOK
    <3>2. QED
      BY <3>1, FreshRowType, LimitsAssumption
  <2>3. /\ RowsStay /\ highest' \in [User -> Nat]
        /\ made' \in [User -> Nat] /\ received' \in [Celebrity -> Nat]
    BY <2>1, <2>2, InsertKeeps DEF Base
  <2>4. CallInv'
    BY <2>1, <2>3, CallsStay
  <2>5. QED
    BY <2>1, <2>3, <2>4 DEF Base, TypeOK, RowsStay
<1>4. CASE Tick
  <2>1. UNCHANGED <<limits, call, highest, made, received>> /\ now' \in Nat
    BY <1>4 DEF Tick, history, Base, TypeOK
  <2>2. CallInv'
    BY <2>1 DEF Base, CallInv
  <2>3. QED
    BY <2>1, <2>2 DEF Base, TypeOK
<1>5. CASE UNCHANGED vars
  BY <1>5 DEF vars, Base, TypeOK, CallInv
<1>6. QED
  BY <1>1, <1>2, <1>3, <1>4, <1>5 DEF Next

LEMMA BaseInvariant == Spec => []Base
<1>1. Init => Base
  BY DEF Init, Base, TypeOK, CallInv, Idle
<1>2. Base /\ [Next]_vars => Base'
  BY BaseStep
<1>3. QED
  BY <1>1, <1>2, PTL DEF Spec

\* Every row is a row of request_limits, and a call is where its handler can be.
THEOREM TypeCorrect == Spec => []TypeOK
<1>1. Base => TypeOK
  BY DEF Base
<1>2. QED
  BY <1>1, BaseInvariant, PTL

-----------------------------------------------------------------------------
(* Counting calls *)

LEMMA CallsCounted ==
    ASSUME NEW S, S \subseteq Call
    PROVE  /\ IsFiniteSet(S)
           /\ Cardinality(S) \in Nat
           /\ Cardinality(S) <= Cardinality(Call)
           /\ Cardinality(Call) \in Nat \ {0}
           /\ S # Call => Cardinality(S) <= Cardinality(Call) - 1
<1>1. /\ IsFiniteSet(S) /\ Cardinality(S) <= Cardinality(Call)
      /\ Cardinality(S) = Cardinality(Call) => S = Call
  BY FS_Subset, LimitsAssumption
<1>2. Cardinality(S) \in Nat /\ Cardinality(Call) \in Nat
  BY <1>1, FS_CardinalityType, LimitsAssumption
<1>3. Cardinality(Call) # 0
  BY FS_EmptySet, LimitsAssumption
<1>4. QED
  BY <1>1, <1>2, <1>3

LEMMA Smaller ==
    ASSUME NEW S, NEW T, S \subseteq T, T \subseteq Call
    PROVE  Cardinality(S) <= Cardinality(T)
<1>1. IsFiniteSet(T)
  BY CallsCounted
<1>2. QED
  BY <1>1, FS_Subset

\* Only the call that moves enters or leaves a set of calls of a user.
LEMMA OthersStay ==
    ASSUME Base, NEW c \in Call, NEW k, call' = [call EXCEPT ![c] = k]
    PROVE  /\ \A d \in Call \ {c} : call'[d] = call[d]
           /\ call'[c] = k
BY DEF Base, TypeOK

LEMMA AdmittedMove ==
    ASSUME Base, NEW c \in Call, NEW k, call' = [call EXCEPT ![c] = k], NEW u \in User
    PROVE  /\ Admitted(u)' \subseteq Admitted(u) \cup {c}
           /\ ~(k.user = u /\ HasRoom(k)) => Admitted(u)' \subseteq Admitted(u) \ {c}
           /\ (HasRoom(k) => HasRoom(call[c])) /\ k.user = call[c].user
                 => Admitted(u)' \subseteq Admitted(u)
<1>1. \A d \in Call \ {c} : call'[d] = call[d]
  BY OthersStay
<1>2. call'[c] = k
  BY OthersStay
<1>3. \A d \in Call : HasRoom(call[d])' <=> HasRoom(call'[d])
  BY DEF HasRoom, Enforced
<1>4. Admitted(u)' = {d \in Call : call'[d].user = u /\ HasRoom(call'[d])}
  BY <1>3 DEF Admitted
<1>5. \A d \in Call \ {c} : d \in Admitted(u)' => d \in Admitted(u)
  BY <1>1, <1>4 DEF Admitted
<1>6. c \in Admitted(u)' => k.user = u /\ HasRoom(k)
  BY <1>2, <1>4
<1>7. Admitted(u)' \subseteq Call
  BY <1>4
<1>8. (HasRoom(k) => HasRoom(call[c])) /\ k.user = call[c].user
         => (c \in Admitted(u)' => c \in Admitted(u))
  BY <1>6 DEF Admitted
<1>9. QED
  BY <1>5, <1>6, <1>7, <1>8

LEMMA UncountedMove ==
    ASSUME Base, NEW c \in Call, NEW k, call' = [call EXCEPT ![c] = k], NEW u \in User
    PROVE  /\ Uncounted(u)' \subseteq Uncounted(u) \cup {c}
           /\ ~(k.user = u /\ k.at = "increment") => Uncounted(u)' \subseteq Uncounted(u) \ {c}
BY OthersStay DEF Uncounted

LEMMA IdleCountsNothing == Idle.at # "increment"
BY DEF Idle

LEMMA IdleHasNoRoom == ~HasRoom(Idle)
BY DEF HasRoom, Enforced, Idle

-----------------------------------------------------------------------------
(* The limit *)

\* The three ways in which a step keeps the bound of a user.
LEMMA NoneAdmitted ==
    ASSUME TypeOK', NEW u \in User, AdmittedWithinLimit(u),
           limits[u] \in Limits, limits'[u] \in Limits,
           limits'[u].currentMonthCount = limits[u].currentMonthCount,
           limits'[u].monthlyLimit <= highest'[u],
           highest[u] \in Nat, highest[u] <= highest'[u],
           Admitted(u)' \subseteq Admitted(u)
    PROVE  AdmittedWithinLimit(u)'
<1>1. Admitted(u) \subseteq Call
  BY DEF Admitted
<1>2. /\ Cardinality(Admitted(u)') <= Cardinality(Admitted(u))
      /\ Cardinality(Admitted(u)') \in Nat /\ Cardinality(Admitted(u)) \in Nat
      /\ Cardinality(Call) \in Nat
  BY <1>1, Smaller, CallsCounted
<1>3. limits[u].currentMonthCount \in Nat /\ highest'[u] \in Nat
  BY DEF Limits, TypeOK
<1>4. limits[u] # NoRow
  BY LimitsAssumption
<1>5. QED
  BY <1>2, <1>3, <1>4 DEF AdmittedWithinLimit

LEMMA CountCleared ==
    ASSUME TypeOK', NEW u \in User, limits'[u] \in Limits,
           limits'[u].currentMonthCount = 0,
           limits'[u].monthlyLimit <= highest'[u]
    PROVE  AdmittedWithinLimit(u)'
<1>1. Admitted(u)' \subseteq Call
  BY DEF Admitted
<1>2. Cardinality(Admitted(u)') <= Cardinality(Call)
  BY <1>1, CallsCounted
<1>3. Cardinality(Admitted(u)') \in Nat /\ Cardinality(Call) \in Nat
  BY <1>1, CallsCounted
<1>4. limits'[u].monthlyLimit \in Nat \ {0} /\ highest'[u] \in Nat
  BY DEF Limits, TypeOK
<1>5. QED
  BY <1>2, <1>3, <1>4 DEF AdmittedWithinLimit

LEMMA RoomLeft ==
    ASSUME TypeOK, NEW u \in User, UNCHANGED <<limits, highest>>,
           AdmittedWithinLimit(u), limits[u] \in Limits,
           limits[u].currentMonthCount < limits[u].monthlyLimit
    PROVE  AdmittedWithinLimit(u)'
<1>1. Admitted(u)' \subseteq Call
  BY DEF Admitted
<1>2. Cardinality(Admitted(u)') <= Cardinality(Call)
  BY <1>1, CallsCounted
<1>3. Cardinality(Admitted(u)') \in Nat /\ Cardinality(Call) \in Nat
  BY <1>1, CallsCounted
<1>4. /\ limits[u].monthlyLimit \in Nat /\ limits[u].currentMonthCount \in Nat
      /\ highest[u] \in Nat /\ limits[u] # NoRow
  BY LimitsAssumption DEF Limits, TypeOK
<1>5. QED
  BY <1>2, <1>3, <1>4 DEF AdmittedWithinLimit

\* A step that touches neither rows nor limits and admits nobody.
LEMMA RowsUntouched ==
    ASSUME Base, Base', NEW u \in User, AdmittedWithinLimit(u),
           limits'[u] = limits[u], highest'[u] = highest[u],
           Admitted(u)' \subseteq Admitted(u)
    PROVE  AdmittedWithinLimit(u)'
<1>1. CASE limits[u] = NoRow
  BY <1>1 DEF AdmittedWithinLimit
<1>2. CASE limits[u] # NoRow
  <2>1. limits[u] \in Limits /\ highest[u] \in Nat
    BY <1>2 DEF Base, TypeOK
  <2>2. limits[u].monthlyLimit <= highest[u]
    BY <1>2 DEF AdmittedWithinLimit
  <2>3. limits[u].monthlyLimit \in Nat
    BY <2>1 DEF Limits
  <2>4. QED
    BY <2>1, <2>2, <2>3, NoneAdmitted DEF Base
<1>3. QED
  BY <1>1, <1>2

\* An insertion starts a count of 0, for the user whose row it is.
LEMMA InsertAdmits ==
    ASSUME Base, Base', NEW u \in User, AdmittedWithinLimit(u),
           NEW v \in User, NEW row \in Limits, InsertRow(v, row),
           row.currentMonthCount = 0, Admitted(u)' \subseteq Admitted(u)
    PROVE  AdmittedWithinLimit(u)'
<1>1. /\ limits'[v] = row /\ row.monthlyLimit <= highest'[v]
      /\ \A w \in User \ {v} : limits'[w] = limits[w] /\ highest'[w] = highest[w]
  BY InsertKeeps DEF Base
<1>2. CASE u = v
  BY <1>1, <1>2, CountCleared DEF Base
<1>3. CASE u # v
  BY <1>1, <1>3, RowsUntouched
<1>4. QED
  BY <1>2, <1>3

LEMMA AdmittedCreateStep ==
    ASSUME Base, Base', NEW c \in Call, CreateNext(c),
           NEW u \in User, AdmittedWithinLimit(u)
    PROVE  AdmittedWithinLimit(u)'
<1>1. CASE \E v \in User : FetchRequestDependencies(c, v)
  <2>1. PICK v \in User : FetchRequestDependencies(c, v)
    BY <1>1
  <2> DEFINE k == [at |-> "validate", user |-> v, row |-> limits[v], next |-> NoRow]
  <2>2. call' = [call EXCEPT ![c] = k] /\ UNCHANGED <<limits, highest>>
    BY <2>1 DEF FetchRequestDependencies, ReadRow, history
  <2>3. HasRoom(k) => /\ limits[v] # NoRow
                      /\ limits[v].currentMonthCount < limits[v].monthlyLimit
    BY DEF HasRoom, Enforced
  <2>4. k.user = v
    OBVIOUS
  <2> HIDE DEF k
  <2>5. CASE k.user = u /\ HasRoom(k)
    <3>1. limits[u] \in Limits
      BY <2>3, <2>4, <2>5 DEF Base, TypeOK
    <3>2. QED
      BY <2>2, <2>3, <2>4, <2>5, <3>1, RoomLeft DEF Base
  <2>6. CASE ~(k.user = u /\ HasRoom(k))
    <3>1. Admitted(u)' \subseteq Admitted(u)
      BY <2>2, <2>6, AdmittedMove
    <3>2. QED
      BY <2>2, <3>1, RowsUntouched
  <2>7. QED
    BY <2>5, <2>6
<1>2. CASE ValidateLimit(c)
  <2>1. UNCHANGED <<limits, highest>> /\ call[c].at = "validate"
    BY <1>2 DEF ValidateLimit, history
  <2>2. call[c] \in CallState
    BY <2>1, Busy DEF Idle, Base
  <2>3. CASE Finish(c)
    BY <2>1, <2>3, AdmittedMove, IdleHasNoRoom, RowsUntouched DEF Finish
  <2> DEFINE next == [call[c].row EXCEPT !.resetDate = NextResetDate(now)]
             waiting == [call[c] EXCEPT !.at = "reset", !.next = next]
             passed == [call[c] EXCEPT !.at = "record"]
  <2>4. CASE GotoWith(c, "reset", next)
    <3>1. call' = [call EXCEPT ![c] = waiting]
      BY <2>2, <2>4 DEF GotoWith, Base, TypeOK
    <3>2. waiting.at = "reset"
      BY <2>2 DEF CallState
    <3>3. ~HasRoom(waiting)
      BY <3>2 DEF HasRoom
    <3> HIDE DEF waiting
    <3>4. QED
      BY <2>1, <3>1, <3>3, AdmittedMove, RowsUntouched
  <2>5. CASE Goto(c, "record") /\ (Enforced(call[c].row) => HasRoom(call[c]))
    <3>1. call' = [call EXCEPT ![c] = passed]
      BY <2>2, <2>5 DEF Goto, Base, TypeOK
    <3>2. passed.user = call[c].user /\ passed.row = call[c].row
      BY <2>2 DEF CallState
    <3>3. HasRoom(passed) => HasRoom(call[c])
      BY <2>5, <3>2 DEF HasRoom
    <3> HIDE DEF passed
    <3>4. QED
      BY <2>1, <3>1, <3>2, <3>3, AdmittedMove, RowsUntouched
  <2>6. ASSUME Enforced(call[c].row), Admit(c, call[c].row.currentMonthCount)
        PROVE  Finish(c) \/ (Goto(c, "record") /\ HasRoom(call[c]))
    <3>1. call[c].row \in Limits
      BY <2>2, <2>6 DEF CallState, Enforced
    <3>2. call[c].row.currentMonthCount \in Nat /\ call[c].row.monthlyLimit \in Nat
      BY <3>1 DEF Limits
    <3>3. QED
      BY <2>1, <2>6, <3>2 DEF Admit, HasRoom
  <2>7. QED
    BY <1>2, <2>3, <2>4, <2>5, <2>6 DEF ValidateLimit
<1>3. CASE ResetAndValidate(c)
  <2>1. call[c].at = "reset" /\ ResetRow(c)
    BY <1>3 DEF ResetAndValidate
  <2>2. call[c] \in CallState
    BY <2>1, Busy DEF Idle, Base
  <2>3. PICK v \in User : call[c].user = v
    BY <2>2 DEF CallState
  <2>4. /\ limits[v] \in Limits /\ limits'[v] \in Limits
        /\ limits'[v].currentMonthCount = 0
        /\ limits'[v].monthlyLimit = limits[v].monthlyLimit
        /\ \A w \in User \ {v} : limits'[w] = limits[w]
        /\ UNCHANGED highest
    BY <2>1, <2>3, ResetKeeps
  <2>5. CASE u = v
    BY <2>4, <2>5, CountCleared, LimitsAssumption DEF AdmittedWithinLimit, Base
  <2>6. CASE u # v
    <3>1. PICK k : call' = [call EXCEPT ![c] = k] /\ (k = Idle \/ k.user = v)
      <4>1. CASE Finish(c)
        BY <4>1 DEF Finish
      <4>2. CASE Goto(c, "record")
        <5> DEFINE k == [call[c] EXCEPT !.at = "record"]
        <5>1. call' = [call EXCEPT ![c] = k] /\ k.user = v
          BY <2>2, <2>3, <4>2 DEF Goto, Base, TypeOK, CallState
        <5>2. QED
          BY <5>1
      <4>3. QED
        BY <1>3, <4>1, <4>2 DEF ResetAndValidate, Admit
    <3>2. ~(k.user = u /\ HasRoom(k))
      BY <2>6, <3>1, IdleHasNoRoom
    <3>3. Admitted(u)' \subseteq Admitted(u)
      BY <3>1, <3>2, AdmittedMove
    <3>4. QED
      BY <2>4, <2>6, <3>3, RowsUntouched
  <2>7. QED
    BY <2>5, <2>6
<1>4. CASE \E s \in Celebrity : CreateRequestRecord(c, s)
  <2>1. /\ call[c].at = "record" /\ UNCHANGED <<limits, highest>>
        /\ (Enforced(call[c].row) /\ Goto(c, "increment")) \/ Finish(c)
    BY <1>4 DEF CreateRequestRecord
  <2>2. call[c] \in CallState
    BY <2>1, Busy DEF Idle, Base
  <2>3. CASE Finish(c)
    BY <2>1, <2>3, AdmittedMove, IdleHasNoRoom, RowsUntouched DEF Finish
  <2>4. CASE Enforced(call[c].row) /\ Goto(c, "increment")
    <3> DEFINE k == [call[c] EXCEPT !.at = "increment"]
    <3>1. call' = [call EXCEPT ![c] = k] /\ k.user = call[c].user
      BY <2>2, <2>4 DEF Goto, Base, TypeOK, CallState
    <3>2. HasRoom(call[c])
      BY <2>1, <2>4 DEF HasRoom
    <3> HIDE DEF k
    <3>3. QED
      BY <2>1, <3>1, <3>2, AdmittedMove, RowsUntouched
  <2>5. QED
    BY <2>1, <2>3, <2>4
<1>5. CASE IncrementRequestCount(c)
  <2>1. call[c].at = "increment" /\ Finish(c) /\ UNCHANGED highest
    BY <1>5 DEF IncrementRequestCount, history
  <2>2. PICK v \in User : call[c].user = v
    BY <2>1, Busy DEF Idle, CallState, Base
  <2>3. /\ limits[v] \in Limits
        /\ limits'[v] = [limits[v] EXCEPT !.currentMonthCount = @ + 1]
        /\ \A w \in User \ {v} : limits'[w] = limits[w]
    BY <1>5, <2>2, IncrementKeeps
  <2>4. Admitted(u)' \subseteq Admitted(u) \ {c}
    BY <2>1, AdmittedMove, IdleHasNoRoom DEF Finish
  <2>5. CASE u # v
    BY <2>1, <2>3, <2>4, <2>5, RowsUntouched
  <2>6. CASE u = v
    <3>1. c \in Admitted(u) /\ Admitted(u) \subseteq Call
      BY <2>1, <2>2, <2>6 DEF Admitted, HasRoom, Enforced, Base, CallInv
    <3>2. /\ Cardinality(Admitted(u) \ {c}) = Cardinality(Admitted(u)) - 1
          /\ Cardinality(Admitted(u)) \in Nat /\ Cardinality(Call) \in Nat
      BY <3>1, FS_RemoveElement, CallsCounted
    <3>3. /\ Cardinality(Admitted(u)') <= Cardinality(Admitted(u) \ {c})
          /\ Cardinality(Admitted(u)') \in Nat
      BY <2>4, <3>1, Smaller, CallsCounted
    <3>4. /\ limits'[u].currentMonthCount = limits[u].currentMonthCount + 1
          /\ limits'[u].monthlyLimit = limits[u].monthlyLimit
          /\ limits[u].currentMonthCount \in Nat
          /\ limits[u] # NoRow /\ highest[u] \in Nat
      BY <2>3, <2>6, LimitsAssumption DEF Limits, Base, TypeOK
    <3>5. QED
      BY <2>1, <3>2, <3>3, <3>4 DEF AdmittedWithinLimit
  <2>7. QED
    BY <2>5, <2>6
<1>6. QED
  BY <1>1, <1>2, <1>3, <1>4, <1>5 DEF CreateNext

LEMMA AdmittedLimitStep ==
    ASSUME Base, Base', NEW c \in Call, LimitNext(c),
           NEW u \in User, AdmittedWithinLimit(u)
    PROVE  AdmittedWithinLimit(u)'
<1>1. ASSUME NEW k, call' = [call EXCEPT ![c] = k], ~HasRoom(k)
      PROVE  Admitted(u)' \subseteq Admitted(u)
  BY <1>1, AdmittedMove
<1>2. CASE \E v \in User : GetRequestLimit(c, v)
  <2>1. PICK v \in User : GetRequestLimit(c, v)
    BY <1>2
  <2> DEFINE k == [at |-> "check", user |-> v, row |-> limits[v], next |-> NoRow]
  <2>2. call' = [call EXCEPT ![c] = k] /\ UNCHANGED <<limits, highest>>
    BY <2>1 DEF GetRequestLimit, ReadRow, history
  <2>3. ~HasRoom(k)
    BY DEF HasRoom
  <2> HIDE DEF k
  <2>4. QED
    BY <1>1, <2>2, <2>3, RowsUntouched
<1>3. CASE \E v \in User, limit \in LimitValues, active \in BOOLEAN :
              UpdateRequestLimit(c, v, limit, active)
  <2>1. PICK v \in User, limit \in LimitValues, active \in BOOLEAN :
           UpdateRequestLimit(c, v, limit, active)
    BY <1>3
  <2> DEFINE k == [at |-> "write", user |-> v, row |-> limits[v],
                   next |-> FreshRow(limit, active, NextResetDate(now))]
  <2>2. call' = [call EXCEPT ![c] = k] /\ UNCHANGED <<limits, highest>>
    BY <2>1 DEF UpdateRequestLimit, history
  <2>3. ~HasRoom(k)
    BY DEF HasRoom
  <2> HIDE DEF k
  <2>4. QED
    BY <1>1, <2>2, <2>3, RowsUntouched
<1>4. CASE CheckRow(c)
  <2>1. call[c].at = "check" /\ UNCHANGED <<limits, highest>>
    BY <1>4 DEF CheckRow, history
  <2>2. call[c] \in CallState
    BY <2>1, Busy DEF Idle, Base
  <2>3. CASE Finish(c)
    BY <1>1, <2>1, <2>3, IdleHasNoRoom, RowsUntouched DEF Finish
  <2>4. ASSUME NEW step \in {"insert", "refresh"}, NEW next, GotoWith(c, step, next)
        PROVE  AdmittedWithinLimit(u)'
    <3> DEFINE k == [call[c] EXCEPT !.at = step, !.next = next]
    <3>1. call' = [call EXCEPT ![c] = k]
      BY <2>2, <2>4 DEF GotoWith, Base, TypeOK
    <3>2. k.at = step
      BY <2>2 DEF CallState
    <3>3. ~HasRoom(k)
      BY <2>4, <3>2 DEF HasRoom
    <3> HIDE DEF k
    <3>4. QED
      BY <1>1, <2>1, <3>1, <3>3, RowsUntouched
  <2>5. QED
    BY <1>4, <2>3, <2>4 DEF CheckRow
<1>5. ASSUME NEW v \in User, NEW row \in Limits, InsertRow(v, row),
             row.currentMonthCount = 0, Admitted(u)' \subseteq Admitted(u)
      PROVE  AdmittedWithinLimit(u)'
  BY <1>5, InsertAdmits
<1>6. CASE CreateDefaultRow(c)
  <2>1. call[c].at = "insert"
    BY <1>6 DEF CreateDefaultRow
  <2>2. call[c] \in CallState
    BY <2>1, Busy DEF Idle, Base
  <2>3. PICK v \in User : call[c].user = v
    BY <2>2 DEF CallState
  <2>4. call[c].next \in Limits /\ call[c].next.currentMonthCount = 0
    BY <2>1, <2>2 DEF Base, CallInv, CallState
  <2>5. InsertRow(v, call[c].next)
    BY <1>6, <2>3 DEF CreateDefaultRow
  <2> DEFINE k == [call[c] EXCEPT !.at = "check", !.row = call[c].next, !.next = NoRow]
  <2>6. call' = [call EXCEPT ![c] = k]
    BY <1>6 DEF CreateDefaultRow, Base, TypeOK
  <2>7. k.at = "check"
    BY <2>2 DEF CallState
  <2>8. ~HasRoom(k)
    BY <2>7 DEF HasRoom
  <2> HIDE DEF k
  <2>9. QED
    BY <1>1, <1>5, <2>4, <2>5, <2>6, <2>8
<1>7. CASE RefreshRow(c)
  <2>1. call[c].at = "refresh" /\ ResetRow(c) /\ Finish(c)
    BY <1>7 DEF RefreshRow
  <2>2. PICK v \in User : call[c].user = v
    BY <2>1, Busy DEF Idle, CallState, Base
  <2>3. /\ limits[v] \in Limits /\ limits'[v] \in Limits
        /\ limits'[v].currentMonthCount = 0
        /\ limits'[v].monthlyLimit = limits[v].monthlyLimit
        /\ \A w \in User \ {v} : limits'[w] = limits[w]
        /\ UNCHANGED highest
    BY <2>1, <2>2, ResetKeeps
  <2>4. CASE u = v
    BY <2>3, <2>4, CountCleared, LimitsAssumption DEF AdmittedWithinLimit, Base
  <2>5. CASE u # v
    BY <1>1, <2>1, <2>3, <2>5, IdleHasNoRoom, RowsUntouched DEF Finish
  <2>6. QED
    BY <2>4, <2>5
<1>8. CASE WriteLimit(c)
  <2>1. call[c].at = "write" /\ Finish(c)
    BY <1>8 DEF WriteLimit
  <2>2. call[c] \in CallState
    BY <2>1, Busy DEF Idle, Base
  <2>3. PICK v \in User : call[c].user = v
    BY <2>2 DEF CallState
  <2>4. Admitted(u)' \subseteq Admitted(u)
    BY <1>1, <2>1, IdleHasNoRoom DEF Finish
  <2>5. CASE InsertRow(v, call[c].next)
    <3>1. call[c].next \in Limits /\ call[c].next.currentMonthCount = 0
      BY <2>1, <2>2 DEF Base, CallInv, CallState
    <3>2. QED
      BY <1>5, <2>4, <2>5, <3>1
  <2>6. CASE SettingsWritten(c, v)
    <3>1. /\ limits[v] \in Limits
          /\ limits'[v].currentMonthCount = limits[v].currentMonthCount
          /\ limits'[v].monthlyLimit <= highest'[v]
          /\ highest[v] <= highest'[v]
          /\ \A w \in User \ {v} : /\ limits'[w] = limits[w]
                                   /\ highest'[w] = highest[w]
          /\ RowsStay
      BY <2>1, <2>3, <2>6, SettingsKeep
    <3>2. CASE u = v
      <4>1. limits'[u] \in Limits /\ highest[u] \in Nat
        BY <3>1, <3>2, LimitsAssumption DEF RowsStay, Base, TypeOK
      <4>2. QED
        BY <2>4, <3>1, <3>2, <4>1, NoneAdmitted DEF Base
    <3>3. CASE u # v
      BY <2>4, <3>1, <3>3, RowsUntouched
    <3>4. QED
      BY <3>2, <3>3
  <2>7. QED
    BY <1>8, <2>3, <2>5, <2>6 DEF WriteLimit, SettingsWritten
<1>9. QED
  BY <1>2, <1>3, <1>4, <1>6, <1>7, <1>8 DEF LimitNext

LEMMA AdmittedStep ==
    ASSUME Base, [Next]_vars, NEW u \in User, AdmittedWithinLimit(u)
    PROVE  AdmittedWithinLimit(u)'
<1>1. Base'
  BY BaseStep
<1>2. CASE \E c \in Call : CreateNext(c) \/ LimitNext(c)
  BY <1>1, <1>2, AdmittedCreateStep, AdmittedLimitStep
<1>3. CASE \E c \in Call : FailCall(c)
  BY <1>1, <1>3, AdmittedMove, IdleHasNoRoom, RowsUntouched DEF FailCall, Finish, history
<1>4. CASE \E v \in User : CreateOnboardingRow(v)
  <2>1. PICK v \in User :
           /\ InsertRow(v, FreshRow(OnboardingLimit, TRUE, now + MonthLength))
           /\ UNCHANGED <<now, call>>
    BY <1>4 DEF CreateOnboardingRow
  <2> DEFINE row == FreshRow(OnboardingLimit, TRUE, now + MonthLength)
  <2>2. row \in Limits /\ row.currentMonthCount = 0
    <3>1. now + MonthLength \in Nat
      BY LimitsAssumption DEF Base, TypeOK
    <3>2. QED
      BY <3>1, FreshRowType, LimitsAssumption DEF FreshRow
  <2>3. Admitted(u)' \subseteq Admitted(u)
    BY <2>1 DEF Admitted
  <2>4. QED
    BY <1>1, <2>1, <2>2, <2>3, InsertAdmits
<1>5. CASE Tick \/ UNCHANGED vars
  <2>1. UNCHANGED <<limits, call, highest>>
    BY <1>5 DEF Tick, vars, history
  <2>2. Admitted(u)' \subseteq Admitted(u)
    BY <2>1 DEF Admitted
  <2>3. QED
    BY <1>1, <2>1, <2>2, RowsUntouched
<1>6. QED
  BY <1>2, <1>3, <1>4, <1>5 DEF Next

\* Check and count are separate queries, yet the count passes the highest limit by
\* at most one for each further call in progress.
THEOREM LimitOvershoot == Spec => []OvershootBounded
<1> DEFINE Inv == Base /\ \A u \in User : AdmittedWithinLimit(u)
<1>1. Init => Inv
  BY DEF Init, Base, TypeOK, CallInv, Idle, AdmittedWithinLimit
<1>2. Inv /\ [Next]_vars => Inv'
  BY BaseStep, AdmittedStep
<1>3. Inv => OvershootBounded
  <2>1. ASSUME Inv, NEW u \in User, limits[u] # NoRow
        PROVE  limits[u].currentMonthCount <= highest[u] + Cardinality(Call) - 1
    <3>1. Admitted(u) \subseteq Call
      BY DEF Admitted
    <3>2. Cardinality(Admitted(u)) \in Nat /\ Cardinality(Call) \in Nat
      BY <3>1, CallsCounted
    <3>3. limits[u].currentMonthCount \in Nat /\ highest[u] \in Nat
      BY <2>1 DEF Base, TypeOK, Limits
    <3>4. QED
      BY <2>1, <3>2, <3>3 DEF AdmittedWithinLimit
  <2>2. QED
    BY <2>1 DEF OvershootBounded
<1>4. QED
  BY <1>1, <1>2, <1>3, PTL DEF Spec

-----------------------------------------------------------------------------
(* The count *)

\* A row whose count only shrinks against what was made.
LEMMA NothingPending ==
    ASSUME Base, Base', NEW u \in User, CountedWereMade(u),
           limits'[u] # NoRow =>
              /\ limits[u] # NoRow
              /\ limits'[u].currentMonthCount = limits[u].currentMonthCount,
           made[u] <= made'[u],
           Uncounted(u)' \subseteq Uncounted(u)
    PROVE  CountedWereMade(u)'
<1>1. Uncounted(u) \subseteq Call
  BY DEF Uncounted
<1>2. /\ Cardinality(Uncounted(u)') <= Cardinality(Uncounted(u))
      /\ Cardinality(Uncounted(u)') \in Nat /\ Cardinality(Uncounted(u)) \in Nat
      /\ Cardinality(Call) \in Nat
  BY <1>1, Smaller, CallsCounted
<1>3. SUFFICES ASSUME limits'[u] # NoRow
               PROVE  limits'[u].currentMonthCount + Cardinality(Uncounted(u)')
                         <= made'[u] + Cardinality(Call) - 1
  BY DEF CountedWereMade
<1>4. limits[u].currentMonthCount \in Nat /\ made[u] \in Nat /\ made'[u] \in Nat
  BY <1>3 DEF Base, TypeOK, Limits
<1>5. QED
  BY <1>2, <1>3, <1>4 DEF CountedWereMade

\* A period starts in a step of a call that has nothing left to count.
LEMMA PeriodStarts ==
    ASSUME Base, Base', NEW u \in User, limits'[u].currentMonthCount = 0, made'[u] = 0,
           NEW c \in Call, Uncounted(u)' \subseteq Uncounted(u) \ {c}
    PROVE  CountedWereMade(u)'
<1>1. Uncounted(u)' \subseteq Call /\ Uncounted(u)' # Call
  BY DEF Uncounted
<1>2. /\ Cardinality(Uncounted(u)') <= Cardinality(Call) - 1
      /\ Cardinality(Uncounted(u)') \in Nat /\ Cardinality(Call) \in Nat
  BY <1>1, CallsCounted
<1>3. QED
  BY <1>2 DEF CountedWereMade

LEMMA CountedCreateStep ==
    ASSUME Base, Base', NEW c \in Call, CreateNext(c),
           NEW u \in User, CountedWereMade(u)
    PROVE  CountedWereMade(u)'
<1>1. made[u] \in Nat
  BY DEF Base, TypeOK
<1>2. ASSUME UNCHANGED <<limits, made>>, Uncounted(u)' \subseteq Uncounted(u)
      PROVE  CountedWereMade(u)'
  BY <1>1, <1>2, NothingPending
<1>3. CASE \E v \in User : FetchRequestDependencies(c, v)
  <2>1. PICK v \in User : FetchRequestDependencies(c, v)
    BY <1>3
  <2> DEFINE k == [at |-> "validate", user |-> v, row |-> limits[v], next |-> NoRow]
  <2>2. call' = [call EXCEPT ![c] = k] /\ UNCHANGED <<limits, made>>
    BY <2>1 DEF FetchRequestDependencies, ReadRow, history
  <2>3. k.at # "increment"
    OBVIOUS
  <2> HIDE DEF k
  <2>4. Uncounted(u)' \subseteq Uncounted(u)
    BY <2>2, <2>3, UncountedMove
  <2>5. QED
    BY <1>2, <2>2, <2>4
<1>4. CASE ValidateLimit(c)
  <2>1. UNCHANGED <<limits, made>> /\ call[c].at = "validate"
    BY <1>4 DEF ValidateLimit, history
  <2>2. call[c] \in CallState
    BY <2>1, Busy DEF Idle, Base
  <2>3. PICK k : call' = [call EXCEPT ![c] = k] /\ k.at # "increment"
    <3>1. CASE Finish(c)
      BY <3>1, IdleCountsNothing DEF Finish
    <3>2. CASE Goto(c, "record")
      <4> DEFINE k == [call[c] EXCEPT !.at = "record"]
      <4>1. call' = [call EXCEPT ![c] = k] /\ k.at # "increment"
        BY <2>2, <3>2 DEF Goto, Base, TypeOK, CallState
      <4>2. QED
        BY <4>1
    <3> DEFINE next == [call[c].row EXCEPT !.resetDate = NextResetDate(now)]
    <3>3. CASE GotoWith(c, "reset", next)
      <4> DEFINE k == [call[c] EXCEPT !.at = "reset", !.next = next]
      <4>1. call' = [call EXCEPT ![c] = k] /\ k.at # "increment"
        BY <2>2, <3>3 DEF GotoWith, Base, TypeOK, CallState
      <4>2. QED
        BY <4>1
    <3>4. QED
      BY <1>4, <3>1, <3>2, <3>3 DEF ValidateLimit, Admit
  <2>4. QED
    BY <1>2, <2>1, <2>3, UncountedMove
<1>5. CASE ResetAndValidate(c)
  <2>1. call[c].at = "reset" /\ ResetRow(c)
    BY <1>5 DEF ResetAndValidate
  <2>2. call[c] \in CallState
    BY <2>1, Busy DEF Idle, Base
  <2>3. PICK v \in User : call[c].user = v
    BY <2>2 DEF CallState
  <2>4. /\ limits'[v].currentMonthCount = 0 /\ made'[v] = 0
        /\ \A w \in User \ {v} : limits'[w] = limits[w] /\ made'[w] = made[w]
    BY <2>1, <2>3, ResetKeeps
  <2>5. Uncounted(u)' \subseteq Uncounted(u) \ {c}
    <3>1. CASE Finish(c)
      BY <3>1, UncountedMove, IdleCountsNothing DEF Finish
    <3>2. CASE Goto(c, "record")
      <4> DEFINE k == [call[c] EXCEPT !.at = "record"]
      <4>1. call' = [call EXCEPT ![c] = k] /\ k.at # "increment"
        BY <2>2, <3>2 DEF Goto, Base, TypeOK, CallState
      <4> HIDE DEF k
      <4>2. QED
        BY <4>1, UncountedMove
    <3>3. QED
      BY <1>5, <3>1, <3>2 DEF ResetAndValidate, Admit
  <2>6. CASE u = v
    BY <2>4, <2>5, <2>6, PeriodStarts
  <2>7. CASE u # v
    BY <1>1, <2>4, <2>5, <2>7, NothingPending
  <2>8. QED
    BY <2>6, <2>7
<1>6. CASE \E s \in Celebrity : CreateRequestRecord(c, s)
  <2>1. /\ call[c].at = "record" /\ UNCHANGED limits
        /\ made' = [made EXCEPT ![call[c].user] = @ + 1]
        /\ Goto(c, "increment") \/ Finish(c)
    BY <1>6 DEF CreateRequestRecord
  <2>2. call[c] \in CallState
    BY <2>1, Busy DEF Idle, Base
  <2>3. /\ made'[u] = IF call[c].user = u THEN made[u] + 1 ELSE made[u]
        /\ made[u] <= made'[u]
    BY <1>1, <2>1 DEF Base, TypeOK
  <2>4. CASE Finish(c) \/ call[c].user # u
    <3>1. Uncounted(u)' \subseteq Uncounted(u)
      <4>1. CASE Finish(c)
        BY <4>1, UncountedMove, IdleCountsNothing DEF Finish
      <4>2. CASE Goto(c, "increment") /\ call[c].user # u
        <5> DEFINE k == [call[c] EXCEPT !.at = "increment"]
        <5>1. call' = [call EXCEPT ![c] = k] /\ k.user # u
          BY <2>2, <4>2 DEF Goto, Base, TypeOK, CallState
        <5> HIDE DEF k
        <5>2. QED
          BY <5>1, UncountedMove
      <4>3. QED
        BY <2>1, <2>4, <4>1, <4>2
    <3>2. QED
      BY <2>1, <2>3, <3>1, NothingPending
  <2>5. CASE Goto(c, "increment") /\ call[c].user = u
    <3>1. Uncounted(u)' \subseteq Uncounted(u) \cup {c}
      <4> DEFINE k == [call[c] EXCEPT !.at = "increment"]
      <4>1. call' = [call EXCEPT ![c] = k]
        BY <2>2, <2>5 DEF Goto, Base, TypeOK, CallState
      <4> HIDE DEF k
      <4>2. QED
        BY <4>1, UncountedMove
    <3>2. Uncounted(u) \subseteq Call /\ Uncounted(u) \cup {c} \subseteq Call
      BY DEF Uncounted
    <3>3. /\ Cardinality(Uncounted(u) \cup {c}) <= Cardinality(Uncounted(u)) + 1
          /\ Cardinality(Uncounted(u)) \in Nat /\ Cardinality(Call) \in Nat
      BY <3>2, CallsCounted, FS_AddElement
    <3>4. /\ Cardinality(Uncounted(u)') <= Cardinality(Uncounted(u) \cup {c})
          /\ Cardinality(Uncounted(u)') \in Nat
          /\ Cardinality(Uncounted(u) \cup {c}) \in Nat
      BY <3>1, <3>2, Smaller, CallsCounted
    <3>5. limits[u] # NoRow => limits[u].currentMonthCount \in Nat
      BY DEF Base, TypeOK, Limits
    <3>6. QED
      BY <1>1, <2>1, <2>3, <2>5, <3>3, <3>4, <3>5 DEF CountedWereMade
  <2>6. QED
    BY <2>1, <2>4, <2>5
<1>7. CASE IncrementRequestCount(c)
  <2>1. call[c].at = "increment" /\ Finish(c) /\ UNCHANGED made
    BY <1>7 DEF IncrementRequestCount, history
  <2>2. PICK v \in User : call[c].user = v
    BY <2>1, Busy DEF Idle, CallState, Base
  <2>3. /\ limits[v] \in Limits
        /\ limits'[v] = [limits[v] EXCEPT !.currentMonthCount = @ + 1]
        /\ \A w \in User \ {v} : limits'[w] = limits[w]
    BY <1>7, <2>2, IncrementKeeps
  <2>4. Uncounted(u)' \subseteq Uncounted(u) \ {c}
    BY <2>1, UncountedMove, IdleCountsNothing DEF Finish
  <2>5. CASE u # v
    BY <1>1, <2>1, <2>3, <2>4, <2>5, NothingPending
  <2>6. CASE u = v
    <3>1. c \in Uncounted(u) /\ Uncounted(u) \subseteq Call
      BY <2>1, <2>2, <2>6 DEF Uncounted
    <3>2. /\ Cardinality(Uncounted(u) \ {c}) = Cardinality(Uncounted(u)) - 1
          /\ Cardinality(Uncounted(u)) \in Nat /\ Cardinality(Call) \in Nat
      BY <3>1, FS_RemoveElement, CallsCounted
    <3>3. /\ Cardinality(Uncounted(u)') <= Cardinality(Uncounted(u) \ {c})
          /\ Cardinality(Uncounted(u)') \in Nat
      BY <2>4, <3>1, Smaller, CallsCounted
    <3>4. /\ limits'[u].currentMonthCount = limits[u].currentMonthCount + 1
          /\ limits[u].currentMonthCount \in Nat
          /\ limits[u] # NoRow
      BY <2>3, <2>6, LimitsAssumption DEF Limits
    <3>5. QED
      BY <1>1, <2>1, <3>2, <3>3, <3>4 DEF CountedWereMade
  <2>7. QED
    BY <2>5, <2>6
<1>8. QED
  BY <1>3, <1>4, <1>5, <1>6, <1>7 DEF CreateNext

LEMMA CountedLimitStep ==
    ASSUME Base, Base', NEW c \in Call, LimitNext(c),
           NEW u \in User, CountedWereMade(u)
    PROVE  CountedWereMade(u)'
<1>1. made[u] \in Nat
  BY DEF Base, TypeOK
<1>2. ASSUME NEW k, call' = [call EXCEPT ![c] = k], k.at # "increment"
      PROVE  Uncounted(u)' \subseteq Uncounted(u) \ {c}
  BY <1>2, UncountedMove
<1>3. ASSUME UNCHANGED <<limits, made>>, NEW k, call' = [call EXCEPT ![c] = k],
             k.at # "increment"
      PROVE  CountedWereMade(u)'
  <2>1. Uncounted(u)' \subseteq Uncounted(u)
    BY <1>2, <1>3
  <2>2. QED
    BY <1>1, <1>3, <2>1, NothingPending
<1>4. ASSUME NEW v \in User, NEW row \in Limits, row.currentMonthCount = 0,
             InsertRow(v, row), NEW k, call' = [call EXCEPT ![c] = k],
             k.at # "increment"
      PROVE  CountedWereMade(u)'
  <2>1. /\ limits'[v] = row /\ made'[v] = 0
        /\ \A w \in User \ {v} : limits'[w] = limits[w] /\ made'[w] = made[w]
    BY <1>4, InsertKeeps DEF Base
  <2>2. Uncounted(u)' \subseteq Uncounted(u) \ {c}
    BY <1>2, <1>4
  <2>3. CASE u = v
    BY <1>4, <2>1, <2>2, <2>3, PeriodStarts
  <2>4. CASE u # v
    BY <1>1, <2>1, <2>2, <2>4, NothingPending
  <2>5. QED
    BY <2>3, <2>4
<1>5. CASE \E v \in User : GetRequestLimit(c, v)
  <2>1. PICK v \in User : GetRequestLimit(c, v)
    BY <1>5
  <2> DEFINE k == [at |-> "check", user |-> v, row |-> limits[v], next |-> NoRow]
  <2>2. call' = [call EXCEPT ![c] = k] /\ UNCHANGED <<limits, made>>
    BY <2>1 DEF GetRequestLimit, ReadRow, history
  <2>3. k.at # "increment"
    OBVIOUS
  <2> HIDE DEF k
  <2>4. QED
    BY <1>3, <2>2, <2>3
<1>6. CASE \E v \in User, limit \in LimitValues, active \in BOOLEAN :
              UpdateRequestLimit(c, v, limit, active)
  <2>1. PICK v \in User, limit \in LimitValues, active \in BOOLEAN :
           UpdateRequestLimit(c, v, limit, active)
    BY <1>6
  <2> DEFINE k == [at |-> "write", user |-> v, row |-> limits[v],
                   next |-> FreshRow(limit, active, NextResetDate(now))]
  <2>2. call' = [call EXCEPT ![c] = k] /\ UNCHANGED <<limits, made>>
    BY <2>1 DEF UpdateRequestLimit, history
  <2>3. k.at # "increment"
    OBVIOUS
  <2> HIDE DEF k
  <2>4. QED
    BY <1>3, <2>2, <2>3
<1>7. CASE CheckRow(c)
  <2>1. call[c].at = "check" /\ UNCHANGED <<limits, made>>
    BY <1>7 DEF CheckRow, history
  <2>2. call[c] \in CallState
    BY <2>1, Busy DEF Idle, Base
  <2>3. CASE Finish(c)
    BY <1>3, <2>1, <2>3, IdleCountsNothing DEF Finish
  <2>4. ASSUME NEW step \in {"insert", "refresh"}, NEW next, GotoWith(c, step, next)
        PROVE  CountedWereMade(u)'
    <3> DEFINE k == [call[c] EXCEPT !.at = step, !.next = next]
    <3>1. call' = [call EXCEPT ![c] = k] /\ k.at # "increment"
      BY <2>2, <2>4 DEF GotoWith, Base, TypeOK, CallState
    <3> HIDE DEF k
    <3>2. QED
      BY <1>3, <2>1, <3>1
  <2>5. QED
    BY <1>7, <2>3, <2>4 DEF CheckRow
<1>8. CASE CreateDefaultRow(c)
  <2>1. call[c].at = "insert"
    BY <1>8 DEF CreateDefaultRow
  <2>2. call[c] \in CallState
    BY <2>1, Busy DEF Idle, Base
  <2>3. PICK v \in User : call[c].user = v
    BY <2>2 DEF CallState
  <2>4. call[c].next \in Limits /\ call[c].next.currentMonthCount = 0
    BY <2>1, <2>2 DEF Base, CallInv, CallState
  <2>5. InsertRow(v, call[c].next)
    BY <1>8, <2>3 DEF CreateDefaultRow
  <2> DEFINE k == [call[c] EXCEPT !.at = "check", !.row = call[c].next, !.next = NoRow]
  <2>6. call' = [call EXCEPT ![c] = k] /\ k.at # "increment"
    BY <1>8, <2>2 DEF CreateDefaultRow, Base, TypeOK, CallState
  <2> HIDE DEF k
  <2>7. QED
    BY <1>4, <2>4, <2>5, <2>6
<1>9. CASE RefreshRow(c)
  <2>1. call[c].at = "refresh" /\ ResetRow(c) /\ Finish(c)
    BY <1>9 DEF RefreshRow
  <2>2. PICK v \in User : call[c].user = v
    BY <2>1, Busy DEF Idle, CallState, Base
  <2>3. /\ limits'[v].currentMonthCount = 0 /\ made'[v] = 0
        /\ \A w \in User \ {v} : limits'[w] = limits[w] /\ made'[w] = made[w]
    BY <2>1, <2>2, ResetKeeps
  <2>4. Uncounted(u)' \subseteq Uncounted(u) \ {c}
    BY <1>2, <2>1, IdleCountsNothing DEF Finish
  <2>5. CASE u = v
    BY <2>3, <2>4, <2>5, PeriodStarts
  <2>6. CASE u # v
    BY <1>1, <2>3, <2>4, <2>6, NothingPending
  <2>7. QED
    BY <2>5, <2>6
<1>10. CASE WriteLimit(c)
  <2>1. call[c].at = "write" /\ Finish(c)
    BY <1>10 DEF WriteLimit
  <2>2. call[c] \in CallState
    BY <2>1, Busy DEF Idle, Base
  <2>3. PICK v \in User : call[c].user = v
    BY <2>2 DEF CallState
  <2>4. CASE InsertRow(v, call[c].next)
    <3>1. call[c].next \in Limits /\ call[c].next.currentMonthCount = 0
      BY <2>1, <2>2 DEF Base, CallInv, CallState
    <3>2. QED
      BY <1>4, <2>1, <2>4, <3>1, IdleCountsNothing DEF Finish
  <2>5. CASE SettingsWritten(c, v)
    <3>1. /\ limits[v] \in Limits
          /\ limits'[v].currentMonthCount = limits[v].currentMonthCount
          /\ \A w \in User \ {v} : limits'[w] = limits[w]
      BY <2>1, <2>3, <2>5, SettingsKeep
    <3>2. made' = made /\ limits[v] # NoRow
      BY <2>5, <3>1, LimitsAssumption DEF SettingsWritten
    <3>3. Uncounted(u)' \subseteq Uncounted(u)
      BY <1>2, <2>1, IdleCountsNothing DEF Finish
    <3>4. QED
      BY <1>1, <3>1, <3>2, <3>3, NothingPending
  <2>6. QED
    BY <1>10, <2>3, <2>4, <2>5 DEF WriteLimit, SettingsWritten
<1>11. QED
  BY <1>5, <1>6, <1>7, <1>8, <1>9, <1>10 DEF LimitNext

LEMMA CountedStep ==
    ASSUME Base, [Next]_vars, NEW u \in User, CountedWereMade(u)
    PROVE  CountedWereMade(u)'
<1>1. Base' /\ made[u] \in Nat
  BY BaseStep DEF Base, TypeOK
<1>2. CASE \E c \in Call : CreateNext(c) \/ LimitNext(c)
  BY <1>1, <1>2, CountedCreateStep, CountedLimitStep
<1>3. CASE \E c \in Call : FailCall(c)
  <2>1. PICK c \in Call : FailCall(c)
    BY <1>3
  <2>2. call' = [call EXCEPT ![c] = Idle] /\ UNCHANGED <<limits, made>>
    BY <2>1 DEF FailCall, Finish, history
  <2>3. Uncounted(u)' \subseteq Uncounted(u)
    BY <2>2, UncountedMove, IdleCountsNothing
  <2>4. QED
    BY <1>1, <2>2, <2>3, NothingPending
<1>4. CASE \E v \in User : CreateOnboardingRow(v)
  <2>1. PICK v \in User :
           /\ InsertRow(v, FreshRow(OnboardingLimit, TRUE, now + MonthLength))
           /\ UNCHANGED <<now, call>>
    BY <1>4 DEF CreateOnboardingRow
  <2> DEFINE row == FreshRow(OnboardingLimit, TRUE, now + MonthLength)
  <2>2. row \in Limits /\ row.currentMonthCount = 0
    <3>1. now + MonthLength \in Nat
      BY LimitsAssumption DEF Base, TypeOK
    <3>2. QED
      BY <3>1, FreshRowType, LimitsAssumption DEF FreshRow
  <2>3. /\ limits[v] = NoRow /\ limits'[v] = row /\ made'[v] = 0
        /\ \A w \in User \ {v} : limits'[w] = limits[w] /\ made'[w] = made[w]
    BY <2>1, <2>2, InsertKeeps DEF Base
  <2>4. Uncounted(u)' \subseteq Uncounted(u)
    BY <2>1 DEF Uncounted
  <2>5. CASE u = v
    <3>1. Uncounted(u) = {}
      BY <2>3, <2>5 DEF Uncounted, Base, CallInv
    <3>2. PICK c \in Call : TRUE
      BY LimitsAssumption
    <3>3. Uncounted(u)' \subseteq Uncounted(u) \ {c}
      BY <2>4, <3>1
    <3>4. QED
      BY <1>1, <2>2, <2>3, <2>5, <3>3, PeriodStarts
  <2>6. CASE u # v
    BY <1>1, <2>3, <2>4, <2>6, NothingPending
  <2>7. QED
    BY <2>5, <2>6
<1>5. CASE Tick \/ UNCHANGED vars
  <2>1. UNCHANGED <<limits, call, made>>
    BY <1>5 DEF Tick, vars, history
  <2>2. Uncounted(u)' \subseteq Uncounted(u)
    BY <2>1 DEF Uncounted
  <2>3. QED
    BY <1>1, <2>1, <2>2, NothingPending
<1>6. QED
  BY <1>2, <1>3, <1>4, <1>5 DEF Next

\* A user is charged with no more requests than she made since her row was last
\* reset, but for those that were in progress then.
THEOREM CountIsEarned == Spec => []CountNotInflated
<1> DEFINE Inv == Base /\ \A u \in User : CountedWereMade(u)
<1>1. Init => Inv
  BY DEF Init, Base, TypeOK, CallInv, Idle, CountedWereMade
<1>2. Inv /\ [Next]_vars => Inv'
  BY BaseStep, CountedStep
<1>3. Inv => CountNotInflated
  <2>1. ASSUME Inv, NEW u \in User, limits[u] # NoRow
        PROVE  limits[u].currentMonthCount <= made[u] + Cardinality(Call) - 1
    <3>1. Uncounted(u) \subseteq Call
      BY DEF Uncounted
    <3>2. Cardinality(Uncounted(u)) \in Nat /\ Cardinality(Call) \in Nat
      BY <3>1, CallsCounted
    <3>3. limits[u].currentMonthCount \in Nat /\ made[u] \in Nat
      BY <2>1 DEF Base, TypeOK, Limits
    <3>4. QED
      BY <2>1, <3>2, <3>3 DEF CountedWereMade
  <2>2. QED
    BY <2>1 DEF CountNotInflated
<1>4. QED
  BY <1>1, <1>2, <1>3, PTL DEF Spec
=============================================================================
