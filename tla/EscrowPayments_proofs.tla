----------------------- MODULE EscrowPayments_proofs -----------------------
(***************************************************************************)
(* Theorems about EscrowPayments, for any number of requests, rows,         *)
(* handlers and celebrities.                                                *)
(***************************************************************************)
EXTENDS EscrowPayments, FiniteSetTheorems, TLAPS

-----------------------------------------------------------------------------
(* Rows *)

\* A transaction is a record and so is not the absence of a row.
LEMMA RowIsTransaction ==
    ASSUME StoreTypeOK, NEW t \in TxId, Row(t)
    PROVE  transactions[t] \in Transaction
BY DEF StoreTypeOK, Row

\* What a step does to the table: rows stay, with their references, and what it
\* writes has the type of a row.
Stored ==
    /\ transactions' \in [TxId -> Transaction \cup {NoRow}]
    /\ \A t \in TxId : Row(t) => /\ Row(t)'
                                 /\ transactions'[t].reference = transactions[t].reference

\* transaction.create keeps the rows there are.
LEMMA InsertStores ==
    ASSUME StoreTypeOK, NEW row \in Transaction, InsertRow(row)
    PROVE  Stored
<1>1. PICK t \in TxId : ~Row(t) /\ transactions' = [transactions EXCEPT ![t] = row]
  BY DEF InsertRow
<1>2. transactions' \in [TxId -> Transaction \cup {NoRow}]
  BY <1>1 DEF StoreTypeOK
<1>3. ASSUME NEW u \in TxId, Row(u)
      PROVE  Row(u)' /\ transactions'[u].reference = transactions[u].reference
  BY <1>1, <1>3 DEF StoreTypeOK, Row
<1>4. QED
  BY <1>2, <1>3 DEF Stored

\* Writing a payment status into an existing row.
LEMMA StatusWriteStores ==
    ASSUME StoreTypeOK, NEW t \in TxId, Row(t), NEW s \in TransactionStatus,
           transactions' = [transactions EXCEPT ![t].status = s]
    PROVE  Stored
<1>1. transactions[t] \in Transaction
  BY RowIsTransaction
<1>2. [transactions[t] EXCEPT !.status = s] \in Transaction
  BY <1>1 DEF Transaction
<1>3. transactions' \in [TxId -> Transaction \cup {NoRow}]
  BY <1>2 DEF StoreTypeOK
<1>4. ASSUME NEW u \in TxId, Row(u)
      PROVE  Row(u)' /\ transactions'[u].reference = transactions[u].reference
  <2>1. CASE u = t
    <3>1. transactions'[u] = [transactions[t] EXCEPT !.status = s]
      BY <2>1 DEF StoreTypeOK
    <3>2. QED
      BY <1>1, <1>2, <2>1, <3>1, StoreAssumption DEF Row, Transaction
  <2>2. CASE u # t
    BY <1>4, <2>2 DEF StoreTypeOK, Row
  <2>3. QED
    BY <2>1, <2>2
<1>5. QED
  BY <1>3, <1>4 DEF Stored

\* Writing an escrow status into an existing row.
LEMMA EscrowWriteStores ==
    ASSUME StoreTypeOK, NEW t \in TxId, Row(t), NEW s \in EscrowStatus,
           transactions' = [transactions EXCEPT ![t].escrowStatus = s]
    PROVE  Stored
<1>1. transactions[t] \in Transaction
  BY RowIsTransaction
<1>2. [transactions[t] EXCEPT !.escrowStatus = s] \in Transaction
  BY <1>1 DEF Transaction
<1>3. transactions' \in [TxId -> Transaction \cup {NoRow}]
  BY <1>2 DEF StoreTypeOK
<1>4. ASSUME NEW u \in TxId, Row(u)
      PROVE  Row(u)' /\ transactions'[u].reference = transactions[u].reference
  <2>1. CASE u = t
    <3>1. transactions'[u] = [transactions[t] EXCEPT !.escrowStatus = s]
      BY <2>1 DEF StoreTypeOK
    <3>2. QED
      BY <1>1, <1>2, <2>1, <3>1, StoreAssumption DEF Row, Transaction
  <2>2. CASE u # t
    BY <1>4, <2>2 DEF StoreTypeOK, Row
  <2>3. QED
    BY <2>1, <2>2
<1>5. QED
  BY <1>3, <1>4 DEF Stored

\* onDelete: SetNull keeps the rows of a deleted request, with their references.
LEMMA DeleteStores ==
    ASSUME StoreTypeOK, NEW r \in Request, DeleteRequest(r)
    PROVE  Stored
<1> DEFINE Unlinked(t) == [transactions[t] EXCEPT !.request = NoRequest]
<1>1. transactions' = [t \in TxId |-> IF t \in LinkedRows(r) THEN Unlinked(t)
                                                           ELSE transactions[t]]
  BY DEF DeleteRequest
<1>2. ASSUME NEW t \in TxId, Row(t)
      PROVE  /\ transactions[t] \in Transaction
             /\ Unlinked(t) \in Transaction
             /\ Unlinked(t) # NoRow
             /\ Unlinked(t).reference = transactions[t].reference
  <2>1. transactions[t] \in Transaction
    BY <1>2, RowIsTransaction
  <2>2. QED
    BY <2>1, StoreAssumption DEF Transaction
<1>3. \A t \in TxId : t \in LinkedRows(r) => Row(t)
  BY DEF LinkedRows
<1> HIDE DEF Unlinked
<1>4. transactions' \in [TxId -> Transaction \cup {NoRow}]
  BY <1>1, <1>2, <1>3 DEF StoreTypeOK
<1>5. ASSUME NEW t \in TxId, Row(t)
      PROVE  Row(t)' /\ transactions'[t].reference = transactions[t].reference
  BY <1>1, <1>2, <1>5 DEF Row
<1>6. QED
  BY <1>4, <1>5 DEF Stored

\* Every row a handler or a job creates has the type of a row.
LEMMA CreatedRowType ==
    ASSUME IntakeTypeOK
    PROVE  /\ \A h \in Handler, e \in BOOLEAN : PaymentRow(h, e) \in Transaction
           /\ \A r \in Request : TimeoutRow(r) \in Transaction
BY DEF IntakeTypeOK, Call, PaymentRow, TimeoutRow, Transaction, EscrowStatus,
       TransactionStatus

\* No step removes a row or changes the reference it carries.
LEMMA NextStores ==
    ASSUME TypeOK, HandlerInv, [Next]_vars
    PROVE  Stored
<1> USE DEF TypeOK
<1>1. ASSUME UNCHANGED transactions
      PROVE  Stored
  BY <1>1 DEF Stored, StoreTypeOK, Row
<1>2. CASE LifecycleNext
  <2>1. ASSUME NEW r \in Request, DeleteRequest(r)
        PROVE  Stored
    BY <2>1, DeleteStores
  <2>2. QED
    BY <1>1, <1>2, <2>1
       DEF LifecycleNext, CreateRequest, ChangeRequestStatus, StartVideoUpload,
           FinishVideoUpload, FailVideoUpload, storeVars
<1>3. CASE IntakeNext
  <2>1. ASSUME NEW h \in Handler, UpdatePaymentRecord(h)
        PROVE  Stored
    <3>1. handler[h].record \in RowsByReference(handler[h].request)
      BY <2>1 DEF UpdatePaymentRecord, HandlerInv, CallInv
    <3>2. Row(handler[h].record) /\ handler[h].record \in TxId
      BY <3>1 DEF RowsByReference
    <3>3. handler[h].status \in TransactionStatus
      BY DEF IntakeTypeOK, Call
    <3>4. QED
      BY <2>1, <3>2, <3>3, StatusWriteStores DEF UpdatePaymentRecord
  <2>2. ASSUME NEW h \in Handler, CreatePaymentRecord(h)
        PROVE  Stored
    BY <2>2, CreatedRowType, InsertStores DEF CreatePaymentRecord
  <2>3. ASSUME NEW h \in Handler, CreateVerifiedRecord(h)
        PROVE  Stored
    BY <2>3, CreatedRowType, InsertStores DEF CreateVerifiedRecord
  <2>4. QED
    BY <1>1, <1>3, <2>1, <2>2, <2>3
       DEF IntakeNext, ChargeSucceeds, ChargeFails, ReceiveWebhook, ReceiveVerify,
           HandlerStep, MarkPaid, FindPaymentRecord, HandlerFails, storeVars
<1>4. CASE JobNext
  <2>1. ASSUME NEW w \in Releaser, NEW r \in Request, ReleaseEscrow(w, r)
        PROVE  Stored
    <3>1. PICK t \in RowsByReference(r) : Release(r, t)
      BY <2>1 DEF ReleaseEscrow
    <3>2. QED
      BY <3>1, EscrowWriteStores DEF Release, RowsByReference, EscrowStatus
  <2>2. ASSUME NEW r \in Request, RecordTimeout(r)
        PROVE  Stored
    BY <2>2, CreatedRowType, InsertStores DEF RecordTimeout
  <2>3. QED
    BY <1>1, <1>4, <2>1, <2>2
       DEF JobNext, StartReleasePass, FailRelease, StartTimeoutPass, DeclineTimedOut,
           FailTimeoutPass, storeVars
<1>5. CASE Environment
  BY <1>1, <1>5 DEF Environment, CreateWallet
<1>6. CASE Restart
  BY <1>1, <1>6 DEF Restart, storeVars
<1>7. CASE UNCHANGED vars
  BY <1>1, <1>7 DEF vars, storeVars
<1>8. QED
  BY <1>2, <1>3, <1>4, <1>5, <1>6, <1>7 DEF Next
-----------------------------------------------------------------------------
(* Types and handlers *)

\* Every step keeps every variable in its type.
LEMMA TypeStep ==
    ASSUME TypeOK, HandlerInv, [Next]_vars
    PROVE  TypeOK'
<1> USE DEF TypeOK
<1>1. transactions' \in [TxId -> Transaction \cup {NoRow}]
  BY NextStores DEF Stored
<1>2. StoreTypeOK'
  <2> USE DEF StoreTypeOK
  <2>1. CASE LifecycleNext
    BY <1>1, <2>1
       DEF LifecycleNext, CreateRequest, ChangeRequestStatus, StartVideoUpload,
           FinishVideoUpload, FailVideoUpload, DeleteRequest, storeVars, RequestStatus
  <2>2. CASE IntakeNext
    BY <1>1, <2>2
       DEF IntakeNext, ChargeSucceeds, ChargeFails, ReceiveWebhook, ReceiveVerify,
           HandlerStep, MarkPaid, FindPaymentRecord, UpdatePaymentRecord,
           CreatePaymentRecord, CreateVerifiedRecord, HandlerFails, storeVars
  <2>3. CASE JobNext
    BY <1>1, <2>3
       DEF JobNext, StartReleasePass, ReleaseEscrow, Release, FailRelease,
           StartTimeoutPass, RecordTimeout, DeclineTimedOut, FailTimeoutPass,
           storeVars, RequestStatus
  <2>4. CASE Environment
    BY <1>1, <2>4 DEF Environment, CreateWallet
  <2>5. CASE Restart
    BY <2>5 DEF Restart, storeVars
  <2>6. CASE UNCHANGED vars
    BY <2>6 DEF vars, storeVars
  <2>7. QED
    BY <2>1, <2>2, <2>3, <2>4, <2>5, <2>6 DEF Next
<1>3. LifecycleTypeOK'
  <2>1. CASE LifecycleNext
    BY <2>1 DEF LifecycleTypeOK, LifecycleNext, CreateRequest, ChangeRequestStatus,
                StartVideoUpload, FinishVideoUpload, FailVideoUpload, DeleteRequest,
                lifecycleVars
  <2>2. CASE Restart
    BY <2>2 DEF LifecycleTypeOK, Restart
  <2>3. CASE UNCHANGED lifecycleVars
    BY <2>3 DEF LifecycleTypeOK, lifecycleVars
  <2>4. QED
    BY <2>1, <2>2, <2>3 DEF Next, Environment, vars, lifecycleVars
<1>4. IntakeTypeOK'
  <2> USE DEF IntakeTypeOK
  <2>1. CASE IntakeNext
    <3>1. ASSUME NEW r \in Request, ChargeSucceeds(r) \/ ChargeFails(r)
          PROVE  IntakeTypeOK'
      <4>1. charge' \in [Request -> Charge] /\ handler' = handler
        BY <3>1 DEF ChargeSucceeds, ChargeFails, Charge
      <4>2. PICK o \in Outcome : notification' \in {notification, [notification EXCEPT ![r][o] = "sent"]}
        BY <3>1 DEF ChargeSucceeds, ChargeFails, Outcome
      <4>3. [notification EXCEPT ![r][o] = "sent"]
               \in [Request -> [Outcome -> {"none", "sent", "acked"}]]
        OBVIOUS
      <4>4. QED
        BY <4>1, <4>2, <4>3
    <3>2. ASSUME NEW r, NEW o \in Outcome
          PROVE  Acknowledge(r, o) \in [Request -> [Outcome -> {"none", "sent", "acked"}]]
      BY DEF Acknowledge
    <3>3. ASSUME NEW h \in Handler, handler' = Finish(h)
          PROVE  handler' \in [Handler -> Call]
      BY <3>3 DEF Finish, Idle, Call, TransactionStatus
    <3>4. ASSUME NEW h \in Handler, NEW r \in Request, NEW o \in Outcome,
                 ReceiveWebhook(h, r, o)
          PROVE  IntakeTypeOK'
      <4> DEFINE call == [Idle EXCEPT
                            !.op = o, !.request = r,
                            !.step = IF o = "success" THEN "markPaid" ELSE "findRecord",
                            !.status = IF o = "success" THEN "COMPLETED" ELSE "FAILED"]
      <4>1. call \in Call
        BY DEF Idle, Call, TransactionStatus
      <4> HIDE DEF call
      <4>2. CASE Exists(r)
        <5>1. handler' = [handler EXCEPT ![h] = call] /\ UNCHANGED <<charge, notification>>
          BY <3>4, <4>2 DEF ReceiveWebhook, call
        <5>2. QED
          BY <4>1, <5>1
      <4>3. CASE ~Exists(r)
        BY <3>2, <3>4, <4>3 DEF ReceiveWebhook
      <4>4. QED
        BY <4>2, <4>3
    <3>5. ASSUME NEW h \in Handler, NEW r \in Request, ReceiveVerify(h, r)
          PROVE  IntakeTypeOK'
      <4>1. MapFlutterwaveStatus(charge[r]) \in TransactionStatus
        BY DEF MapFlutterwaveStatus, Charge, TransactionStatus
      <4>2. QED
        BY <3>5, <4>1 DEF ReceiveVerify, Idle, Call
    <3>6. ASSUME NEW h \in Handler, MarkPaid(h)
          PROVE  IntakeTypeOK'
      BY <3>6 DEF MarkPaid, Goto, Call
    <3>7. ASSUME NEW h \in Handler, FindPaymentRecord(h)
          PROVE  IntakeTypeOK'
      <4>1. PICK t \in TxId \cup {NoRow} :
               handler' = [handler EXCEPT ![h].step = "writeRecord", ![h].record = t]
        BY <3>7 DEF FindPaymentRecord, RowsByReference
      <4>2. [handler[h] EXCEPT !.step = "writeRecord", !.record = t] \in Call
        BY DEF Call
      <4>3. handler' \in [Handler -> Call]
        BY <4>1, <4>2
      <4>4. QED
        BY <3>7, <4>3 DEF FindPaymentRecord
    <3>8. ASSUME NEW h \in Handler,
                 UpdatePaymentRecord(h) \/ CreatePaymentRecord(h)
                   \/ CreateVerifiedRecord(h) \/ HandlerFails(h)
          PROVE  IntakeTypeOK'
      <4>1. handler[h].op # "idle" => handler[h].op \in Outcome \cup {"verify"}
        BY DEF Call
      <4>2. handler[h] # Idle => handler[h].op # "idle"
        BY DEF HandlerInv, CallInv
      <4>3. handler[h].step \in {"writeRecord", "createVerified"} => handler[h] # Idle
        BY DEF Idle
      <4>4. notification' \in {notification, Respond(h), RespondToError(h)}
        BY <3>8
           DEF UpdatePaymentRecord, CreatePaymentRecord, CreateVerifiedRecord,
               HandlerFails
      <4>5. handler[h] # Idle
        BY <3>8, <4>3
           DEF UpdatePaymentRecord, CreatePaymentRecord, CreateVerifiedRecord,
               HandlerFails
      <4>6. notification' \in [Request -> [Outcome -> {"none", "sent", "acked"}]]
        BY <3>2, <4>1, <4>2, <4>4, <4>5 DEF Respond, RespondToError
      <4>7. QED
        BY <3>3, <3>8, <4>6
           DEF UpdatePaymentRecord, CreatePaymentRecord, CreateVerifiedRecord,
               HandlerFails
    <3>9. QED
      BY <2>1, <3>1, <3>4, <3>5, <3>6, <3>7, <3>8 DEF IntakeNext, HandlerStep
  <2>2. CASE Restart
    BY <2>2 DEF Restart, Idle, Call, TransactionStatus
  <2>3. CASE UNCHANGED intakeVars
    BY <2>3 DEF intakeVars
  <2>4. QED
    BY <2>1, <2>2, <2>3 DEF Next, Environment, vars
<1>5. JobTypeOK'
  <2> USE DEF JobTypeOK
  <2>1. CASE JobNext
    BY <2>1
       DEF JobNext, StartReleasePass, ReleaseEscrow, FailRelease, StartTimeoutPass,
           RecordTimeout, DeclineTimedOut, FailTimeoutPass, CompletedWithPendingEscrow,
           UnpaidWithoutEscrow
  <2>2. CASE Restart
    BY <2>2 DEF Restart, StopPasses
  <2>3. CASE UNCHANGED jobVars
    BY <2>3 DEF jobVars
  <2>4. QED
    BY <2>1, <2>2, <2>3 DEF Next, Environment, vars
<1>6. QED
  BY <1>2, <1>3, <1>4, <1>5

\* A row found under a reference is found under it ever after.
LEMMA RowsKept ==
    ASSUME Stored
    PROVE  \A r \in Request : \A t \in RowsByReference(r) : (t \in RowsByReference(r))'
BY DEF Stored, RowsByReference

\* The provider of a request is chosen once, and an event once sent stays sent or
\* acknowledged.
LEMMA EventsKept ==
    ASSUME TypeOK, HandlerInv, [Next]_vars
    PROVE  /\ channel' = channel
           /\ \A r \in Request, o \in Outcome :
                 notification[r][o] # "none" => notification'[r][o] # "none"
<1> USE DEF TypeOK
<1>1. channel' = channel
  BY DEF Next, LifecycleNext, CreateRequest, ChangeRequestStatus, StartVideoUpload,
         FinishVideoUpload, FailVideoUpload, DeleteRequest, IntakeNext, ChargeSucceeds,
         ChargeFails, ReceiveWebhook, ReceiveVerify, HandlerStep, MarkPaid,
         FindPaymentRecord, UpdatePaymentRecord, CreatePaymentRecord,
         CreateVerifiedRecord, HandlerFails, JobNext, StartReleasePass, ReleaseEscrow,
         FailRelease, StartTimeoutPass, RecordTimeout, DeclineTimedOut,
         FailTimeoutPass, Environment, CreateWallet, Restart, vars, storeVars
<1>2. ASSUME NEW r \in Request, NEW o \in Outcome, notification[r][o] # "none"
      PROVE  notification'[r][o] # "none"
  <2>1. ASSUME NEW q, NEW p, NEW e \in {"sent", "acked"},
               notification' = [notification EXCEPT ![q][p] = e]
        PROVE  notification'[r][o] # "none"
    BY <1>2, <2>1 DEF IntakeTypeOK
  <2>2. ASSUME notification' = notification
        PROVE  notification'[r][o] # "none"
    BY <1>2, <2>2
  <2>3. CASE IntakeNext
    BY <2>1, <2>2, <2>3
       DEF IntakeNext, ChargeSucceeds, ChargeFails, ReceiveWebhook, ReceiveVerify,
           HandlerStep, MarkPaid, FindPaymentRecord, UpdatePaymentRecord,
           CreatePaymentRecord, CreateVerifiedRecord, HandlerFails, Respond,
           RespondToError, Acknowledge
  <2>4. CASE UNCHANGED notification
    BY <2>2, <2>4
  <2>5. QED
    BY <2>3, <2>4 DEF Next, Environment, Restart, vars, intakeVars
<1>3. QED
  BY <1>1, <1>2

\* What is known of a call stays true while the call is not touched.
LEMMA CallKept ==
    ASSUME TypeOK, HandlerInv, [Next]_vars, NEW c \in Call, CallInv(c)
    PROVE  CallInv(c)'
<1>1. c.record # NoRow => (c.record \in RowsByReference(c.request))'
  <2>1. c.op # "idle" => c.request \in Request
    BY DEF CallInv
  <2>2. c.op = "idle" => c.record = NoRow
    BY DEF CallInv, Idle
  <2>3. QED
    BY <2>1, <2>2, NextStores, RowsKept DEF CallInv
<1>2. c.op = "success" => notification'[c.request]["success"] # "none"
  BY EventsKept DEF CallInv, Outcome
<1>3. channel' = channel
  BY EventsKept
<1>4. QED
  BY <1>1, <1>2, <1>3 DEF CallInv

\* Every step keeps what is known of the calls in progress.
LEMMA HandlerKept ==
    ASSUME TypeOK, HandlerInv, [Next]_vars
    PROVE  HandlerInv'
<1> USE DEF TypeOK
<1> SUFFICES ASSUME NEW k \in Handler
             PROVE  CallInv(handler[k])'
  BY DEF HandlerInv, CallInv
<1>1. CallInv(handler[k]) /\ handler[k] \in Call
  BY DEF HandlerInv, IntakeTypeOK
<1>2. ASSUME handler'[k] = handler[k]
      PROVE  CallInv(handler[k])'
  <2>1. PICK c \in Call : c = handler[k] /\ c = handler'[k]
    BY <1>1, <1>2
  <2>2. CallInv(c)'
    BY <1>1, <2>1, CallKept
  <2>3. QED
    BY <2>1, <2>2 DEF CallInv
<1>3. ASSUME handler'[k] = Idle
      PROVE  CallInv(handler[k])'
  BY <1>3 DEF CallInv, Idle, Outcome
<1>4. CASE IntakeNext
  <2>1. ASSUME NEW h \in Handler, NEW r \in Request, NEW o \in Outcome,
               ReceiveWebhook(h, r, o)
        PROVE  CallInv(handler[k])'
    <3>1. CASE Exists(r) /\ h = k
      <4> DEFINE call == [Idle EXCEPT
                            !.op = o, !.request = r,
                            !.step = IF o = "success" THEN "markPaid" ELSE "findRecord",
                            !.status = IF o = "success" THEN "COMPLETED" ELSE "FAILED"]
      <4>1. handler'[k] = call
        BY <2>1, <3>1 DEF ReceiveWebhook, IntakeTypeOK
      <4>2. /\ handler'[k].op = o
            /\ handler'[k].request = r
            /\ handler'[k].record = NoRow
            /\ handler'[k].step \in {"markPaid", "findRecord"}
            /\ o = "failed" => handler'[k].step = "findRecord"
            /\ handler'[k].status \in {"COMPLETED", "FAILED"}
        BY <4>1 DEF Idle, Outcome
      <4>3. notification'[r][o] # "none"
        BY <2>1, <3>1 DEF ReceiveWebhook
      <4>4. QED
        BY <4>2, <4>3 DEF CallInv, Outcome
    <3>2. CASE Exists(r) /\ h # k
      BY <1>2, <2>1, <3>2 DEF ReceiveWebhook, IntakeTypeOK
    <3>3. CASE ~Exists(r)
      BY <1>2, <2>1, <3>3 DEF ReceiveWebhook
    <3>4. QED
      BY <3>1, <3>2, <3>3
  <2>2. ASSUME NEW h \in Handler, NEW r \in Request, ReceiveVerify(h, r)
        PROVE  CallInv(handler[k])'
    <3>1. CASE h = k
      <4>1. channel'[r] = "FLUTTERWAVE"
        BY <2>2 DEF ReceiveVerify, KnownToFlutterwave, storeVars
      <4>2. QED
        BY <2>2, <3>1, <4>1 DEF ReceiveVerify, CallInv, Idle, Outcome, IntakeTypeOK
    <3>2. CASE h # k
      BY <1>2, <2>2, <3>2 DEF ReceiveVerify, IntakeTypeOK
    <3>3. QED
      BY <3>1, <3>2
  <2>3. ASSUME NEW h \in Handler, MarkPaid(h)
        PROVE  CallInv(handler[k])'
    <3>1. CASE h = k
      <4>1. /\ handler'[k] = [handler[k] EXCEPT
                 !.step = IF handler[k].op = "verify" THEN "createVerified"
                                                      ELSE "findRecord"]
            /\ handler[k].step = "markPaid"
        BY <2>3, <3>1 DEF MarkPaid, Goto, IntakeTypeOK
      <4>2. PICK c \in Call : c = handler[k]
        BY <1>1
      <4>3. CallInv(c) /\ CallInv(c)'
        BY <1>1, <4>2, CallKept
      <4>4. QED
        BY <4>1, <4>2, <4>3 DEF CallInv, Call, Idle, Outcome
    <3>2. CASE h # k
      BY <1>2, <2>3, <3>2 DEF MarkPaid, Goto, IntakeTypeOK
    <3>3. QED
      BY <3>1, <3>2
  <2>4. ASSUME NEW h \in Handler, FindPaymentRecord(h)
        PROVE  CallInv(handler[k])'
    <3>1. PICK t \in RowsByReference(handler[h].request) \cup {NoRow} :
             handler' = [handler EXCEPT ![h].step = "writeRecord", ![h].record = t]
      BY <2>4 DEF FindPaymentRecord
    <3>2. CASE h = k
      <4>1. /\ handler'[k] = [handler[k] EXCEPT !.step = "writeRecord", !.record = t]
            /\ handler[k].step = "findRecord"
        BY <2>4, <3>1, <3>2 DEF FindPaymentRecord, IntakeTypeOK
      <4>2. PICK c \in Call : c = handler[k]
        BY <1>1
      <4>3. CallInv(c) /\ CallInv(c)'
        BY <1>1, <4>2, CallKept
      <4>4. t # NoRow => (t \in RowsByReference(c.request))'
        <5>1. c.request \in Request
          BY <4>1, <4>2, <4>3 DEF CallInv, Idle
        <5>2. QED
          BY <3>1, <3>2, <4>2, <5>1, NextStores, RowsKept
      <4>5. QED
        BY <4>1, <4>2, <4>3, <4>4 DEF CallInv, Call, Idle, Outcome
    <3>3. CASE h # k
      BY <1>2, <3>1, <3>3 DEF IntakeTypeOK
    <3>4. QED
      BY <3>2, <3>3
  <2>5. ASSUME NEW h \in Handler, handler' = Finish(h)
        PROVE  CallInv(handler[k])'
    <3>1. CASE h = k
      BY <1>3, <2>5, <3>1 DEF Finish, IntakeTypeOK
    <3>2. CASE h # k
      BY <1>2, <2>5, <3>2 DEF Finish, IntakeTypeOK
    <3>3. QED
      BY <3>1, <3>2
  <2>6. QED
    BY <1>2, <1>4, <2>1, <2>2, <2>3, <2>4, <2>5
       DEF IntakeNext, ChargeSucceeds, ChargeFails, HandlerStep, UpdatePaymentRecord,
           CreatePaymentRecord, CreateVerifiedRecord, HandlerFails
<1>5. CASE Restart
  BY <1>3, <1>5 DEF Restart
<1>6. CASE UNCHANGED handler
  BY <1>2, <1>6
<1>7. QED
  BY <1>4, <1>5, <1>6 DEF Next, Environment, vars, intakeVars

Base == TypeOK /\ HandlerInv

\* Types and handlers together are an inductive invariant.
THEOREM BaseInvariant == Spec => []Base
<1>1. Init => Base
  <2> SUFFICES ASSUME Init
               PROVE  Base
    OBVIOUS
  <2>1. TypeOK
    BY StoreAssumption
       DEF Init, StoreInit, LifecycleInit, IntakeInit, JobInit, TypeOK, StoreTypeOK,
           LifecycleTypeOK, IntakeTypeOK, JobTypeOK, Charge, Call, Idle,
           TransactionStatus
  <2>2. HandlerInv
    BY DEF Init, IntakeInit, HandlerInv, CallInv, Idle, Outcome
  <2>3. QED
    BY <2>1, <2>2 DEF Base
<1>2. Base /\ [Next]_vars => Base'
  BY TypeStep, HandlerKept DEF Base
<1>3. QED
  BY <1>1, <1>2, PTL DEF Spec

\* Every variable always has its type, for any number of requests, rows and
\* handlers: in particular no handler or pass ever writes a malformed row.
THEOREM TypeCorrect == Spec => []TypeOK
<1>1. Base => TypeOK
  BY DEF Base
<1>2. QED
  BY <1>1, BaseInvariant, PTL

-----------------------------------------------------------------------------
(* What a step does to a row *)

CreatesPayment(h, t) ==
    /\ handler[h].request \in Request
    /\ ~Row(t)
    /\ \/ /\ CreatePaymentRecord(h)
          /\ handler[h].op \in Outcome
          /\ handler[h].status # "PENDING"
          /\ transactions'[t] = PaymentRow(h, TRUE)
       \/ /\ CreateVerifiedRecord(h)
          /\ transactions'[t] = PaymentRow(h, FALSE)

CreatesTimeout(r, t) ==
    ~Row(t) /\ RecordTimeout(r) /\ transactions'[t] = TimeoutRow(r)

WritesStatus(t) ==
    /\ Row(t)
    /\ \E s \in {"COMPLETED", "FAILED"} :
          transactions'[t] = [transactions[t] EXCEPT !.status = s]

Unlinks(r, t) ==
    /\ t \in LinkedRows(r)
    /\ DeleteRequest(r)
    /\ transactions'[t] = [transactions[t] EXCEPT !.request = NoRequest]

Releases(w, r, t) ==
    /\ t \in RowsByReference(r)
    /\ ReleaseEscrow(w, r)
    /\ Release(r, t)
    /\ transactions'[t] = [transactions[t] EXCEPT !.escrowStatus = "RELEASED"]

\* A row changes in one of five ways.
LEMMA RowChange ==
    ASSUME Base, [Next]_vars, NEW t \in TxId, transactions'[t] # transactions[t]
    PROVE  \/ \E h \in Handler : CreatesPayment(h, t)
           \/ \E r \in Request : CreatesTimeout(r, t)
           \/ WritesStatus(t)
           \/ \E r \in Request : Unlinks(r, t)
           \/ \E w \in Releaser, r \in Request : Releases(w, r, t)
<1> USE DEF Base, TypeOK, StoreTypeOK
<1>1. CASE LifecycleNext
  <2>1. PICK r \in Request : DeleteRequest(r)
    BY <1>1
       DEF LifecycleNext, CreateRequest, ChangeRequestStatus, StartVideoUpload,
           FinishVideoUpload, FailVideoUpload, storeVars
  <2>2. transactions' = [u \in TxId |-> IF u \in LinkedRows(r)
                                          THEN [transactions[u] EXCEPT !.request = NoRequest]
                                          ELSE transactions[u]]
    BY <2>1 DEF DeleteRequest
  <2>3. Unlinks(r, t)
    BY <2>1, <2>2 DEF Unlinks
  <2>4. QED
    BY <2>3
<1>2. CASE IntakeNext
  <2>1. PICK h \in Handler : UpdatePaymentRecord(h) \/ CreatePaymentRecord(h)
                               \/ CreateVerifiedRecord(h)
    BY <1>2
       DEF IntakeNext, ChargeSucceeds, ChargeFails, ReceiveWebhook, ReceiveVerify,
           HandlerStep, MarkPaid, FindPaymentRecord, HandlerFails, storeVars
  <2>2. CallInv(handler[h]) /\ handler[h] \in Call
    BY DEF HandlerInv, IntakeTypeOK
  <2>3. /\ handler[h].op \in {"verify"} \cup Outcome
        /\ handler[h].request \in Request
    <3>1. handler[h].step \in {"writeRecord", "createVerified"}
      BY <2>1 DEF UpdatePaymentRecord, CreatePaymentRecord, CreateVerifiedRecord
    <3>2. handler[h].op # "idle"
      BY <2>2, <3>1 DEF CallInv, Idle
    <3>3. QED
      BY <2>2, <3>2 DEF CallInv, Call
  <2>4. handler[h].step = "writeRecord" => /\ handler[h].op \in Outcome
                                           /\ handler[h].status # "PENDING"
    BY <2>2, <2>3 DEF CallInv
  <2>5. CASE UpdatePaymentRecord(h)
    <3>1. handler[h].record \in RowsByReference(handler[h].request)
      BY <2>2, <2>5 DEF UpdatePaymentRecord, CallInv
    <3>2. transactions' = [transactions EXCEPT ![handler[h].record].status
                                                  = handler[h].status]
      BY <2>5 DEF UpdatePaymentRecord
    <3>3. t = handler[h].record
      BY <3>2
    <3>4. transactions'[t] = [transactions[t] EXCEPT !.status = handler[h].status]
      BY <3>2, <3>3
    <3>5. handler[h].status \in {"COMPLETED", "FAILED"}
      BY <2>2, <2>4, <2>5 DEF UpdatePaymentRecord, Call, TransactionStatus
    <3>6. WritesStatus(t)
      BY <3>1, <3>3, <3>4, <3>5 DEF WritesStatus, RowsByReference
    <3>7. QED
      BY <3>6
  <2>6. CASE CreatePaymentRecord(h)
    <3>1. ~Row(t) /\ transactions'[t] = PaymentRow(h, TRUE)
      BY <2>6 DEF CreatePaymentRecord, InsertRow
    <3>2. CreatesPayment(h, t)
      BY <2>3, <2>4, <2>6, <3>1 DEF CreatesPayment, CreatePaymentRecord
    <3>3. QED
      BY <3>2
  <2>7. CASE CreateVerifiedRecord(h)
    <3>1. ~Row(t) /\ transactions'[t] = PaymentRow(h, FALSE)
      BY <2>7 DEF CreateVerifiedRecord, InsertRow
    <3>2. CreatesPayment(h, t)
      BY <2>3, <2>7, <3>1 DEF CreatesPayment
    <3>3. QED
      BY <3>2
  <2>8. QED
    BY <2>1, <2>5, <2>6, <2>7
<1>3. CASE JobNext
  <2>1. CASE \E w \in Releaser, r \in Request : ReleaseEscrow(w, r)
    <3>1. PICK w \in Releaser, r \in Request : ReleaseEscrow(w, r)
      BY <2>1
    <3>2. PICK u \in RowsByReference(r) : Release(r, u)
      BY <3>1 DEF ReleaseEscrow
    <3>3. transactions' = [transactions EXCEPT ![u].escrowStatus = "RELEASED"]
      BY <3>2 DEF Release
    <3>4. t = u
      BY <3>3
    <3>5. Releases(w, r, t)
      BY <3>1, <3>2, <3>3, <3>4 DEF Releases
    <3>6. QED
      BY <3>5
  <2>2. CASE \E r \in Request : RecordTimeout(r)
    <3>1. PICK r \in Request : RecordTimeout(r)
      BY <2>2
    <3>2. ~Row(t) /\ transactions'[t] = TimeoutRow(r)
      BY <3>1 DEF RecordTimeout, InsertRow
    <3>3. QED
      BY <3>1, <3>2 DEF CreatesTimeout
  <2>3. QED
    BY <1>3, <2>1, <2>2
       DEF JobNext, StartReleasePass, FailRelease, StartTimeoutPass, DeclineTimedOut,
           FailTimeoutPass, storeVars
<1>4. QED
  BY <1>1, <1>2, <1>3
     DEF Next, Environment, CreateWallet, Restart, vars, storeVars

\* Rows keep what is read of them, except where RowChange says otherwise.
LEMMA RowTypes ==
    ASSUME Base, [Next]_vars, NEW t \in TxId
    PROVE  /\ Row(t) => transactions[t] \in Transaction
           /\ Row(t)' => transactions'[t] \in Transaction
           /\ Row(t) => Row(t)' /\ transactions'[t].reference = transactions[t].reference
<1>1. TypeOK /\ TypeOK'
  BY TypeStep DEF Base
<1>2. Stored
  BY NextStores DEF Base
<1>3. QED
  BY <1>1, <1>2 DEF TypeOK, StoreTypeOK, Stored, Row

\* A request is paid out only by ReleaseEscrow, once per step.
LEMMA EarningsChange ==
    ASSUME Base, [Next]_vars, NEW r \in Request, earnings'[r] # earnings[r]
    PROVE  /\ \E w \in Releaser : ReleaseEscrow(w, r)
           /\ earnings' = [earnings EXCEPT ![r] = @ + 1]
<1> USE DEF Base, TypeOK, StoreTypeOK
<1>1. PICK w \in Releaser, q \in Request : ReleaseEscrow(w, q)
  BY DEF Next, LifecycleNext, CreateRequest, ChangeRequestStatus, StartVideoUpload,
         FinishVideoUpload, FailVideoUpload, DeleteRequest, IntakeNext, ChargeSucceeds,
         ChargeFails, ReceiveWebhook, ReceiveVerify, HandlerStep, MarkPaid,
         FindPaymentRecord, UpdatePaymentRecord, CreatePaymentRecord,
         CreateVerifiedRecord, HandlerFails, JobNext, StartReleasePass,
         FailRelease, StartTimeoutPass, RecordTimeout, DeclineTimedOut,
         FailTimeoutPass, Environment, CreateWallet, Restart, vars, storeVars
<1>2. earnings' = [earnings EXCEPT ![q] = @ + 1]
  BY <1>1 DEF ReleaseEscrow, Release
<1>3. r = q
  BY <1>2
<1>4. QED
  BY <1>1, <1>2, <1>3

\* Payouts are never taken back.
LEMMA EarningsKept ==
    ASSUME Base, [Next]_vars, NEW r \in Request, earnings[r] > 0
    PROVE  earnings'[r] > 0
<1>1. CASE earnings'[r] # earnings[r]
  BY <1>1, EarningsChange DEF Base, TypeOK, StoreTypeOK
<1>2. QED
  BY <1>1

\* A request goes only when it is deleted, and never comes back.
LEMMA StatusChange ==
    ASSUME Base, [Next]_vars, NEW r \in Request
    PROVE  /\ Exists(r) => Exists(r)' \/ DeleteRequest(r)
           /\ status[r] = "deleted" => status'[r] = "deleted"
           /\ status'[r] = "unborn" => status[r] = "unborn"
<1> USE DEF Base, TypeOK, StoreTypeOK, Exists, RequestStatus
<1>1. CASE LifecycleNext
  <2>1. PICK q \in Request :
           \/ CreateRequest(q)
           \/ \E s \in RequestStatus : ChangeRequestStatus(q, s)
           \/ FinishVideoUpload(q)
           \/ DeleteRequest(q)
           \/ UNCHANGED status
    BY <1>1 DEF LifecycleNext, StartVideoUpload, FailVideoUpload, storeVars
  <2>2. QED
    BY <2>1 DEF CreateRequest, ChangeRequestStatus, FinishVideoUpload, DeleteRequest
<1>2. CASE \E q \in Request : DeclineTimedOut(q)
  BY <1>2 DEF DeclineTimedOut
<1>3. CASE UNCHANGED status
  BY <1>3
<1>4. QED
  BY <1>1, <1>2, <1>3
     DEF Next, IntakeNext, ChargeSucceeds,
         ChargeFails, ReceiveWebhook, ReceiveVerify, HandlerStep, MarkPaid,
         FindPaymentRecord, UpdatePaymentRecord, CreatePaymentRecord,
         CreateVerifiedRecord, HandlerFails, JobNext, StartReleasePass, ReleaseEscrow,
         FailRelease, StartTimeoutPass, RecordTimeout,
         FailTimeoutPass, Environment, CreateWallet, Restart, vars, storeVars

-----------------------------------------------------------------------------
(* Safety, with any number of overlapping release passes *)

LEMMA EscrowedPendingStep ==
    ASSUME Base, NoEscrowedPendingPayment, [Next]_vars
    PROVE  NoEscrowedPendingPayment'
<1> SUFFICES ASSUME NEW t \in TxId, Row(t)', EscrowPending(t)'
             PROVE  transactions'[t].status # "PENDING"
  BY DEF NoEscrowedPendingPayment
<1>1. CASE transactions'[t] = transactions[t]
  BY <1>1 DEF NoEscrowedPendingPayment, EscrowPending, Row
<1>2. CASE \E h \in Handler : CreatesPayment(h, t)
  BY <1>2 DEF CreatesPayment, PaymentRow, EscrowPending
<1>3. CASE \E r \in Request : CreatesTimeout(r, t)
  BY <1>3 DEF CreatesTimeout, TimeoutRow
<1>4. CASE WritesStatus(t)
  BY <1>4, RowTypes DEF WritesStatus, Transaction
<1>5. CASE \E r \in Request : Unlinks(r, t)
  <2>1. Row(t) /\ transactions'[t] = [transactions[t] EXCEPT !.request = NoRequest]
    BY <1>5 DEF Unlinks, LinkedRows
  <2>2. EscrowPending(t) /\ transactions'[t].status = transactions[t].status
    BY <2>1, RowTypes DEF EscrowPending, Transaction
  <2>3. QED
    BY <2>1, <2>2 DEF NoEscrowedPendingPayment
<1>6. CASE \E w \in Releaser, r \in Request : Releases(w, r, t)
  <2>1. Row(t) /\ transactions'[t] = [transactions[t] EXCEPT !.escrowStatus = "RELEASED"]
    BY <1>6 DEF Releases, RowsByReference
  <2>2. transactions'[t].escrowStatus = "RELEASED"
    BY <2>1, RowTypes DEF Transaction
  <2>3. QED
    BY <2>2 DEF EscrowPending
<1>7. QED
  BY <1>1, <1>2, <1>3, <1>4, <1>5, <1>6, RowChange

\* The rows the first half of checkPendingPayments looks for never exist
\* (backgroundjobs.service.ts:117-147): that half of the job does nothing.
THEOREM PendingSweepFindsNothing == Spec => []NoEscrowedPendingPayment
<1>1. Init => NoEscrowedPendingPayment
  BY DEF Init, StoreInit, NoEscrowedPendingPayment, Row
<1>2. Base /\ NoEscrowedPendingPayment /\ [Next]_vars => NoEscrowedPendingPayment'
  BY EscrowedPendingStep
<1>3. QED
  BY <1>1, <1>2, BaseInvariant, PTL DEF Spec

\* A row that carries a request's reference carried it before, or was just created
\* by a call about that request.
LEMMA RowsFrom ==
    ASSUME Base, [Next]_vars, NEW r \in Request, NEW t \in TxId,
           (t \in RowsByReference(r))'
    PROVE  \/ t \in RowsByReference(r)
           \/ \E h \in Handler : CreatesPayment(h, t) /\ handler[h].request = r
<1>1. Row(t)' /\ transactions'[t].reference = r
  BY DEF RowsByReference
<1>2. CASE Row(t)
  BY <1>1, <1>2, RowTypes DEF RowsByReference
<1>3. CASE ~Row(t)
  <2>1. transactions'[t] # transactions[t]
    BY <1>1, <1>3 DEF Row
  <2>2. CASE \E h \in Handler : CreatesPayment(h, t)
    <3>1. PICK h \in Handler : CreatesPayment(h, t)
      BY <2>2
    <3>2. transactions'[t].reference = handler[h].request
      BY <3>1 DEF CreatesPayment, PaymentRow
    <3>3. QED
      BY <1>1, <3>1, <3>2
  <2>3. CASE \E q \in Request : CreatesTimeout(q, t)
    BY <1>1, <2>3, StoreAssumption DEF CreatesTimeout, TimeoutRow
  <2>4. QED
    BY <1>3, <2>1, <2>2, <2>3, RowChange
       DEF WritesStatus, Unlinks, LinkedRows, Releases, RowsByReference
<1>4. QED
  BY <1>2, <1>3

\* How an old row that carries a request's reference can differ after a step.
LEMMA OldRow ==
    ASSUME Base, [Next]_vars, NEW r \in Request, NEW t \in RowsByReference(r)
    PROVE  /\ (t \in RowsByReference(r))'
           /\ \/ transactions'[t].request = transactions[t].request
              \/ /\ DeleteRequest(transactions[t].request)
                 /\ transactions[t].request \in Request
           /\ \/ transactions'[t].escrowStatus = transactions[t].escrowStatus
              \/ \E w \in Releaser : Releases(w, r, t)
<1>1. t \in TxId /\ Row(t) /\ transactions[t].reference = r
  BY DEF RowsByReference
<1>2. transactions[t] \in Transaction /\ Row(t)' /\ transactions'[t].reference = r
  BY <1>1, RowTypes
<1>3. (t \in RowsByReference(r))'
  BY <1>1, <1>2 DEF RowsByReference
<1>4. CASE WritesStatus(t)
  BY <1>2, <1>3, <1>4 DEF WritesStatus, Transaction
<1>5. CASE \E q \in Request : Unlinks(q, t)
  BY <1>2, <1>3, <1>5 DEF Unlinks, LinkedRows, Transaction
<1>6. CASE \E w \in Releaser, q \in Request : Releases(w, q, t)
  <2>1. PICK w \in Releaser, q \in Request : Releases(w, q, t)
    BY <1>6
  <2>2. q = r
    BY <1>1, <2>1 DEF Releases, RowsByReference
  <2>3. transactions'[t].request = transactions[t].request
    BY <1>2, <2>1 DEF Releases, Transaction
  <2>4. QED
    BY <1>3, <2>1, <2>2, <2>3
<1>7. CASE transactions'[t] = transactions[t]
  BY <1>3, <1>7
<1>8. QED
  BY <1>1, <1>4, <1>5, <1>6, <1>7, RowChange DEF CreatesPayment, CreatesTimeout

Ledger == LinkInv /\ PaidOutExists /\ ReleasedIffPaidOut

LEMMA LinkStep ==
    ASSUME Base, LinkInv, [Next]_vars
    PROVE  LinkInv'
<1> SUFFICES ASSUME NEW r \in Request, NEW t \in TxId, (t \in RowsByReference(r))'
             PROVE  /\ transactions'[t].request = r \/ status'[r] = "deleted"
                    /\ transactions'[t].escrowStatus # "NULL"
  BY DEF LinkInv, RowsByReference
<1>1. CASE t \in RowsByReference(r)
  <2>1. /\ transactions[t].request = r \/ status[r] = "deleted"
        /\ transactions[t].escrowStatus # "NULL"
    BY <1>1 DEF LinkInv
  <2>2. transactions'[t].escrowStatus # "NULL"
    <3>1. CASE \E w \in Releaser : Releases(w, r, t)
      <4>1. Row(t) /\ transactions'[t] = [transactions[t] EXCEPT !.escrowStatus = "RELEASED"]
        BY <3>1 DEF Releases, RowsByReference
      <4>2. QED
        BY <4>1, RowTypes DEF Transaction
    <3>2. QED
      BY <1>1, <2>1, <3>1, OldRow
  <2>3. CASE status[r] = "deleted"
    BY <2>2, <2>3, StatusChange
  <2>4. CASE transactions[t].request = r
    <3>1. CASE DeleteRequest(r)
      <4>1. status'[r] = "deleted"
        BY <3>1 DEF DeleteRequest, Base, TypeOK, StoreTypeOK
      <4>2. QED
        BY <2>2, <4>1
    <3>2. QED
      BY <1>1, <2>2, <2>4, <3>1, OldRow
  <2>5. QED
    BY <2>1, <2>3, <2>4
<1>2. CASE \E h \in Handler : CreatesPayment(h, t) /\ handler[h].request = r
  BY <1>2 DEF CreatesPayment, PaymentRow
<1>3. QED
  BY <1>1, <1>2, RowsFrom

LEMMA PaidOutStep ==
    ASSUME Base, PaidOutExists, [Next]_vars
    PROVE  PaidOutExists'
<1> SUFFICES ASSUME NEW r \in Request, earnings'[r] > 0
             PROVE  Exists(r)'
  BY DEF PaidOutExists
<1>1. CASE earnings'[r] # earnings[r]
  <2>1. PICK w \in Releaser : ReleaseEscrow(w, r)
    BY <1>1, EarningsChange
  <2>2. QED
    BY <2>1 DEF ReleaseEscrow, CanRelease, Exists
<1>2. CASE earnings'[r] = earnings[r]
  <2>1. Exists(r) /\ earnings[r] > 0
    BY <1>2 DEF PaidOutExists
  <2>2. ~DeleteRequest(r)
    BY <2>1 DEF DeleteRequest
  <2>3. QED
    BY <2>1, <2>2, StatusChange
<1>3. QED
  BY <1>1, <1>2

\* A released payment was released before, or is the one this step pays out.
LEMMA ReleasedStep ==
    ASSUME Base, ReleasedIffPaidOut, [Next]_vars
    PROVE  ReleasedIffPaidOut'
<1> USE DEF Base, TypeOK, StoreTypeOK
<1> SUFFICES ASSUME NEW r \in Request
             PROVE  earnings'[r] > 0 <=> \E t \in RowsByReference(r)' : Released(t)'
  BY DEF ReleasedIffPaidOut
<1>1. ASSUME earnings'[r] > 0
      PROVE  \E t \in RowsByReference(r)' : Released(t)'
  <2>1. CASE earnings'[r] # earnings[r]
    <3>1. PICK w \in Releaser : ReleaseEscrow(w, r)
      BY <2>1, EarningsChange
    <3>2. PICK t \in RowsByReference(r) : Release(r, t)
      BY <3>1 DEF ReleaseEscrow
    <3>3. transactions[t] \in Transaction /\ t \in TxId
      BY <3>2, RowTypes DEF RowsByReference
    <3>4. Released(t)'
      BY <3>2, <3>3 DEF Release, Released, Transaction
    <3>5. t \in RowsByReference(r)'
      BY <3>2, OldRow
    <3>6. QED
      BY <3>4, <3>5
  <2>2. CASE earnings'[r] = earnings[r]
    <3>1. PICK t \in RowsByReference(r) : Released(t)
      BY <1>1, <2>2 DEF ReleasedIffPaidOut
    <3>2. CASE \E w \in Releaser : Releases(w, r, t)
      <4>1. transactions[t] \in Transaction
        BY <3>1, RowTypes DEF RowsByReference
      <4>2. Released(t)'
        BY <3>2, <4>1 DEF Releases, Released, Transaction
      <4>3. QED
        BY <3>1, <4>2, OldRow
    <3>3. QED
      BY <3>1, <3>2, OldRow DEF Released
  <2>3. QED
    BY <2>1, <2>2
<1>2. ASSUME NEW t \in RowsByReference(r)', Released(t)'
      PROVE  earnings'[r] > 0
  <2>1. t \in TxId
    BY <1>2 DEF RowsByReference
  <2>2. CASE t \in RowsByReference(r)
    <3>1. CASE Released(t)
      BY <2>2, <3>1, EarningsKept DEF ReleasedIffPaidOut
    <3>2. CASE ~Released(t)
      <4>1. PICK w \in Releaser : Releases(w, r, t)
        BY <1>2, <2>2, <3>2, OldRow DEF Released
      <4>2. earnings' = [earnings EXCEPT ![r] = @ + 1]
        BY <4>1 DEF Releases, Release
      <4>3. QED
        BY <4>2
    <3>3. QED
      BY <3>1, <3>2
  <2>3. CASE \E h \in Handler : CreatesPayment(h, t) /\ handler[h].request = r
    BY <1>2, <2>3 DEF CreatesPayment, PaymentRow, Released
  <2>4. QED
    BY <1>2, <2>1, <2>2, <2>3, RowsFrom
<1>3. QED
  BY <1>1, <1>2

LEMMA LedgerInvariant == Spec => [](Base /\ Ledger)
<1>1. Init => Ledger
  BY DEF Init, StoreInit, Ledger, LinkInv, PaidOutExists, ReleasedIffPaidOut,
         RowsByReference, Row
<1>2. Base /\ Ledger /\ [Next]_vars => Ledger'
  BY LinkStep, PaidOutStep, ReleasedStep DEF Ledger
<1>3. QED
  BY <1>1, <1>2, BaseInvariant, PTL DEF Spec

\* The escrow ledger and the payouts never disagree, even when release passes
\* overlap, a release fails half way or a webhook rewrites a released row.
THEOREM LedgerAgrees == Spec => []ReleasedIffPaidOut
<1>1. Ledger => ReleasedIffPaidOut
  BY DEF Ledger
<1>2. QED
  BY <1>1, LedgerInvariant, PTL

-----------------------------------------------------------------------------
(* The webhook's events *)

\* A write to one event of one request is seen there and nowhere else.
LEMMA EventWrite ==
    ASSUME IntakeTypeOK, NEW q, NEW o, NEW e,
           notification' = [notification EXCEPT ![q][o] = e],
           NEW r \in Request, NEW p \in Outcome,
           notification'[r][p] # notification[r][p]
    PROVE  q = r /\ o = p /\ notification'[r][p] = e
<1>1. /\ notification[r] \in [Outcome -> {"none", "sent", "acked"}]
      /\ notification \in [Request -> [Outcome -> {"none", "sent", "acked"}]]
  BY DEF IntakeTypeOK
<1>2. q = r
  BY <1>1
<1>3. notification'[r] = [notification[r] EXCEPT ![o] = e]
  BY <1>1, <1>2
<1>4. QED
  BY <1>1, <1>2, <1>3

\* The success event of a Paystack payment is acknowledged only by a step after
\* which the payment has its row, or for a request that is gone.
LEMMA AckStep ==
    ASSUME Base, EventInv, [Next]_vars, NEW r \in Request, channel[r] = "PAYSTACK",
           notification[r]["success"] # "acked", notification'[r]["success"] = "acked"
    PROVE  RowsByReference(r)' # {} \/ status'[r] = "deleted"
<1> USE DEF Base, TypeOK, IntakeTypeOK
<1>1. IntakeNext
  BY DEF Next, Environment, Restart, vars, intakeVars
<1>2. ASSUME NEW h \in Handler, NEW q \in Request, NEW o \in Outcome,
             ReceiveWebhook(h, q, o)
      PROVE  status'[r] = "deleted"
  <2>1. ~Exists(q) /\ notification' = Acknowledge(q, o) /\ status' = status
    BY <1>2 DEF ReceiveWebhook, storeVars
  <2>2. q = r /\ o = "success"
    BY <2>1 DEF Acknowledge
  <2>3. notification[r]["success"] # "none"
    BY <1>2, <2>2 DEF ReceiveWebhook
  <2>4. status[r] # "unborn"
    BY <2>3 DEF EventInv
  <2>5. QED
    BY <2>1, <2>2, <2>4 DEF Exists, StoreTypeOK
<1>3. ASSUME NEW h \in Handler, notification' = Acknowledge(handler[h].request, handler[h].op)
      PROVE  handler[h].request = r /\ handler[h].op = "success"
  BY <1>3 DEF Acknowledge
<1>4. ASSUME NEW h \in Handler, UpdatePaymentRecord(h)
      PROVE  RowsByReference(r)' # {}
  <2>1. handler[h].request = r
    BY <1>3, <1>4 DEF UpdatePaymentRecord, Respond
  <2>2. handler[h].record \in RowsByReference(r)
    BY <1>4, <2>1 DEF UpdatePaymentRecord, HandlerInv, CallInv
  <2>3. QED
    BY <2>2, OldRow
<1>5. ASSUME NEW h \in Handler, CreatePaymentRecord(h)
      PROVE  RowsByReference(r)' # {}
  <2>1. handler[h].request = r
    BY <1>3, <1>5 DEF CreatePaymentRecord, Respond
  <2>2. PICK t \in TxId : transactions' = [transactions EXCEPT ![t] = PaymentRow(h, TRUE)]
    BY <1>5 DEF CreatePaymentRecord, InsertRow
  <2>3. transactions'[t] = PaymentRow(h, TRUE) /\ PaymentRow(h, TRUE) \in Transaction
    BY <2>2, CreatedRowType DEF StoreTypeOK
  <2>4. (t \in RowsByReference(r))'
    BY <2>1, <2>3, StoreAssumption DEF PaymentRow, RowsByReference, Row
  <2>5. QED
    BY <2>4
<1>6. ASSUME NEW h \in Handler, HandlerFails(h)
      PROVE  FALSE
  <2>1. notification' = RespondToError(h)
    BY <1>6 DEF HandlerFails
  <2>2. channel[handler[h].request] = "FLUTTERWAVE" /\ handler[h].request = r
    BY <1>3, <2>1 DEF RespondToError
  <2>3. QED
    BY <2>2
<1>7. ASSUME NEW q \in Request, ChargeSucceeds(q) \/ ChargeFails(q)
      PROVE  FALSE
  <2>1. PICK o \in Outcome : \/ notification' = [notification EXCEPT ![q][o] = "sent"]
                             \/ notification' = notification
    BY <1>7 DEF ChargeSucceeds, ChargeFails, Outcome
  <2>2. QED
    BY <2>1, EventWrite DEF Outcome
<1>8. \/ \E q \in Request : ChargeSucceeds(q) \/ ChargeFails(q)
      \/ \E h \in Handler, q \in Request, o \in Outcome : ReceiveWebhook(h, q, o)
      \/ \E h \in Handler :
            UpdatePaymentRecord(h) \/ CreatePaymentRecord(h) \/ HandlerFails(h)
  <2>1. notification' # notification
    OBVIOUS
  <2>2. QED
    BY <1>1, <2>1
       DEF IntakeNext, HandlerStep, ReceiveVerify, MarkPaid, FindPaymentRecord,
           CreateVerifiedRecord
<1>9. QED
  BY <1>2, <1>4, <1>5, <1>6, <1>7, <1>8

\* No event is sent before its request exists.
LEMMA UnbornStep ==
    ASSUME Base, EventInv, [Next]_vars, NEW r \in Request, status'[r] = "unborn"
    PROVE  notification'[r]["success"] = "none"
<1> USE DEF Base, TypeOK, IntakeTypeOK
<1>1. status[r] = "unborn" /\ notification[r]["success"] = "none"
  BY StatusChange DEF EventInv
<1>2. ASSUME NEW h \in Handler, handler[h] # Idle
      PROVE  ~(handler[h].op = "success" /\ handler[h].request = r)
  BY <1>1, <1>2 DEF HandlerInv, CallInv
<1>3. ASSUME NEW h \in Handler, handler[h] # Idle,
             notification' \in {Respond(h), RespondToError(h)}
      PROVE  notification'[r]["success"] = "none"
  <2>1. \/ notification' = notification
        \/ notification' = Acknowledge(handler[h].request, handler[h].op)
    BY <1>3 DEF Respond, RespondToError
  <2>2. QED
    BY <1>1, <1>2, <1>3, <2>1, EventWrite DEF Acknowledge, Outcome
<1>4. CASE IntakeNext
  <2>1. ASSUME NEW h \in Handler,
               UpdatePaymentRecord(h) \/ CreatePaymentRecord(h) \/ HandlerFails(h)
        PROVE  notification'[r]["success"] = "none"
    <3>1. handler[h] # Idle
      <4>1. handler[h].step = "writeRecord" => handler[h] # Idle
        BY DEF Idle
      <4>2. QED
        BY <2>1, <4>1 DEF UpdatePaymentRecord, CreatePaymentRecord, HandlerFails
    <3>2. QED
      BY <1>3, <2>1, <3>1 DEF UpdatePaymentRecord, CreatePaymentRecord, HandlerFails
  <2>2. ASSUME NEW q \in Request, ChargeSucceeds(q) \/ ChargeFails(q)
        PROVE  notification'[r]["success"] = "none"
    BY <1>1, <2>2 DEF ChargeSucceeds, ChargeFails
  <2>3. ASSUME NEW h \in Handler, NEW q \in Request, NEW o \in Outcome,
               ReceiveWebhook(h, q, o)
        PROVE  notification'[r]["success"] = "none"
    <3>1. ~(q = r /\ o = "success")
      BY <1>1, <2>3 DEF ReceiveWebhook
    <3>2. notification' \in {notification, Acknowledge(q, o)}
      BY <2>3 DEF ReceiveWebhook
    <3>3. QED
      BY <1>1, <3>1, <3>2, EventWrite DEF Acknowledge, Outcome
  <2>4. QED
    BY <1>1, <1>4, <2>1, <2>2, <2>3
       DEF IntakeNext, HandlerStep, ReceiveVerify, MarkPaid, FindPaymentRecord,
           CreateVerifiedRecord
<1>5. CASE UNCHANGED notification
  BY <1>1, <1>5
<1>6. QED
  BY <1>4, <1>5 DEF Next, Environment, Restart, vars, intakeVars

\* A Paystack request is marked as paid only by its success event.
LEMMA PaidStep ==
    ASSUME Base, EventInv, [Next]_vars, NEW r \in Request,
           channel[r] = "PAYSTACK", isRequestPaid'[r]
    PROVE  notification'[r]["success"] # "none"
<1> USE DEF Base, TypeOK, StoreTypeOK
<1>1. notification[r]["success"] # "none"
  <2>1. CASE isRequestPaid'[r] = isRequestPaid[r]
    BY <2>1 DEF EventInv
  <2>2. CASE isRequestPaid'[r] # isRequestPaid[r]
    <3>1. PICK h \in Handler : MarkPaid(h)
      BY <2>2
         DEF Next, LifecycleNext, CreateRequest, ChangeRequestStatus, StartVideoUpload,
             FinishVideoUpload, FailVideoUpload, DeleteRequest, IntakeNext,
             ChargeSucceeds, ChargeFails, ReceiveWebhook, ReceiveVerify, HandlerStep,
             FindPaymentRecord, UpdatePaymentRecord, CreatePaymentRecord,
             CreateVerifiedRecord, HandlerFails, JobNext, StartReleasePass,
             ReleaseEscrow, FailRelease, StartTimeoutPass, RecordTimeout,
             DeclineTimedOut, FailTimeoutPass, Environment, CreateWallet, Restart,
             vars, storeVars
    <3>2. handler[h].request = r /\ handler[h].step = "markPaid"
      BY <2>2, <3>1 DEF MarkPaid
    <3>3. handler[h].op = "success"
      <4>1. CallInv(handler[h]) /\ handler[h].op \in {"idle", "verify"} \cup Outcome
        BY DEF HandlerInv, IntakeTypeOK, Call
      <4>2. handler[h].op \notin {"idle", "verify", "failed"}
        BY <3>2, <4>1 DEF CallInv, Idle
      <4>3. QED
        BY <4>1, <4>2 DEF Outcome
    <3>4. QED
      BY <3>2, <3>3 DEF HandlerInv, CallInv
  <2>3. QED
    BY <2>1, <2>2
<1>2. QED
  BY <1>1, EventsKept DEF Outcome

LEMMA EventStep ==
    ASSUME Base, EventInv, [Next]_vars
    PROVE  EventInv'
<1> SUFFICES ASSUME NEW r \in Request
             PROVE  /\ status'[r] = "unborn" => notification'[r]["success"] = "none"
                    /\ channel'[r] = "PAYSTACK" /\ isRequestPaid'[r]
                         => notification'[r]["success"] # "none"
                    /\ channel'[r] = "PAYSTACK" /\ notification'[r]["success"] = "acked"
                         => RowsByReference(r)' # {} \/ status'[r] = "deleted"
  BY DEF EventInv
<1>1. channel' = channel
  BY EventsKept DEF Base
<1>2. ASSUME channel[r] = "PAYSTACK", notification'[r]["success"] = "acked"
      PROVE  RowsByReference(r)' # {} \/ status'[r] = "deleted"
  <2>1. CASE notification[r]["success"] = "acked"
    <3>1. RowsByReference(r) # {} \/ status[r] = "deleted"
      BY <1>2, <2>1 DEF EventInv
    <3>2. QED
      BY <3>1, OldRow, StatusChange
  <2>2. QED
    BY <1>2, <2>1, AckStep
<1>3. QED
  BY <1>1, <1>2, UnbornStep, PaidStep

\* A Paystack request that is marked as paid has its payment record or will get
\* its success event again: the webhook answers 200 only after the record is
\* written (payment.controller.ts:93-96), whatever fails and restarts before.
THEOREM PaidIsRecorded == Spec => []PaystackPaidIsRecorded
<1>1. Init => EventInv
  <2> SUFFICES ASSUME Init, NEW r \in Request
               PROVE  notification[r]["success"] = "none" /\ ~isRequestPaid[r]
    BY DEF EventInv
  <2>1. QED
    BY DEF Init, StoreInit, IntakeInit, Outcome
<1>2. Base /\ EventInv /\ [Next]_vars => EventInv'
  BY EventStep
<1>3. Base /\ EventInv => PaystackPaidIsRecorded
  BY DEF Base, TypeOK, IntakeTypeOK, StoreTypeOK, EventInv, PaystackPaidIsRecorded,
         Exists, RequestStatus, Outcome
<1>4. QED
  BY <1>1, <1>2, <1>3, BaseInvariant, PTL DEF Spec

-----------------------------------------------------------------------------
(* Charges *)

\* A provider that has answered for a payment does not take the answer back.
LEMMA ChargeKept ==
    ASSUME Base, [Next]_vars, NEW r \in Request, charge[r] # "pending"
    PROVE  charge'[r] # "pending"
<1> USE DEF Base, TypeOK, IntakeTypeOK
<1>1. CASE \E q \in Request : ChargeSucceeds(q) \/ ChargeFails(q)
  BY <1>1 DEF ChargeSucceeds, ChargeFails
<1>2. CASE UNCHANGED charge
  BY <1>2
<1>3. QED
  BY <1>1, <1>2
     DEF Next, IntakeNext, ReceiveWebhook, ReceiveVerify, HandlerStep, MarkPaid,
         FindPaymentRecord, UpdatePaymentRecord, CreatePaymentRecord,
         CreateVerifiedRecord, HandlerFails, Environment, Restart, vars, intakeVars

\* An event is sent by a charge or a failed attempt, and acknowledged by a call that
\* the event itself started.
LEMMA EventCharged ==
    ASSUME Base, ChargeInv, [Next]_vars, NEW r \in Request, NEW o \in Outcome,
           notification'[r][o] # "none"
    PROVE  charge'[r] # "pending"
<1> USE DEF Base, TypeOK, IntakeTypeOK
<1>1. CASE notification[r][o] # "none"
  BY <1>1, ChargeKept DEF ChargeInv
<1>2. CASE notification'[r][o] # notification[r][o]
  <2>1. ASSUME NEW q \in Request, ChargeSucceeds(q) \/ ChargeFails(q)
        PROVE  charge'[r] # "pending"
    <3>1. q = r
      BY <1>2, <2>1, EventWrite DEF ChargeSucceeds, ChargeFails
    <3>2. QED
      BY <2>1, <3>1 DEF ChargeSucceeds, ChargeFails
  <2>2. ASSUME NEW h \in Handler, NEW q \in Request, NEW p \in Outcome,
               ReceiveWebhook(h, q, p)
        PROVE  charge'[r] # "pending"
    <3>1. q = r /\ p = o
      BY <1>2, <2>2, EventWrite DEF ReceiveWebhook, Acknowledge
    <3>2. QED
      BY <1>1, <2>2, <3>1 DEF ReceiveWebhook
  <2>3. ASSUME NEW h \in Handler,
               notification' = Acknowledge(handler[h].request, handler[h].op)
        PROVE  charge'[r] # "pending"
    <3>1. handler[h].request = r /\ handler[h].op = o
      BY <1>2, <2>3, EventWrite DEF Acknowledge
    <3>2. QED
      BY <3>1, ChargeKept DEF ChargeInv
  <2>4. QED
    BY <1>2, <2>1, <2>2, <2>3
       DEF Next, IntakeNext, HandlerStep, ReceiveVerify, MarkPaid, FindPaymentRecord,
           UpdatePaymentRecord, CreatePaymentRecord, CreateVerifiedRecord,
           HandlerFails, Respond, RespondToError, Environment, Restart, vars, intakeVars
<1>3. QED
  BY <1>1, <1>2

\* A webhook call is about an event that was there when it started.
LEMMA CallStarts ==
    ASSUME Base, [Next]_vars, NEW h \in Handler, handler'[h].op \in Outcome
    PROVE  \/ /\ handler'[h].op = handler[h].op
              /\ handler'[h].request = handler[h].request
           \/ \E r \in Request, o \in Outcome :
                 ReceiveWebhook(h, r, o) /\ handler'[h].request = r
<1> USE DEF Base, TypeOK, IntakeTypeOK
<1>1. handler'[h] # Idle
  BY DEF Idle, Outcome
<1>2. handler[h] \in Call /\ handler' \in [Handler -> Call]
  BY TypeStep
<1>3. CASE handler'[h] = handler[h]
  BY <1>3
<1>4. CASE IntakeNext
  <2>1. ASSUME NEW k \in Handler, NEW r \in Request, NEW o \in Outcome,
               ReceiveWebhook(k, r, o), handler'[h] # handler[h]
        PROVE  k = h /\ handler'[h].request = r
    <3>1. k = h
      BY <2>1 DEF ReceiveWebhook
    <3>2. handler'[h] = [Idle EXCEPT
                           !.op = o, !.request = r,
                           !.step = IF o = "success" THEN "markPaid" ELSE "findRecord",
                           !.status = IF o = "success" THEN "COMPLETED" ELSE "FAILED"]
      BY <2>1, <3>1 DEF ReceiveWebhook
    <3>3. handler'[h].request = r
      BY <3>2 DEF Idle
    <3>4. QED
      BY <3>1, <3>3
  <2>2. ASSUME NEW k \in Handler, NEW r \in Request, ReceiveVerify(k, r)
        PROVE  handler'[h] = handler[h]
    <3>1. k # h
      BY <2>2 DEF ReceiveVerify, Idle, Outcome
    <3>2. QED
      BY <2>2, <3>1 DEF ReceiveVerify
  <2>3. ASSUME NEW k \in Handler, MarkPaid(k)
        PROVE  handler'[h].op = handler[h].op /\ handler'[h].request = handler[h].request
    BY <1>2, <2>3 DEF MarkPaid, Goto, Call
  <2>4. ASSUME NEW k \in Handler, FindPaymentRecord(k)
        PROVE  handler'[h].op = handler[h].op /\ handler'[h].request = handler[h].request
    BY <1>2, <2>4 DEF FindPaymentRecord, Call
  <2>5. ASSUME NEW k \in Handler, handler' = Finish(k)
        PROVE  handler'[h] = handler[h]
    BY <1>1, <2>5 DEF Finish
  <2>6. QED
    BY <1>3, <1>4, <2>1, <2>2, <2>3, <2>4, <2>5
       DEF IntakeNext, ChargeSucceeds, ChargeFails, HandlerStep, UpdatePaymentRecord,
           CreatePaymentRecord, CreateVerifiedRecord, HandlerFails
<1>5. CASE Restart
  BY <1>1, <1>5 DEF Restart
<1>6. QED
  BY <1>3, <1>4, <1>5 DEF Next, Environment, vars, intakeVars

\* A Paystack row is created by a webhook call, never by a verify call.
LEMMA RowCharged ==
    ASSUME Base, ChargeInv, [Next]_vars, NEW r \in Request, channel[r] = "PAYSTACK",
           NEW t \in TxId, (t \in RowsByReference(r))'
    PROVE  charge'[r] # "pending"
<1>1. CASE t \in RowsByReference(r)
  BY <1>1, ChargeKept DEF ChargeInv
<1>2. ASSUME NEW h \in Handler, CreatesPayment(h, t), handler[h].request = r
      PROVE  charge'[r] # "pending"
  <2>1. CASE handler[h].op \in Outcome
    BY <1>2, <2>1, ChargeKept DEF ChargeInv
  <2>2. CASE CreateVerifiedRecord(h)
    <3>1. CallInv(handler[h]) /\ handler[h].op \in {"idle", "verify"} \cup Outcome
      BY DEF Base, HandlerInv, TypeOK, IntakeTypeOK, Call
    <3>2. handler[h].step = "createVerified"
      BY <2>2 DEF CreateVerifiedRecord
    <3>3. handler[h].op \in Outcome
      BY <1>2, <3>1, <3>2 DEF CallInv, Idle
    <3>4. QED
      BY <2>1, <3>3
  <2>3. QED
    BY <1>2, <2>1, <2>2 DEF CreatesPayment
<1>3. QED
  BY <1>1, <1>2, RowsFrom

LEMMA ChargeStep ==
    ASSUME Base, ChargeInv, [Next]_vars
    PROVE  ChargeInv'
<1>1. ASSUME NEW r \in Request, channel'[r] = "PAYSTACK", RowsByReference(r)' # {}
      PROVE  charge'[r] # "pending"
  <2>1. channel[r] = "PAYSTACK"
    BY <1>1, EventsKept DEF Base
  <2>2. PICK t \in TxId : (t \in RowsByReference(r))'
    BY <1>1 DEF RowsByReference
  <2>3. QED
    BY <2>1, <2>2, RowCharged
<1>2. ASSUME NEW r \in Request, NEW h \in Handler,
             handler'[h].request = r, handler'[h].op \in Outcome
      PROVE  charge'[r] # "pending"
  <2>1. CASE handler[h].op \in Outcome /\ handler[h].request = r
    BY <2>1, ChargeKept DEF ChargeInv
  <2>2. ASSUME NEW o \in Outcome, ReceiveWebhook(h, r, o)
        PROVE  charge'[r] # "pending"
    BY <2>2, ChargeKept DEF ReceiveWebhook, ChargeInv
  <2>3. QED
    BY <1>2, <2>1, <2>2, CallStarts
<1>3. QED
  BY <1>1, <1>2, EventCharged DEF ChargeInv

\* Paystack has answered for every payment it was to make before it is paid out,
\* in whatever order webhooks, statuses, releases and restarts come.
THEOREM PayoutFollowsCharge == Spec => []PaystackPayoutFollowsCharge
<1>1. ASSUME Init
      PROVE  ChargeInv
  <2>1. \A r \in Request, o \in Outcome : notification[r][o] = "none"
    BY <1>1 DEF Init, IntakeInit
  <2>2. \A r \in Request : RowsByReference(r) = {}
    BY <1>1 DEF Init, StoreInit, RowsByReference, Row
  <2>3. \A h \in Handler : handler[h].op \notin Outcome
    BY <1>1 DEF Init, IntakeInit, Idle, Outcome
  <2>4. QED
    BY <2>1, <2>2, <2>3 DEF ChargeInv
<1>2. Base /\ ChargeInv /\ [Next]_vars => ChargeInv'
  BY ChargeStep
<1>3. ChargeInv /\ Ledger => PaystackPayoutFollowsCharge
  BY DEF ChargeInv, Ledger, ReleasedIffPaidOut, PaystackPayoutFollowsCharge
<1>4. QED
  BY <1>1, <1>2, <1>3, LedgerInvariant, PTL DEF Spec

-----------------------------------------------------------------------------
(* A release is final *)

LEMMA ReleasedReferenceStep ==
    ASSUME Base, ReleasedHasReference, [Next]_vars
    PROVE  ReleasedHasReference'
<1> SUFFICES ASSUME NEW t \in TxId, Row(t)', Released(t)'
             PROVE  transactions'[t].reference \in Request
  BY DEF ReleasedHasReference
<1>1. CASE transactions'[t] = transactions[t]
  BY <1>1 DEF ReleasedHasReference, Row, Released
<1>2. CASE \E h \in Handler : CreatesPayment(h, t)
  BY <1>2 DEF CreatesPayment, PaymentRow
<1>3. CASE \E r \in Request : CreatesTimeout(r, t)
  BY <1>3 DEF CreatesTimeout, TimeoutRow, Released
<1>4. CASE WritesStatus(t)
  BY <1>4, RowTypes DEF WritesStatus, Transaction, ReleasedHasReference, Released
<1>5. CASE \E r \in Request : Unlinks(r, t)
  BY <1>5, RowTypes
     DEF Unlinks, LinkedRows, Transaction, ReleasedHasReference, Released
<1>6. CASE \E w \in Releaser, r \in Request : Releases(w, r, t)
  BY <1>6, RowTypes DEF Releases, RowsByReference
<1>7. QED
  BY <1>1, <1>2, <1>3, <1>4, <1>5, <1>6, RowChange

\* A released row stays, stays released and stays with its request: its request was
\* paid out, so it exists and cannot be deleted.
LEMMA ReleasedRowKept ==
    ASSUME Base, Ledger, ReleasedHasReference, [Next]_vars,
           NEW t \in TxId, Row(t), Released(t)
    PROVE  /\ Row(t)' /\ Released(t)'
           /\ transactions'[t].request = transactions[t].request
<1> DEFINE r == transactions[t].reference
<1>1. r \in Request /\ t \in RowsByReference(r)
  BY DEF ReleasedHasReference, RowsByReference
<1>2. earnings[r] > 0 /\ Exists(r)
  BY <1>1 DEF Ledger, ReleasedIffPaidOut, PaidOutExists
<1>3. transactions[t].request = r
  BY <1>1, <1>2 DEF Ledger, LinkInv, Exists, RequestStatus
<1>4. transactions'[t].request = transactions[t].request
  <2>1. ~DeleteRequest(r)
    BY <1>2 DEF DeleteRequest
  <2>2. QED
    BY <1>1, <1>3, <2>1, OldRow
<1>5. Released(t)'
  <2>1. CASE \E w \in Releaser : Releases(w, r, t)
    BY <2>1, RowTypes DEF Releases, Released, Transaction
  <2>2. QED
    BY <1>1, <2>1, OldRow DEF Released
<1>6. QED
  BY <1>4, <1>5, RowTypes

\* No webhook, failed release, deletion or restart undoes a release, however many
\* passes overlap.
THEOREM ReleaseStays == Spec => ReleaseIsFinal
<1> DEFINE Kept == \A t \in TxId :
                      Row(t) /\ Released(t) =>
                         /\ Row(t)' /\ Released(t)'
                         /\ transactions'[t].request = transactions[t].request
<1>1. Init => ReleasedHasReference
  BY DEF Init, StoreInit, ReleasedHasReference, Row
<1>2. Base /\ ReleasedHasReference /\ [Next]_vars => ReleasedHasReference'
  BY ReleasedReferenceStep
<1>3. Base /\ Ledger /\ ReleasedHasReference /\ [Next]_vars => [Kept]_vars
  BY ReleasedRowKept
<1>4. QED
  BY <1>1, <1>2, <1>3, LedgerInvariant, PTL DEF Spec, ReleaseIsFinal

-----------------------------------------------------------------------------
(* What release passes have on their lists *)

\* A request that is listed has not been paid out: every payment under its
\* reference is linked to it (LinkInv) and pending in escrow.
LEMMA ListedUnpaid ==
    ASSUME Base, Ledger, NEW r \in CompletedWithPendingEscrow
    PROVE  r \in Request /\ earnings[r] = 0
<1>1. /\ r \in Request
      /\ status[r] = "COMPLETED"
      /\ \A t \in LinkedRows(r) : transactions[t].escrowStatus = "PENDING"
  BY DEF CompletedWithPendingEscrow, EscrowPending
<1>2. ASSUME NEW t \in RowsByReference(r), Released(t)
      PROVE  FALSE
  <2>1. t \in LinkedRows(r)
    BY <1>1, <1>2 DEF Ledger, LinkInv, RowsByReference, LinkedRows
  <2>2. QED
    BY <1>1, <1>2, <2>1 DEF Released
<1>3. earnings[r] \in Nat /\ ~(earnings[r] > 0)
  BY <1>1, <1>2 DEF Base, TypeOK, StoreTypeOK, Ledger, ReleasedIffPaidOut
<1>4. QED
  BY <1>1, <1>3

\* A request gets on a list only when the pass starts, and only if it is COMPLETED
\* with its escrow pending.
LEMMA ListChange ==
    ASSUME Base, [Next]_vars, NEW w \in Releaser, NEW r \in releasing'[w],
           r \notin releasing[w]
    PROVE  /\ r \in CompletedWithPendingEscrow
           /\ StartReleasePass(w)
<1> USE DEF Base, TypeOK, JobTypeOK
<1>1. ASSUME NEW v \in Releaser, StartReleasePass(v)
      PROVE  v = w /\ r \in CompletedWithPendingEscrow
  BY <1>1 DEF StartReleasePass
<1>2. ASSUME NEW v \in Releaser, NEW q \in Request, ReleaseEscrow(v, q) \/ FailRelease(v, q)
      PROVE  FALSE
  BY <1>2 DEF ReleaseEscrow, FailRelease
<1>3. \E v \in Releaser :
         \/ StartReleasePass(v)
         \/ \E q \in Request : ReleaseEscrow(v, q) \/ FailRelease(v, q)
  <2>1. releasing' # releasing /\ ~Restart
    BY DEF Restart, StopPasses
  <2>2. JobNext
    BY <2>1 DEF Next, Environment, vars, jobVars
  <2>3. QED
    BY <2>1, <2>2
       DEF JobNext, StartTimeoutPass, RecordTimeout, DeclineTimedOut, FailTimeoutPass
<1>4. QED
  BY <1>1, <1>2, <1>3

\* Payouts are no more than the passes, with any number of passes at once: a request
\* that was paid out is never listed again.
LEMMA PayoutsLeftStep ==
    ASSUME IsFiniteSet(Releaser), Base, Ledger, PayoutsLeft, [Next]_vars
    PROVE  PayoutsLeft'
<1> USE DEF Base, TypeOK, StoreTypeOK
<1> SUFFICES ASSUME NEW r \in Request, earnings'[r] > 0
             PROVE  earnings'[r] + Cardinality(ListedBy(r)') <= Cardinality(Releaser)
  BY DEF PayoutsLeft
<1>1. ListedBy(r) \subseteq Releaser /\ ListedBy(r)' \subseteq Releaser
  BY DEF ListedBy
<1>2. /\ IsFiniteSet(ListedBy(r)) /\ Cardinality(ListedBy(r)) \in Nat
      /\ Cardinality(ListedBy(r)') \in Nat /\ Cardinality(Releaser) \in Nat
      /\ Cardinality(ListedBy(r)) <= Cardinality(Releaser)
  BY <1>1, FS_Subset, FS_CardinalityType
<1>3. CASE earnings'[r] = earnings[r]
  <2>1. ASSUME NEW w \in ListedBy(r)'
        PROVE  w \in ListedBy(r)
    <3>1. w \in Releaser /\ r \in releasing'[w]
      BY <2>1 DEF ListedBy
    <3>2. r \notin CompletedWithPendingEscrow
      BY <1>3, ListedUnpaid
    <3>3. r \in releasing[w]
      BY <3>1, <3>2, ListChange
    <3>4. QED
      BY <3>1, <3>3 DEF ListedBy
  <2>2. Cardinality(ListedBy(r)') <= Cardinality(ListedBy(r))
    BY <1>2, <2>1, FS_Subset
  <2>3. QED
    BY <1>2, <1>3, <2>2 DEF PayoutsLeft
<1>4. CASE earnings'[r] # earnings[r]
  <2>1. PICK w \in Releaser : ReleaseEscrow(w, r)
    BY <1>4, EarningsChange
  <2>2. earnings'[r] = earnings[r] + 1
    BY <1>4, EarningsChange
  <2>3. w \in ListedBy(r) /\ ListedBy(r)' = ListedBy(r) \ {w}
    BY <2>1 DEF ReleaseEscrow, ListedBy, JobTypeOK
  <2>4. Cardinality(ListedBy(r)') = Cardinality(ListedBy(r)) - 1
    BY <1>2, <2>3, FS_RemoveElement
  <2>5. earnings[r] \in Nat
    OBVIOUS
  <2>6. QED
    BY <1>2, <2>2, <2>4, <2>5 DEF PayoutsLeft
<1>5. QED
  BY <1>3, <1>4

\* However many release passes overlap, no request is paid out more often than there
\* are passes: with one pass this is PaidOutAtMostOnce.
THEOREM PaidAtMostOncePerPass ==
    ASSUME IsFiniteSet(Releaser)
    PROVE  Spec => []PaidOncePerPass
<1>1. Init => PayoutsLeft
  <2>1. ASSUME Init, NEW r \in Request
        PROVE  ~(earnings[r] > 0)
    BY <2>1 DEF Init, StoreInit
  <2>2. QED
    BY <2>1 DEF PayoutsLeft
<1>2. Base /\ Ledger /\ PayoutsLeft /\ [Next]_vars => PayoutsLeft'
  BY PayoutsLeftStep
<1>3. Base /\ PayoutsLeft => PaidOncePerPass
  <2>1. ASSUME Base, PayoutsLeft, NEW r \in Request
        PROVE  earnings[r] <= Cardinality(Releaser)
    <3>1. ListedBy(r) \subseteq Releaser
      BY DEF ListedBy
    <3>2. Cardinality(ListedBy(r)) \in Nat /\ Cardinality(Releaser) \in Nat
      BY <3>1, FS_Subset, FS_CardinalityType
    <3>3. earnings[r] \in Nat
      BY <2>1 DEF Base, TypeOK, StoreTypeOK
    <3>4. QED
      BY <2>1, <3>2, <3>3 DEF PayoutsLeft
  <2>2. QED
    BY <2>1 DEF PaidOncePerPass
<1>4. QED
  BY <1>1, <1>2, <1>3, LedgerInvariant, PTL DEF Spec

-----------------------------------------------------------------------------
(* Safety when no request is on two lists *)

\* The pass that pays a request out takes it off the only list it is on.
LEMMA ListStep ==
    ASSUME DisjointLists, Base, Ledger, ListInv, [Next]_vars
    PROVE  ListInv'
<1> USE DEF Base, TypeOK, StoreTypeOK, JobTypeOK
<1> SUFFICES ASSUME NEW w \in Releaser, NEW r \in releasing'[w]
             PROVE  earnings'[r] = 0
  BY DEF ListInv
<1>1. r \in Request
  BY TypeStep
<1>2. CASE r \notin releasing[w]
  <2>1. r \in CompletedWithPendingEscrow /\ StartReleasePass(w)
    BY <1>2, ListChange
  <2>2. earnings' = earnings
    BY <2>1 DEF StartReleasePass, storeVars
  <2>3. QED
    BY <2>1, <2>2, ListedUnpaid
<1>3. CASE r \in releasing[w]
  <2>1. earnings[r] = 0
    BY <1>3 DEF ListInv
  <2>2. CASE earnings'[r] # earnings[r]
    <3>1. PICK v \in Releaser : ReleaseEscrow(v, r)
      BY <1>1, <2>2, EarningsChange
    <3>2. r \in releasing[v] /\ r \notin releasing'[v]
      BY <3>1 DEF ReleaseEscrow
    <3>3. v = w
      BY <1>3, <3>2 DEF DisjointLists
    <3>4. QED
      BY <3>2, <3>3
  <2>3. QED
    BY <2>1, <2>2
<1>4. QED
  BY <1>2, <1>3

Books == Base /\ Ledger /\ ListInv

LEMMA BooksInvariant == Spec /\ []DisjointLists => []Books
<1>1. Init => ListInv
  BY DEF Init, JobInit, ListInv
<1>2. DisjointLists /\ Base /\ Ledger /\ ListInv /\ [Next]_vars => ListInv'
  BY ListStep
<1>3. Base /\ Ledger /\ ListInv => Books
  BY DEF Books
<1>4. QED
  BY <1>1, <1>2, <1>3, LedgerInvariant, PTL DEF Spec

LEMMA OnceStep ==
    ASSUME Books, PaidOutAtMostOnce, [Next]_vars
    PROVE  PaidOutAtMostOnce'
<1> USE DEF Books, Base, TypeOK, StoreTypeOK
<1> SUFFICES ASSUME NEW r \in Request
             PROVE  earnings'[r] <= 1
  BY DEF PaidOutAtMostOnce
<1>1. CASE earnings'[r] # earnings[r]
  <2>1. PICK w \in Releaser : ReleaseEscrow(w, r)
    BY <1>1, EarningsChange
  <2>2. earnings[r] = 0
    BY <2>1 DEF ReleaseEscrow, ListInv
  <2>3. QED
    BY <1>1, <2>2, EarningsChange
<1>2. CASE earnings'[r] = earnings[r]
  BY <1>2 DEF PaidOutAtMostOnce
<1>3. QED
  BY <1>1, <1>2

\* As long as no request is on the lists of two passes it is paid out at most once,
\* for any number of passes, requests, rows under a reference, and calls in progress.
THEOREM PaidOnce == Spec /\ []DisjointLists => []PaidOutAtMostOnce
<1>1. Init => PaidOutAtMostOnce
  <2>1. ASSUME Init, NEW r \in Request
        PROVE  earnings[r] <= 1
    <3>1. earnings[r] = 0
      BY <2>1 DEF Init, StoreInit
    <3>2. QED
      BY <3>1
  <2>2. QED
    BY <2>1 DEF PaidOutAtMostOnce
<1>2. Books /\ PaidOutAtMostOnce /\ [Next]_vars => PaidOutAtMostOnce'
  BY OnceStep
<1>3. QED
  BY <1>1, <1>2, BooksInvariant, PTL DEF Spec

\* A release of a request that was not paid out takes a pending row.
LEMMA ReleaseTakesPending ==
    ASSUME Books, [Next]_vars, NEW w \in Releaser, NEW r \in Request,
           NEW t \in RowsByReference(r), ReleaseEscrow(w, r), Release(r, t)
    PROVE  /\ \A u \in RowsByReference(r) : ~Released(u)
           /\ transactions[t].escrowStatus = "PENDING"
           /\ Released(t)'
<1> USE DEF Books, Base
<1>1. ~(earnings[r] > 0)
  BY DEF ReleaseEscrow, ListInv
<1>2. \A u \in RowsByReference(r) : ~Released(u)
  BY <1>1 DEF Ledger, ReleasedIffPaidOut
<1>3. transactions[t] \in Transaction /\ t \in TxId
  BY RowTypes DEF RowsByReference
<1>4. transactions[t].escrowStatus = "PENDING"
  BY <1>2, <1>3 DEF Ledger, LinkInv, Released, Transaction, EscrowStatus
<1>5. Released(t)'
  BY <1>3 DEF Release, Released, TypeOK, StoreTypeOK, Transaction
<1>6. QED
  BY <1>2, <1>4, <1>5

\* No payout is made on the strength of a payment that was released before.
THEOREM PayoutTakesPending ==
    Spec /\ []DisjointLists => PayoutReleasesPendingEscrow
<1> DEFINE Payout == \A r \in Request :
                        earnings'[r] > earnings[r] =>
                           \E t \in RowsByReference(r) :
                              transactions[t].escrowStatus = "PENDING" /\ Released(t)'
<1>1. ASSUME Books, [Next]_vars
      PROVE  [Payout]_vars
  <2>1. ASSUME NEW r \in Request, earnings'[r] > earnings[r]
        PROVE  \E t \in RowsByReference(r) :
                  transactions[t].escrowStatus = "PENDING" /\ Released(t)'
    <3>1. earnings'[r] # earnings[r]
      BY <1>1, <2>1 DEF Books, Base, TypeOK, StoreTypeOK
    <3>2. PICK w \in Releaser : ReleaseEscrow(w, r)
      BY <1>1, <3>1, EarningsChange DEF Books
    <3>3. PICK t \in RowsByReference(r) : Release(r, t)
      BY <3>2 DEF ReleaseEscrow
    <3>4. QED
      BY <1>1, <3>2, <3>3, ReleaseTakesPending
  <2>2. QED
    BY <2>1
<1>2. QED
  BY <1>1, BooksInvariant, PTL DEF Spec, PayoutReleasesPendingEscrow

-----------------------------------------------------------------------------
(* The refinement of Settlement *)

\* How what Settlement sees of a request can change when no escrow status does:
\* only from "none" to "held".
LEMMA EscrowOfValue ==
    ASSUME NEW r \in Request
    PROVE  /\ escrowOf[r] = "released" <=> \E t \in RowsByReference(r) : Released(t)
           /\ escrowOf[r] = "held" <=> /\ RowsByReference(r) # {}
                                      /\ \A t \in RowsByReference(r) : ~Released(t)
           /\ escrowOf[r] = "none" <=> RowsByReference(r) = {}
           /\ escrowOf[r] \in {"none", "held", "released"}
BY DEF escrowOf

LEMMA EscrowOfValueNext ==
    ASSUME NEW r \in Request
    PROVE  /\ escrowOf'[r] = "released" <=> \E t \in RowsByReference(r)' : Released(t)'
           /\ escrowOf'[r] = "held" <=> /\ RowsByReference(r)' # {}
                                       /\ \A t \in RowsByReference(r)' : ~Released(t)'
           /\ escrowOf'[r] = "none" <=> RowsByReference(r)' = {}
           /\ escrowOf'[r] \in {"none", "held", "released"}
BY DEF escrowOf

\* A request that this step does not pay out stays as it is, or becomes held by
\* a call that creates its first row.
LEMMA EscrowOfChange ==
    ASSUME Base, [Next]_vars, NEW r \in Request,
           ~ \E w \in Releaser : ReleaseEscrow(w, r),
           escrowOf'[r] # escrowOf[r]
    PROVE  /\ escrowOf[r] = "none"
           /\ escrowOf'[r] = "held"
           /\ \E h \in Handler, t \in TxId :
                 CreatesPayment(h, t) /\ handler[h].request = r
<1>1. ASSUME NEW t \in RowsByReference(r)
      PROVE  t \in RowsByReference(r)' /\ (Released(t)' <=> Released(t))
  BY <1>1, OldRow DEF Releases, Released
<1>2. ASSUME NEW t \in RowsByReference(r)', t \notin RowsByReference(r)
      PROVE  /\ ~Released(t)'
             /\ \E h \in Handler : CreatesPayment(h, t) /\ handler[h].request = r
             /\ t \in TxId
  <2>1. t \in TxId
    BY <1>2 DEF RowsByReference
  <2>2. PICK h \in Handler : CreatesPayment(h, t) /\ handler[h].request = r
    BY <1>2, <2>1, RowsFrom
  <2>3. ~Released(t)'
    BY <2>2 DEF CreatesPayment, PaymentRow, Released
  <2>4. QED
    BY <2>1, <2>2, <2>3
<1>3. (\E t \in RowsByReference(r) : Released(t)) <=> \E t \in RowsByReference(r)' : Released(t)'
  BY <1>1, <1>2
<1>4. escrowOf[r] # "released" /\ escrowOf'[r] # "released"
  BY <1>3, EscrowOfValue, EscrowOfValueNext
<1>5. RowsByReference(r) # {} => RowsByReference(r)' # {}
  BY <1>1
<1>6. escrowOf[r] = "none" /\ escrowOf'[r] = "held"
  BY <1>4, <1>5, EscrowOfValue, EscrowOfValueNext
<1>7. PICK t \in RowsByReference(r)' : t \notin RowsByReference(r)
  BY <1>6, EscrowOfValue, EscrowOfValueNext
<1>8. QED
  BY <1>2, <1>6, <1>7

LEMMA SettlementStep ==
    ASSUME Books, [Next]_vars
    PROVE  S!Next \/ UNCHANGED <<escrowOf, earnings>>
<1> USE DEF Books, Base
<1>1. CASE \E w \in Releaser, r \in Request : ReleaseEscrow(w, r)
  <2>1. PICK w \in Releaser, r \in Request : ReleaseEscrow(w, r)
    BY <1>1
  <2>2. PICK t \in RowsByReference(r) : Release(r, t)
    BY <2>1 DEF ReleaseEscrow
  <2>3. escrowOf[r] = "held" /\ escrowOf'[r] = "released"
    BY <2>1, <2>2, ReleaseTakesPending, OldRow, EscrowOfValue, EscrowOfValueNext
  <2>4. ASSUME NEW q \in Request, q # r
        PROVE  escrowOf'[q] = escrowOf[q]
    <3>1. ASSUME NEW v \in Releaser, ReleaseEscrow(v, q)
          PROVE  FALSE
      <4>1. earnings'[q] = earnings[q] + 1
        BY <3>1 DEF ReleaseEscrow, Release, TypeOK, StoreTypeOK
      <4>2. earnings'[q] = earnings[q]
        BY <2>2, <2>4 DEF Release, TypeOK, StoreTypeOK
      <4>3. QED
        BY <4>1, <4>2 DEF TypeOK, StoreTypeOK
    <3>2. \A h \in Handler, u \in TxId : ~CreatesPayment(h, u)
      <4>1. transactions' = [transactions EXCEPT ![t].escrowStatus = "RELEASED"]
        BY <2>2 DEF Release
      <4>2. Row(t)
        BY DEF RowsByReference
      <4>3. ASSUME NEW h \in Handler, NEW u \in TxId, CreatesPayment(h, u)
            PROVE  FALSE
        <5>1. u # t /\ transactions'[u] = NoRow
          BY <4>1, <4>2, <4>3 DEF CreatesPayment, TypeOK, StoreTypeOK, Row
        <5>2. PaymentRow(h, TRUE) # NoRow /\ PaymentRow(h, FALSE) # NoRow
          BY CreatedRowType, StoreAssumption DEF TypeOK
        <5>3. QED
          BY <4>3, <5>1, <5>2 DEF CreatesPayment
      <4>4. QED
        BY <4>3
    <3>3. QED
      BY <3>1, <3>2, EscrowOfChange
  <2>5. escrowOf' = [escrowOf EXCEPT ![r] = "released"]
    BY <2>3, <2>4 DEF escrowOf
  <2>6. earnings' = [earnings EXCEPT ![r] = @ + 1]
    BY <2>2 DEF Release
  <2>7. QED
    BY <2>3, <2>5, <2>6 DEF S!Next, S!PayOut
<1>2. CASE ~ \E w \in Releaser, r \in Request : ReleaseEscrow(w, r)
  <2>1. earnings' = earnings
    <3>1. \A r \in Request : earnings'[r] = earnings[r]
      BY <1>2, EarningsChange
    <3>2. QED
      BY <3>1, TypeStep DEF TypeOK, StoreTypeOK
  <2>2. CASE \E r \in Request : escrowOf'[r] # escrowOf[r]
    <3>1. PICK r \in Request : escrowOf'[r] # escrowOf[r]
      BY <2>2
    <3>2. PICK h \in Handler, t \in TxId : CreatesPayment(h, t) /\ handler[h].request = r
      BY <1>2, <3>1, EscrowOfChange
    <3>3. ASSUME NEW q \in Request, q # r
          PROVE  escrowOf'[q] = escrowOf[q]
      <4>1. ASSUME NEW k \in Handler, NEW u \in TxId, CreatesPayment(k, u)
            PROVE  handler[k].request = r
        <5>1. PaymentRow(k, TRUE) # NoRow /\ PaymentRow(k, FALSE) # NoRow
          BY CreatedRowType, StoreAssumption DEF TypeOK
        <5>2. transactions'[u] # transactions[u] /\ transactions'[u].reference = handler[k].request
          BY <4>1, <5>1 DEF CreatesPayment, PaymentRow, Row
        <5>3. PaymentRow(h, TRUE) # NoRow /\ PaymentRow(h, FALSE) # NoRow
          BY CreatedRowType, StoreAssumption DEF TypeOK
        <5>4. transactions'[t] # transactions[t] /\ transactions'[t].reference = r
          BY <3>2, <5>3 DEF CreatesPayment, PaymentRow, Row
        <5>5. u = t
          <6>1. PICK e \in BOOLEAN : InsertRow(PaymentRow(h, e))
            BY <3>2 DEF CreatesPayment, CreatePaymentRecord, CreateVerifiedRecord
          <6>2. PICK x \in TxId : transactions' = [transactions EXCEPT ![x] = PaymentRow(h, e)]
            BY <6>1 DEF InsertRow
          <6>3. QED
            BY <5>2, <5>4, <6>2 DEF TypeOK, StoreTypeOK
        <5>6. QED
          BY <5>2, <5>4, <5>5
      <4>2. QED
        BY <1>2, <3>3, <4>1, EscrowOfChange
    <3>4. escrowOf[r] = "none" /\ escrowOf'[r] = "held"
      BY <1>2, <3>1, EscrowOfChange
    <3>5. escrowOf' = [escrowOf EXCEPT ![r] = "held"]
      BY <3>3, <3>4 DEF escrowOf
    <3>6. QED
      BY <2>1, <3>4, <3>5 DEF S!Next, S!Hold
  <2>3. CASE \A r \in Request : escrowOf'[r] = escrowOf[r]
    BY <2>1, <2>3 DEF escrowOf
  <2>4. QED
    BY <2>2, <2>3
<1>3. QED
  BY <1>1, <1>2

\* The rows, calls and passes of the payment system implement Settlement, as long as
\* no request is on two lists: a payment is held, then released and paid out in one
\* step, and no webhook, deletion or restart takes any of it back.
THEOREM Refinement == Spec /\ []DisjointLists => ImplementsSettlement
<1>1. Init => S!Init
  BY DEF Init, StoreInit, S!Init, escrowOf, RowsByReference, Row
<1>2. Books /\ [Next]_vars => [S!Next]_(S!settlementVars)
  BY SettlementStep DEF S!settlementVars
<1>3. QED
  BY <1>1, <1>2, BooksInvariant, PTL DEF Spec, ImplementsSettlement, S!Spec

-----------------------------------------------------------------------------
(* What keeps the lists disjoint *)

\* A pass that starts when no other is under way shares no request with another.
LEMMA TurnStep ==
    ASSUME Base, DisjointLists, [Next]_vars,
           \A v, w \in Releaser : v # w /\ StartReleasePass(v) => releasing[w] = {}
    PROVE  DisjointLists'
<1> SUFFICES ASSUME NEW v \in Releaser, NEW w \in Releaser, v # w,
                    NEW r \in releasing'[v], r \in releasing'[w]
             PROVE  FALSE
  BY DEF DisjointLists
<1>1. ASSUME NEW u \in Releaser, NEW x \in Releaser, u # x, StartReleasePass(u),
             r \in releasing'[x]
      PROVE  FALSE
  <2>1. releasing[x] = {}
    BY <1>1
  <2>2. releasing'[x] = releasing[x]
    BY <1>1 DEF StartReleasePass, Base, TypeOK, JobTypeOK
  <2>3. QED
    BY <1>1, <2>1, <2>2
<1>2. r \in releasing[v]
  BY <1>1, ListChange
<1>3. r \in releasing[w]
  BY <1>1, ListChange
<1>4. QED
  BY <1>2, <1>3 DEF DisjointLists

\* Passes that end before the next one starts never share a request, whatever the
\* number of passes.
THEOREM TurnsKeepListsDisjoint == Spec /\ PassesTakeTurns => []DisjointLists
<1> DEFINE Turn == \A v, w \in Releaser :
                      v # w /\ StartReleasePass(v) => releasing[w] = {}
<1>1. Init => DisjointLists
  BY DEF Init, JobInit, DisjointLists
<1>2. Base /\ DisjointLists /\ [Next]_vars /\ [Turn]_vars => DisjointLists'
  <2>1. CASE UNCHANGED vars
    BY <2>1 DEF vars, jobVars, DisjointLists
  <2>2. QED
    BY <2>1, TurnStep
<1>3. QED
  BY <1>1, <1>2, BaseInvariant, PTL DEF Spec, PassesTakeTurns

\* The escrow keeps its promises when every release pass ends within its minute:
\* one payout for a payment, out of pending escrow, as Settlement has it.
COROLLARY SequentialPasses ==
    Spec /\ PassesTakeTurns => /\ []PaidOutAtMostOnce
                               /\ PayoutReleasesPendingEscrow
                               /\ ImplementsSettlement
BY PaidOnce, PayoutTakesPending, Refinement, TurnsKeepListsDisjoint, PTL

\* With a single pass, which the safety run has, no such hypothesis is needed.
COROLLARY SinglePass ==
    ASSUME NonOverlapping
    PROVE  Spec => /\ []PaidOutAtMostOnce
                   /\ PayoutReleasesPendingEscrow
                   /\ ImplementsSettlement
<1>1. DisjointLists
  BY DEF NonOverlapping, DisjointLists
<1>2. []DisjointLists
  BY <1>1, PTL
<1>3. QED
  BY <1>2, PaidOnce, PayoutTakesPending, Refinement, PTL

\* What the settlement promises the code keeps while no request is on two lists: a
\* payment is paid out exactly once when it is released, and not at all before.
COROLLARY ReleasedPaidOnce == Spec /\ []DisjointLists => []S!OnePayoutPerRelease
<1>1. S!Spec => [](S!TypeOK /\ S!OnePayoutPerRelease)
  BY S!Settled
<1>2. QED
  BY <1>1, Refinement, PTL DEF ImplementsSettlement
=============================================================================
