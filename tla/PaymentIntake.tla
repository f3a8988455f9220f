--------------------------- MODULE PaymentIntake ---------------------------
(***************************************************************************)
(* How a payment reaches the database: the Paystack webhook, the            *)
(* Flutterwave webhook and the fan's "verify" call (payment.controller.ts,  *)
(* payment.service.ts).  Each call is a handler that runs concurrently with *)
(* the others and is split at the queries it awaits.  The providers are     *)
(* external: they charge the fan and repeat a notification until it is      *)
(* acknowledged, possibly after that too, in any order and at any time.     *)
(***************************************************************************)
EXTENDS Store

CONSTANT Handler  \* the bound on calls being handled at the same time

VARIABLES
    charge,        \* the provider's view of the payment of a request
    notification,  \* webhook events: not sent, sent, acknowledged with a 200
    handler        \* the call each handler is serving, and how far it is

intakeVars == <<charge, notification, handler>>

Outcome == {"success", "failed"}

Charge == {"pending", "failed", "successful"}

Call ==
    [op: {"idle", "verify"} \cup Outcome,
     request: Request \cup {NoRequest},
     step: {"idle", "markPaid", "findRecord", "writeRecord", "createVerified"},
     record: TxId \cup {NoRow},
     status: TransactionStatus]

Idle == [op |-> "idle", request |-> NoRequest, step |-> "idle",
         record |-> NoRow, status |-> "PENDING"]

IntakeTypeOK ==
    /\ charge \in [Request -> Charge]
    /\ notification \in [Request -> [Outcome -> {"none", "sent", "acked"}]]
    /\ handler \in [Handler -> Call]

IntakeInit ==
    /\ charge = [r \in Request |-> "pending"]
    /\ notification = [r \in Request |-> [o \in Outcome |-> "none"]]
    /\ handler = [h \in Handler |-> Idle]

-----------------------------------------------------------------------------
(* The providers *)

\* A fan who was given a reference pays, at the first attempt or a later one.
ChargeSucceeds(r) ==
    /\ status[r] # "unborn"
    /\ charge[r] # "successful"
    /\ charge' = [charge EXCEPT ![r] = "successful"]
    /\ notification' = [notification EXCEPT ![r]["success"] = "sent"]
    /\ UNCHANGED handler
    /\ UNCHANGED storeVars

\* An attempt fails.  Of the two, only Paystack's failure event has a handler.
ChargeFails(r) ==
    /\ status[r] # "unborn"
    /\ charge[r] = "pending"
    /\ charge' = [charge EXCEPT ![r] = "failed"]
    /\ notification' = IF channel[r] = "PAYSTACK"
                         THEN [notification EXCEPT ![r]["failed"] = "sent"]
                         ELSE notification
    /\ UNCHANGED handler
    /\ UNCHANGED storeVars

-----------------------------------------------------------------------------
(* The handlers *)

Acknowledge(r, o) == [notification EXCEPT ![r][o] = "acked"]

\* The 200 response to a webhook; a verify call acknowledges nothing.
Respond(h) ==
    IF handler[h].op = "verify"
      THEN notification
      ELSE Acknowledge(handler[h].request, handler[h].op)

\* Mutant: every webhook answers 200 after an exception.
SwallowError(h) ==
    IF handler[h].op # "verify"
      THEN Acknowledge(handler[h].request, handler[h].op)
      ELSE notification

\* An exception.  The Paystack webhook rethrows it, so the provider repeats the
\* event; the Flutterwave webhook answers 200 all the same.
RespondToError(h) ==
    IF handler[h].op # "verify" /\ channel[handler[h].request] = "FLUTTERWAVE"
      THEN Acknowledge(handler[h].request, handler[h].op)
      ELSE notification

Goto(h, step) == [handler EXCEPT ![h].step = step]

Finish(h) == [handler EXCEPT ![h] = Idle]

\* A webhook arrives and the request is looked up by its payment reference.  A
\* reference no request has is answered with a 200.
ReceiveWebhook(h, r, o) ==
    /\ handler[h] = Idle
    /\ notification[r][o] # "none"
    /\ IF Exists(r)
         THEN /\ handler' = [handler EXCEPT ![h] =
                   [Idle EXCEPT
                      !.op = o, !.request = r,
                      !.step = IF o = "success" THEN "markPaid" ELSE "findRecord",
                      !.status = IF o = "success" THEN "COMPLETED" ELSE "FAILED"]]
              /\ UNCHANGED notification
         ELSE /\ notification' = Acknowledge(r, o)
              /\ UNCHANGED handler
    /\ UNCHANGED charge
    /\ UNCHANGED storeVars

\* The provider's side of the verify call: Flutterwave answers for the references it
\* gave out.  The lookup itself is by reference only (payment.service.ts:279), so
\* that a Paystack reference gets no answer rests on this and on nothing in the code.
KnownToFlutterwave(r) == channel[r] = "FLUTTERWAVE"

MapFlutterwaveStatus(c) ==
    CASE c = "successful" -> "COMPLETED"
      [] c = "failed"     -> "FAILED"
      [] c = "pending"    -> "PENDING"

\* Mutant: the answer is taken for granted, so a request that was initialised with the
\* other provider is marked and recorded too.
ReceiveVerifyAnyChannel(h, r) ==
    /\ handler[h] = Idle
    /\ Exists(r)
    /\ handler' = [handler EXCEPT ![h] =
         [Idle EXCEPT !.op = "verify", !.request = r, !.step = "markPaid",
                      !.status = MapFlutterwaveStatus(charge[r])]]
    /\ UNCHANGED <<charge, notification>>
    /\ UNCHANGED storeVars

\* verifyFlutterwavePayment: the provider's answer is taken here and written two
\* queries later; whether it says the payment succeeded is not looked at.
ReceiveVerify(h, r) ==
    /\ handler[h] = Idle
    /\ Exists(r)
    /\ KnownToFlutterwave(r)
    /\ handler' = [handler EXCEPT ![h] =
         [Idle EXCEPT !.op = "verify", !.request = r, !.step = "markPaid",
                      !.status = MapFlutterwaveStatus(charge[r])]]
    /\ UNCHANGED <<charge, notification>>
    /\ UNCHANGED storeVars

\* updateRequestIsPaidStatus
MarkPaid(h) ==
    LET r == handler[h].request IN
    /\ handler[h].step = "markPaid"
    /\ Exists(r)
    /\ isRequestPaid' = [isRequestPaid EXCEPT ![r] = TRUE]
    /\ handler' = Goto(h, IF handler[h].op = "verify" THEN "createVerified"
                                                      ELSE "findRecord")
    /\ UNCHANGED <<charge, notification>>
    /\ UNCHANGED <<status, channel, transactions, wallets, earnings>>

\* createPaymentRecord, first query: is there a row with this reference?
FindPaymentRecord(h) ==
    LET found == RowsByReference(handler[h].request) IN
    /\ handler[h].step = "findRecord"
    /\ \E t \in IF found = {} THEN {NoRow} ELSE found :
          handler' = [handler EXCEPT ![h].step = "writeRecord", ![h].record = t]
    /\ UNCHANGED <<charge, notification>>
    /\ UNCHANGED storeVars

\* Mutant: the update writes every column the creation writes.
OverwritePaymentRecord(h) ==
    LET t == handler[h].record IN
    /\ handler[h].step = "writeRecord"
    /\ t # NoRow
    /\ transactions' = [transactions EXCEPT ![t].status = handler[h].status,
                                            ![t].isInEscrow = TRUE,
                                            ![t].escrowStatus = "PENDING"]
    /\ handler' = Finish(h)
    /\ notification' = Respond(h)
    /\ UNCHANGED charge
    /\ UNCHANGED <<status, channel, isRequestPaid, wallets, earnings>>

\* createPaymentRecord, the row was found: only its status is written.
UpdatePaymentRecord(h) ==
    LET t == handler[h].record IN
    /\ handler[h].step = "writeRecord"
    /\ t # NoRow
    /\ transactions' = [transactions EXCEPT ![t].status = handler[h].status]
    /\ handler' = Finish(h)
    /\ notification' = Respond(h)
    /\ UNCHANGED charge
    /\ UNCHANGED <<status, channel, isRequestPaid, wallets, earnings>>

PaymentRow(h, escrowed) ==
    [request |-> handler[h].request, reference |-> handler[h].request,
     status |-> handler[h].status, isInEscrow |-> escrowed,
     escrowStatus |-> "PENDING"]

\* createPaymentRecord, no row was found when it looked: a row held in escrow is
\* created, for a failed payment as for a successful one.
CreatePaymentRecord(h) ==
    /\ handler[h].step = "writeRecord"
    /\ handler[h].record = NoRow
    /\ Exists(handler[h].request)
    /\ InsertRow(PaymentRow(h, TRUE))
    /\ handler' = Finish(h)
    /\ notification' = Respond(h)
    /\ UNCHANGED charge
    /\ UNCHANGED <<status, channel, isRequestPaid, wallets, earnings>>

\* Mutant: the verified row is put in escrow, with the provider's status.
CreateEscrowedVerifiedRecord(h) ==
    /\ handler[h].step = "createVerified"
    /\ Exists(handler[h].request)
    /\ InsertRow(PaymentRow(h, TRUE))
    /\ handler' = Finish(h)
    /\ UNCHANGED <<charge, notification>>
    /\ UNCHANGED <<status, channel, isRequestPaid, wallets, earnings>>

\* verifyFlutterwavePayment, last query: always a new row, and one that leaves
\* isInEscrow at the schema's default.
CreateVerifiedRecord(h) ==
    /\ handler[h].step = "createVerified"
    /\ Exists(handler[h].request)
    /\ InsertRow(PaymentRow(h, FALSE))
    /\ handler' = Finish(h)
    /\ UNCHANGED <<charge, notification>>
    /\ UNCHANGED <<status, channel, isRequestPaid, wallets, earnings>>

\* A query of the call fails: the database, or the request was deleted meanwhile.
HandlerFails(h) ==
    /\ handler[h] # Idle
    /\ notification' = RespondToError(h)
    /\ handler' = Finish(h)
    /\ UNCHANGED charge
    /\ UNCHANGED storeVars

HandlerStep(h) ==
    \/ MarkPaid(h)
    \/ FindPaymentRecord(h)
    \/ UpdatePaymentRecord(h)
    \/ CreatePaymentRecord(h)
    \/ CreateVerifiedRecord(h)

IntakeNext ==
    \/ \E r \in Request : ChargeSucceeds(r) \/ ChargeFails(r)
    \/ \E h \in Handler :
          \/ \E r \in Request, o \in Outcome : ReceiveWebhook(h, r, o)
          \/ \E r \in Request : ReceiveVerify(h, r)
          \/ HandlerStep(h)
          \/ HandlerFails(h)
=============================================================================
