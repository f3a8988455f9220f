--------------------------- MODULE EscrowPayments ---------------------------
(***************************************************************************)
(* The payment system as a whole: requests, payment intake and the escrow   *)
(* jobs run in one Node process over one database.  Each step is a step of  *)
(* one of them, the creation of a wallet, or a restart of the process,      *)
(* which loses every call and pass under way and nothing of the database or *)
(* of what the providers still have to deliver.                             *)
(***************************************************************************)
EXTENDS RequestLifecycle, PaymentIntake, EscrowJobs, FiniteSets

vars == <<storeVars, lifecycleVars, intakeVars, jobVars>>

TypeOK ==
    /\ StoreTypeOK
    /\ LifecycleTypeOK
    /\ IntakeTypeOK
    /\ JobTypeOK

Init ==
    /\ StoreInit
    /\ LifecycleInit
    /\ IntakeInit
    /\ JobInit

Restart ==
    /\ uploading' = {}
    /\ handler' = [h \in Handler |-> Idle]
    /\ StopPasses
    /\ UNCHANGED <<charge, notification>>
    /\ UNCHANGED storeVars

Environment ==
    /\ \E u \in WalletOwner : CreateWallet(u)
    /\ UNCHANGED <<lifecycleVars, intakeVars, jobVars>>

Next ==
    \/ LifecycleNext /\ UNCHANGED <<intakeVars, jobVars>>
    \/ IntakeNext /\ UNCHANGED <<lifecycleVars, jobVars>>
    \/ JobNext /\ UNCHANGED <<lifecycleVars, intakeVars>>
    \/ Environment
    \/ Restart

Spec == Init /\ [][Next]_vars

-----------------------------------------------------------------------------
(* Fairness.  The scheduler starts a release pass every minute and a pass goes *)
(* through its list.  An error of the database is transient: a step that can   *)
(* succeed again and again is not made to fail for ever (strong fairness).  A  *)
(* call that was received ends, one way or the other, and a provider repeats   *)
(* an event it has no 200 for.  A request grows older than 48 hours and is then *)
(* listed by every timeout pass.  Nothing forces fans or celebrities to act, or *)
(* the verify call to be made.                                                 *)

JobStep(A) == UNCHANGED <<lifecycleVars, intakeVars>> /\ A

IntakeStep(A) == UNCHANGED <<lifecycleVars, jobVars>> /\ A

ReleaseFairness ==
    \A w \in Releaser :
       /\ WF_vars(JobStep(\/ StartReleasePass(w)
                          \/ \E r \in Request : FailRelease(w, r) \/ ReleaseEscrow(w, r)))
       /\ \A r \in Request : SF_vars(JobStep(ReleaseEscrow(w, r)))

Redeliver(h, r) ==
    notification[r]["success"] = "sent" /\ ReceiveWebhook(h, r, "success")

WritePaymentRecord(h) == UpdatePaymentRecord(h) \/ CreatePaymentRecord(h)

IntakeFairness ==
    \A h \in Handler :
       /\ WF_vars(IntakeStep(HandlerFails(h) \/ HandlerStep(h)))
       /\ \A r \in Request : SF_vars(IntakeStep(Redeliver(h, r)))
       /\ SF_vars(IntakeStep(MarkPaid(h)))
       /\ SF_vars(IntakeStep(FindPaymentRecord(h)))
       /\ SF_vars(IntakeStep(WritePaymentRecord(h)))

TimeoutFairness ==
    /\ WF_vars(JobStep(FailTimeoutPass \/ \E r \in Request : RecordTimeout(r)
                                                         \/ DeclineTimedOut(r)))
    /\ \A r \in Request : SF_vars(JobStep(StartTimeoutPass /\ r \in timingOut'))

FairSpec == Spec /\ ReleaseFairness /\ IntakeFairness /\ TimeoutFairness

-----------------------------------------------------------------------------
(* Safety *)

\* No row is both in escrow and PENDING as a payment: the rows the first half of
\* checkPendingPayments looks for (backgroundjobs.service.ts:117) do not exist.
NoEscrowedPendingPayment ==
    \A t \in TxId : Row(t) /\ EscrowPending(t) => transactions[t].status # "PENDING"

\* Release passes that do not overlap pay a request at most once, whatever
\* webhooks, verify calls, status changes and restarts come between the listing
\* and the release (backgroundjobs.service.ts:399-579).
PaidOutAtMostOnce == \A r \in Request : earnings[r] <= 1

\* The escrow ledger and the payouts agree: a payment is marked RELEASED exactly
\* when its request has been paid out, so no failure leaves one without the other.
ReleasedIffPaidOut ==
    \A r \in Request :
        earnings[r] > 0 <=> \E t \in RowsByReference(r) : Released(t)

\* A payout takes a payment out of PENDING escrow: none is made on the strength
\* of a payment that was released before.
PayoutReleasesPendingEscrow ==
    [][\A r \in Request :
          earnings'[r] > earnings[r] =>
             \E t \in RowsByReference(r) :
                 transactions[t].escrowStatus = "PENDING" /\ Released(t)']_vars

\* Partial failure of the Paystack webhook: a request marked as paid either has
\* its payment record or its success event will be delivered again
\* (payment.controller.ts:93-96, payment.service.ts:154-207).
PaystackPaidIsRecorded ==
    \A r \in Request :
        Exists(r) /\ isRequestPaid[r] /\ channel[r] = "PAYSTACK" =>
           \/ RowsByReference(r) # {}
           \/ notification[r]["success"] = "sent"

\* A Paystack payment is paid out only after Paystack has answered for it: with no
\* event sent there is no row with its reference, hence nothing to release, whoever
\* sets the request to COMPLETED.  The answer may be a failure, and a Flutterwave
\* payment needs none (ReleasedPaymentsWereCharged; payment.service.ts:154-207,
\* backgroundjobs.service.ts:448-466).
PaystackPayoutFollowsCharge ==
    \A r \in Request :
        channel[r] = "PAYSTACK" /\ earnings[r] > 0 => charge[r] # "pending"

\* A release is final: no late or repeated webhook, failed release, deletion or
\* restart takes a released payment back into escrow, removes it, or parts it from
\* its request (payment.service.ts:175-181, schema.prisma:260, 292).
ReleaseIsFinal ==
    [][\A t \in TxId :
          Row(t) /\ Released(t) =>
             /\ Row(t)' /\ Released(t)'
             /\ transactions'[t].request = transactions[t].request]_vars

\* With any number of release passes at the same time a request is paid out at
\* most once by each of them: a pass that starts after the first payout does not
\* list it again (backgroundjobs.service.ts:404-420).
PaidOncePerPass == \A r \in Request : earnings[r] <= Cardinality(Releaser)

\* The escrow as Settlement sees it.
escrowOf ==
    [r \in Request |->
        IF \E t \in RowsByReference(r) : Released(t) THEN "released"
        ELSE IF RowsByReference(r) # {} THEN "held" ELSE "none"]

S == INSTANCE Settlement WITH escrow <- escrowOf, payouts <- earnings

\* Rows, webhooks and passes implement the settlement: a payment is held once,
\* its release and its payout are one step, and neither is ever undone.
ImplementsSettlement == S!Spec

-----------------------------------------------------------------------------
(* What keeps the safety properties true (the inductive invariant)          *)

\* A call in progress is about a request; the record it found is a row with that
\* request's reference; what it will write into an escrowed row is not PENDING.
CallInv(c) ==
    /\ c.op = "idle" => c = Idle
    /\ c.op # "idle" => c.request \in Request
    /\ c.record # NoRow => c.record \in RowsByReference(c.request)
    /\ c.op = "verify" => /\ c.step \in {"markPaid", "createVerified"}
                          /\ channel[c.request] = "FLUTTERWAVE"
    /\ c.op \in Outcome => /\ c.step \in {"markPaid", "findRecord", "writeRecord"}
                           /\ c.status # "PENDING"
    /\ c.op = "success" => notification[c.request]["success"] # "none"
    /\ c.op = "failed" => c.step # "markPaid"

HandlerInv == \A h \in Handler : CallInv(handler[h])

\* A row that carries a request's reference is linked to that request until the
\* request is deleted, and always has an escrow status.
LinkInv ==
    \A r \in Request : \A t \in RowsByReference(r) :
       /\ transactions[t].request = r \/ status[r] = "deleted"
       /\ transactions[t].escrowStatus # "NULL"

\* A request that was paid out cannot be deleted.
PaidOutExists == \A r \in Request : earnings[r] > 0 => Exists(r)

\* No pass has a request on its list that was paid out already.
ListInv == \A w \in Releaser : \A r \in releasing[w] : earnings[r] = 0

\* A Paystack request marked as paid has had its success event sent, and an event
\* is acknowledged only when the row is there or the request is not.
EventInv ==
    \A r \in Request :
       /\ status[r] = "unborn" => notification[r]["success"] = "none"
       /\ channel[r] = "PAYSTACK" /\ isRequestPaid[r]
            => notification[r]["success"] # "none"
       /\ channel[r] = "PAYSTACK" /\ notification[r]["success"] = "acked"
            => RowsByReference(r) # {} \/ status[r] = "deleted"

\* A Paystack row, or a webhook call that may write one, comes from an event, and
\* an event from a charge or an attempt at one.
ChargeInv ==
    \A r \in Request :
       /\ \A o \in Outcome : notification[r][o] # "none" => charge[r] # "pending"
       /\ channel[r] = "PAYSTACK" /\ RowsByReference(r) # {} => charge[r] # "pending"
       /\ \A h \in Handler :
             handler[h].request = r /\ handler[h].op \in Outcome => charge[r] # "pending"

\* A released row is a payment of a request, not the marker row of a timeout.
ReleasedHasReference ==
    \A t \in TxId : Row(t) /\ Released(t) => transactions[t].reference \in Request

\* The passes that still have r on their list.
ListedBy(r) == {w \in Releaser : r \in releasing[w]}

\* Once r was paid out, its payouts and the passes that may still make one are
\* together no more than the passes.
PayoutsLeft ==
    \A r \in Request :
        earnings[r] > 0 => earnings[r] + Cardinality(ListedBy(r)) <= Cardinality(Releaser)

-----------------------------------------------------------------------------
(* When release passes do not interfere *)

\* No request is on the lists of two passes.
DisjointLists ==
    \A v, w \in Releaser : v # w => releasing[v] \cap releasing[w] = {}

\* A pass starts when no other is under way: each ends within its minute.
PassesTakeTurns ==
    [][\A v, w \in Releaser :
          v # w /\ StartReleasePass(v) => releasing[w] = {}]_vars

\* There is one pass at a time, as in the instance of the safety run.
NonOverlapping == \A v, w \in Releaser : v = w

-----------------------------------------------------------------------------
(* What the documents say and the code does not do *)

\* BACKGROUND_JOBS.md:34 has a failed payment's request declined, and schema.prisma:330
\* says of RELEASED "Funds have been released to recipient": there were funds.  So a
\* payment Paystack was asked for is released only if Paystack charged the fan.
ReleasedPaymentsWereCharged ==
    \A r \in Request :
        channel[r] = "PAYSTACK" /\ (\E t \in RowsByReference(r) : Released(t))
           => charge[r] = "successful"

\* BACKGROUND_JOBS.md:105: "Requests without payment for 48+ hours are declined".
TimeoutDeclinesOnlyUnpaid ==
    [][\A r \in Request : DeclineTimedOut(r) => ~isRequestPaid[r]]_vars

-----------------------------------------------------------------------------
(* Liveness *)

Releasable(r) ==
    /\ status[r] = "COMPLETED"
    /\ \A t \in LinkedRows(r) : EscrowPending(t)
    /\ CanRelease(r)

\* A completed request whose payments are all pending in escrow does not wait for
\* ever: it is paid out, or it stops being releasable (the celebrity takes
\* COMPLETED back, a payment outside escrow appears).  "Retries on next run",
\* BACKGROUND_JOBS.md:113.
EscrowEventuallyReleased ==
    \A r \in Request : Releasable(r) ~> (earnings[r] > 0 \/ ~Releasable(r))

Recorded(r) == isRequestPaid[r] /\ RowsByReference(r) # {}

\* The bound on rows is reached: a bound of the model, not of the database.
TableFull == \A t \in TxId : Row(t)

\* What Paystack charged is recorded in the end, through any number of failed
\* handlers and restarts, because the webhook reports its errors.
PaystackChargeEventuallyRecorded ==
    \A r \in Request :
        charge[r] = "successful" /\ channel[r] = "PAYSTACK"
           ~> Recorded(r) \/ ~Exists(r) \/ TableFull

\* A timeout pass ends before it is through with its list.
BrokenOff ==
    /\ timingOut # {} \/ declining # NoRequest
    /\ timingOut' = {}
    /\ declining' = NoRequest
    /\ ~\E r \in Request : DeclineTimedOut(r)

\* There is no room for r's marker row; a pass that has written it needs none.
NoRoomFor(r) == TableFull /\ declining # r

\* A request that stays pending and unpaid is declined in the end, however many
\* passes broke off between its marker row and its status before they stopped doing
\* so (backgroundjobs.service.ts:355), unless it gets a row in pending escrow, as it
\* does after a failed charge: the timeout leaves such a request alone for ever.
UnpaidEventuallyDeclined ==
    <>[][~BrokenOff]_vars =>
       \A r \in Request :
          status[r] = "PENDING" /\ ~isRequestPaid[r]
             ~> \/ status[r] # "PENDING" \/ isRequestPaid[r]
                \/ \E t \in LinkedRows(r) : EscrowPending(t)
                \/ NoRoomFor(r)

\* The fan was charged after he had his payment verified, so its record says PENDING.
\* The provider's event would have set that right; it failed and was answered 200.
WebhookMissed(r) ==
    /\ charge[r] = "successful"
    /\ notification[r]["success"] = "acked"
    /\ RowsByReference(r) # {}
    /\ \A t \in RowsByReference(r) : transactions[t].status = "PENDING"

\* Everything else a release needs is there.
ReadyForRelease(r) ==
    /\ status[r] = "COMPLETED"
    /\ isRequestPaid[r]
    /\ {CelebrityOf[r], SuperAdmin} \subseteq wallets

\* BACKGROUND_JOBS.md:19-25, the job finds payments that are PENDING and verifies them;
\* :81, "If webhook fails, background job will catch it"; :91, "When request is
\* completed, escrow is released".  So a completed request whose webhook was missed is
\* paid out in the end, for as long as the celebrity leaves it COMPLETED.
MissedChargeEventuallyReleased ==
    \A r \in Request :
        WebhookMissed(r) /\ ReadyForRelease(r)
           ~> (earnings[r] > 0 \/ status[r] # "COMPLETED")
=============================================================================
