----------------------------- MODULE EscrowJobs -----------------------------
(***************************************************************************)
(* The scheduled passes over requests and transactions                      *)
(* (backgroundjobs.service.ts).  A pass lists what it will work on with one *)
(* query and then handles the items one after the other, against a database *)
(* that has moved on.  @nestjs/schedule starts a pass at its time whether   *)
(* or not the previous one has ended: Releaser is the set of release passes *)
(* that can be under way together, and one releaser means that every pass   *)
(* ends within its minute.                                                  *)
(*                                                                         *)
(* checkPendingPayments also looks for transactions in escrow whose payment *)
(* status is PENDING.  No code path creates one (NoEscrowedPendingPayment,  *)
(* an invariant of EscrowPayments and a theorem about it), so the body of   *)
(* that loop is no action here.                                             *)
(***************************************************************************)
EXTENDS Store

CONSTANT Releaser

VARIABLES
    releasing,  \* per release pass: the listed requests it has not handled yet
    timingOut,  \* checkPendingRequests: the listed requests not handled yet
    declining   \* checkPendingRequests: the request between its two writes

jobVars == <<releasing, timingOut, declining>>

JobTypeOK ==
    /\ releasing \in [Releaser -> SUBSET Request]
    /\ timingOut \subseteq Request
    /\ declining \in Request \cup {NoRequest}

JobInit ==
    /\ releasing = [w \in Releaser |-> {}]
    /\ timingOut = {}
    /\ declining = NoRequest

-----------------------------------------------------------------------------
(* releaseEscrowPayments *)

\* Mutant: the listing forgets the escrow condition.
Completed == {r \in Request : status[r] = "COMPLETED"}

\* Mutant: the listing also wants the payment itself to be COMPLETED.
CompletedWithSettledEscrow ==
    {r \in Request : /\ status[r] = "COMPLETED"
                     /\ \A t \in LinkedRows(r) :
                           EscrowPending(t) /\ transactions[t].status = "COMPLETED"}

\* status COMPLETED and `every` linked transaction pending in escrow, which a
\* request without transactions satisfies.
CompletedWithPendingEscrow ==
    {r \in Request : /\ status[r] = "COMPLETED"
                     /\ \A t \in LinkedRows(r) : EscrowPending(t)}

StartReleasePass(w) ==
    /\ releasing[w] = {}
    /\ releasing' = [releasing EXCEPT ![w] = CompletedWithPendingEscrow]
    /\ UNCHANGED <<timingOut, declining>>
    /\ UNCHANGED storeVars

\* releaseEscrowForRequest is one database transaction: it commits when there is
\* a row with the request's reference, both wallets exist and the request still
\* does (the foreign key of the earnings row).  What it read before it is not
\* checked again.
CanRelease(r) ==
    /\ Exists(r)
    /\ RowsByReference(r) # {}
    /\ {CelebrityOf[r], SuperAdmin} \subseteq wallets

Release(r, t) ==
    /\ transactions' = [transactions EXCEPT ![t].escrowStatus = "RELEASED"]
    /\ earnings' = [earnings EXCEPT ![r] = @ + 1]

ReleaseEscrow(w, r) ==
    /\ r \in releasing[w]
    /\ CanRelease(r)
    /\ \E t \in RowsByReference(r) : Release(r, t)
    /\ releasing' = [releasing EXCEPT ![w] = @ \ {r}]
    /\ UNCHANGED <<timingOut, declining>>
    /\ UNCHANGED <<status, channel, isRequestPaid, wallets>>

\* Mutant: the writes are not one database transaction, so the first one stays.
FailReleaseWithoutRollback(w, r) ==
    /\ r \in releasing[w]
    /\ \E t \in RowsByReference(r) :
          transactions' = [transactions EXCEPT ![t].escrowStatus = "RELEASED"]
    /\ releasing' = [releasing EXCEPT ![w] = @ \ {r}]
    /\ UNCHANGED <<timingOut, declining>>
    /\ UNCHANGED <<status, channel, isRequestPaid, wallets, earnings>>

\* Anything it throws rolls the transaction back; the pass goes on with the next.
FailRelease(w, r) ==
    /\ r \in releasing[w]
    /\ releasing' = [releasing EXCEPT ![w] = @ \ {r}]
    /\ UNCHANGED <<timingOut, declining>>
    /\ UNCHANGED storeVars

-----------------------------------------------------------------------------
(* checkPendingRequests, at the end of checkPendingPayments *)

\* Mutant: "If no transaction exists", as the comment has it (357): the marker row of
\* a pass that did not get to the status is one.
UnpaidWithoutRows ==
    {r \in Request : /\ status[r] = "PENDING"
                     /\ ~isRequestPaid[r]
                     /\ LinkedRows(r) = {}}

UnpaidWithoutEscrow ==
    {r \in Request : /\ status[r] = "PENDING"
                     /\ ~isRequestPaid[r]
                     /\ \A t \in LinkedRows(r) : ~EscrowPending(t)}

\* The requests that are listed are older than 48 hours.  There is no clock here:
\* any of those that fit otherwise may be.
StartTimeoutPass ==
    /\ timingOut = {}
    /\ declining = NoRequest
    /\ \E old \in SUBSET UnpaidWithoutEscrow : timingOut' = old
    /\ UNCHANGED <<releasing, declining>>
    /\ UNCHANGED storeVars

TimeoutRow(r) ==
    [request |-> r, reference |-> NoRequest, status |-> "FAILED",
     isInEscrow |-> FALSE, escrowStatus |-> "NULL"]

\* First write: the marker row, under a reference no payment has.
RecordTimeout(r) ==
    /\ r \in timingOut
    /\ declining = NoRequest
    /\ Exists(r)
    /\ InsertRow(TimeoutRow(r))
    /\ declining' = r
    /\ timingOut' = timingOut \ {r}
    /\ UNCHANGED releasing
    /\ UNCHANGED <<status, channel, isRequestPaid, wallets, earnings>>

\* Second write: DECLINED, whatever happened since the request was listed.
DeclineTimedOut(r) ==
    /\ declining = r
    /\ Exists(r)
    /\ status' = [status EXCEPT ![r] = "DECLINED"]
    /\ declining' = NoRequest
    /\ UNCHANGED <<releasing, timingOut>>
    /\ UNCHANGED <<channel, isRequestPaid, transactions, wallets, earnings>>

\* An error in either write ends the whole pass.
FailTimeoutPass ==
    /\ timingOut # {} \/ declining # NoRequest
    /\ timingOut' = {}
    /\ declining' = NoRequest
    /\ UNCHANGED releasing
    /\ UNCHANGED storeVars

\* A restart of the process ends every pass.
StopPasses ==
    /\ releasing' = [w \in Releaser |-> {}]
    /\ timingOut' = {}
    /\ declining' = NoRequest

JobNext ==
    \/ \E w \in Releaser : StartReleasePass(w)
    \/ \E w \in Releaser, r \in Request : ReleaseEscrow(w, r) \/ FailRelease(w, r)
    \/ StartTimeoutPass
    \/ \E r \in Request : RecordTimeout(r) \/ DeclineTimedOut(r)
    \/ FailTimeoutPass
=============================================================================
