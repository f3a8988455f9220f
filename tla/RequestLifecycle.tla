-------------------------- MODULE RequestLifecycle --------------------------
(***************************************************************************)
(* The operations of request.service.ts that change a request: create,      *)
(* changeRequestStatus, updateVideo (split at the upload it awaits) and     *)
(* delete.                                                                  *)
(***************************************************************************)
EXTENDS Store

VARIABLE uploading  \* requests with an updateVideo call past its status check

lifecycleVars == <<uploading>>

LifecycleTypeOK == uploading \subseteq Request

LifecycleInit == uploading = {}

-----------------------------------------------------------------------------

\* create: the payment is initialised with the provider first, then the row is
\* written.  Which provider depends on the fan's country and currency.
CreateRequest(r) ==
    /\ status[r] = "unborn"
    /\ status' = [status EXCEPT ![r] = "PENDING"]
    /\ UNCHANGED <<channel, isRequestPaid, transactions, wallets, earnings>>
    /\ UNCHANGED uploading

\* Mutant: the status is written under the name the activity log has for it
\* (request.service.ts:553), which is no RequestStatus.
ChangeRequestStatusAsLogged(r, s) ==
    /\ Exists(r)
    /\ status' = [status EXCEPT ![r] = IF s = "IN_PROGRESS" THEN "ACCEPTED" ELSE s]
    /\ UNCHANGED <<channel, isRequestPaid, transactions, wallets, earnings>>
    /\ UNCHANGED uploading

\* changeRequestStatus: the celebrity sets any status.  Neither the status it
\* replaces nor isRequestPaid is looked at.  The whole body is written (521-524); it
\* is taken to hold what its type declares, the status and nothing else
\* (requests.dto.ts:26-30).
ChangeRequestStatus(r, s) ==
    /\ Exists(r)
    /\ status' = [status EXCEPT ![r] = s]
    /\ UNCHANGED <<channel, isRequestPaid, transactions, wallets, earnings>>
    /\ UNCHANGED uploading

\* updateVideo up to the upload: the status is checked here and not again.
StartVideoUpload(r) ==
    /\ status[r] = "IN_PROGRESS"
    /\ r \notin uploading
    /\ uploading' = uploading \cup {r}
    /\ UNCHANGED storeVars

\* updateVideo after the upload: COMPLETED whatever the status has become.
FinishVideoUpload(r) ==
    /\ r \in uploading
    /\ Exists(r)
    /\ uploading' = uploading \ {r}
    /\ status' = [status EXCEPT ![r] = "COMPLETED"]
    /\ UNCHANGED <<channel, isRequestPaid, transactions, wallets, earnings>>

\* The upload fails, or the row is gone when it is to be updated.
FailVideoUpload(r) ==
    /\ r \in uploading
    /\ uploading' = uploading \ {r}
    /\ UNCHANGED storeVars

\* Mutant: the schema cascades the deletion to the request's transactions.
DeleteRequestCascade(r) ==
    /\ Exists(r)
    /\ earnings[r] = 0
    /\ status' = [status EXCEPT ![r] = "deleted"]
    /\ transactions' =
          [t \in TxId |-> IF t \in LinkedRows(r) THEN NoRow ELSE transactions[t]]
    /\ UNCHANGED <<channel, isRequestPaid, wallets, earnings>>
    /\ UNCHANGED uploading

\* Mutant: the earnings row lets go of its request (onDelete: SetNull).
DeletePaidOutRequest(r) ==
    /\ Exists(r)
    /\ status' = [status EXCEPT ![r] = "deleted"]
    /\ transactions' =
          [t \in TxId |-> IF t \in LinkedRows(r)
                            THEN [transactions[t] EXCEPT !.request = NoRequest]
                            ELSE transactions[t]]
    /\ UNCHANGED <<channel, isRequestPaid, wallets, earnings>>
    /\ UNCHANGED uploading

\* delete: refused by the foreign key of wallet_earnings_history once there is a
\* payout; the linked transactions stay, with a null requestId (onDelete: SetNull).
DeleteRequest(r) ==
    /\ Exists(r)
    /\ earnings[r] = 0
    /\ status' = [status EXCEPT ![r] = "deleted"]
    /\ transactions' =
          [t \in TxId |-> IF t \in LinkedRows(r)
                            THEN [transactions[t] EXCEPT !.request = NoRequest]
                            ELSE transactions[t]]
    /\ UNCHANGED <<channel, isRequestPaid, wallets, earnings>>
    /\ UNCHANGED uploading

LifecycleNext ==
    \E r \in Request :
       \/ CreateRequest(r)
       \/ \E s \in RequestStatus : ChangeRequestStatus(r, s)
       \/ StartVideoUpload(r)
       \/ FinishVideoUpload(r)
       \/ FailVideoUpload(r)
       \/ DeleteRequest(r)
=============================================================================
