------------------------------- MODULE Store -------------------------------
(***************************************************************************)
(* The rows of the database that requests, payments and the escrow jobs     *)
(* share (prisma/schema.prisma), and the queries they are read with.  Every *)
(* other module of the payment system EXTENDS this one; the statements of   *)
(* the services are the actions of those modules.                           *)
(*                                                                         *)
(* A request's paymentReference is unique (schema.prisma:96), so a          *)
(* transaction's reference is modelled by the request whose                 *)
(* paymentReference it equals.                                              *)
(***************************************************************************)
EXTENDS Naturals

CONSTANTS
    Request,      \* ids of the rows of `requests`
    TxId,         \* ids of the rows of `wallet_transactions`: the bound on rows
    Celebrity,    \* users with a celebrity profile
    CelebrityOf,  \* the celebrity a request is made to
    SuperAdmin,   \* the owner of the wallet with isSuperAdmin = true
    NoRequest,    \* a null requestId, or a reference that is no paymentReference
    NoRow         \* no row

VARIABLES
    status,         \* requests.status, or where the row is in its life
    channel,        \* the provider the payment was initialised with
    isRequestPaid,  \* requests.isRequestPaid
    transactions,   \* the rows of wallet_transactions
    wallets,        \* the users that have a wallet
    earnings        \* rows of wallet_earnings_history per request: its payouts

storeVars ==
    <<status, channel, isRequestPaid, transactions, wallets, earnings>>

RequestStatus == {"PENDING", "IN_PROGRESS", "COMPLETED", "DISPUTED", "DECLINED"}

TransactionStatus == {"PENDING", "COMPLETED", "FAILED"}

EscrowStatus == {"NULL", "PENDING", "RELEASED"}

Channel == {"PAYSTACK", "FLUTTERWAVE"}

WalletOwner == Celebrity \cup {SuperAdmin}

Transaction ==
    [request: Request \cup {NoRequest}, reference: Request \cup {NoRequest},
     status: TransactionStatus, isInEscrow: BOOLEAN, escrowStatus: EscrowStatus]

ASSUME StoreAssumption ==
    /\ CelebrityOf \in [Request -> Celebrity]
    /\ NoRequest \notin Request
    /\ NoRow \notin TxId
    /\ NoRow \notin Transaction

-----------------------------------------------------------------------------
(* Queries *)

Exists(r) == status[r] \in RequestStatus

Row(t) == transactions[t] # NoRow

\* requests.transaction: the rows linked to r by their requestId.
LinkedRows(r) == {t \in TxId : Row(t) /\ transactions[t].request = r}

\* transaction.findFirst({where: {reference}}) returns one of these.
RowsByReference(r) == {t \in TxId : Row(t) /\ transactions[t].reference = r}

EscrowPending(t) ==
    transactions[t].isInEscrow /\ transactions[t].escrowStatus = "PENDING"

Released(t) == transactions[t].escrowStatus = "RELEASED"

\* transaction.create: the id is new, and says nothing else.
InsertRow(row) ==
    \E t \in TxId : /\ ~Row(t)
                    /\ t = CHOOSE u \in TxId : ~Row(u)
                    /\ transactions' = [transactions EXCEPT ![t] = row]

-----------------------------------------------------------------------------

StoreTypeOK ==
    /\ status \in [Request -> RequestStatus \cup {"unborn", "deleted"}]
    /\ channel \in [Request -> Channel]
    /\ isRequestPaid \in [Request -> BOOLEAN]
    /\ transactions \in [TxId -> Transaction \cup {NoRow}]
    /\ wallets \subseteq WalletOwner
    /\ earnings \in [Request -> Nat]

StoreInit ==
    /\ status = [r \in Request |-> "unborn"]
    /\ channel \in [Request -> Channel]
    /\ isRequestPaid = [r \in Request |-> FALSE]
    /\ transactions = [t \in TxId |-> NoRow]
    /\ wallets = {}
    /\ earnings = [r \in Request |-> 0]

\* A wallet is created when a celebrity's onboarding completes; the super
\* admin's is set up by hand.  A user has at most one (schema.prisma:220).
CreateWallet(u) ==
    /\ u \notin wallets
    /\ wallets' = wallets \cup {u}
    /\ UNCHANGED <<status, channel, isRequestPaid, transactions, earnings>>
=============================================================================
