----------------------------- MODULE Settlement -----------------------------
(***************************************************************************)
(* What the escrow promises about the money of a request, without a word    *)
(* about webhooks, passes or rows: a payment is first held, then released,  *)
(* and its release is one step with one payout.  Nothing is taken back.     *)
(***************************************************************************)
EXTENDS Naturals, TLAPS

CONSTANT Request

VARIABLES
    escrow,   \* "none", "held" or "released", per request
    payouts   \* how often the celebrity was paid for it

settlementVars == <<escrow, payouts>>

TypeOK ==
    /\ escrow \in [Request -> {"none", "held", "released"}]
    /\ payouts \in [Request -> Nat]

Init ==
    /\ escrow = [r \in Request |-> "none"]
    /\ payouts = [r \in Request |-> 0]

Hold(r) ==
    /\ escrow[r] = "none"
    /\ escrow' = [escrow EXCEPT ![r] = "held"]
    /\ UNCHANGED payouts

PayOut(r) ==
    /\ escrow[r] = "held"
    /\ escrow' = [escrow EXCEPT ![r] = "released"]
    /\ payouts' = [payouts EXCEPT ![r] = @ + 1]

Next == \E r \in Request : Hold(r) \/ PayOut(r)

Spec == Init /\ [][Next]_settlementVars

-----------------------------------------------------------------------------

\* A payment was paid out once if it is released, and not at all before.
OnePayoutPerRelease ==
    \A r \in Request : payouts[r] = IF escrow[r] = "released" THEN 1 ELSE 0

\* The settlement pays a released payment out exactly once.
THEOREM Settled == Spec => [](TypeOK /\ OnePayoutPerRelease)
<1>1. Init => TypeOK /\ OnePayoutPerRelease
  BY DEF Init, TypeOK, OnePayoutPerRelease
<1>2. TypeOK /\ OnePayoutPerRelease /\ [Next]_settlementVars
        => TypeOK' /\ OnePayoutPerRelease'
  BY DEF TypeOK, OnePayoutPerRelease, Next, Hold, PayOut, settlementVars
<1>3. QED
  BY <1>1, <1>2, PTL DEF Spec
=============================================================================
