----------------------------- MODULE MCPayouts -----------------------------
(***************************************************************************)
(* An instance of Payouts for TLC: two requests to one celebrity, so that   *)
(* payouts meet in her wallet.  Prices and fees are small, so that halves   *)
(* of a cent, fees above the amount and a rate of 0 all occur.              *)
(***************************************************************************)
EXTENDS Payouts, TLC

CONSTANTS star

MCCelebrityOf == [r \in Request |-> star]

MCFeeSetting ==
    {[calculationType |-> "PERCENTAGE", value |-> 10],
     [calculationType |-> "FIXED", value |-> 6],
     NoRow}

MCServiceFee == [USD |-> 1, NGN |-> 3]

\* Requests are interchangeable: all are made to the same celebrity.
Symmetry == Permutations(Request)
=============================================================================
