-------------------------- MODULE MCRequestLimits --------------------------
(***************************************************************************)
(* Instances of RequestLimits for TLC.                                      *)
(***************************************************************************)
EXTENDS RequestLimits, TLC

CONSTANTS fan, star

Symmetry == Permutations(Call)
=============================================================================
