---------------------------- MODULE MCAuthTokens ----------------------------
(***************************************************************************)
(* Instances of AuthTokens for TLC.                                         *)
(***************************************************************************)
EXTENDS AuthTokens, TLC

Symmetry ==
    Permutations(User) \cup Permutations(Call) \cup Permutations(CodeRow)
=============================================================================
