---------------------------- MODULE MCOnboarding ----------------------------
(***************************************************************************)
(* Instances of Onboarding for TLC.                                         *)
(***************************************************************************)
EXTENDS Onboarding, TLC

CONSTANTS hasty, careful, c1, c2, c3

\* One user makes two calls at a time, the other one.
MCUserOf == [c \in Call |-> IF c = c3 THEN careful ELSE hasty]

\* Bound: the hasty user is not followed once she has got rows outside her profile,
\* which decide nothing but whether a later insertion of hers fails.
HastyHasNoRows == hasty \notin wallets \cup limits

\* The hasty user's calls are interchangeable.
Symmetry == Permutations({c1, c2})
=============================================================================
