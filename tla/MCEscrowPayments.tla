-------------------------- MODULE MCEscrowPayments --------------------------
(***************************************************************************)
(* Instances of EscrowPayments for TLC.                                     *)
(***************************************************************************)
EXTENDS EscrowPayments, TLC

CONSTANTS r1, star

MCCelebrityOf == [r \in Request |-> star]

\* Handlers and release passes are interchangeable.
Symmetry == Permutations(Handler) \cup Permutations(Releaser)
=============================================================================
