---------------------------- MODULE OneTimeToken ----------------------------
(***************************************************************************)
(* What a mailed code or reset token promises, without a word about queries *)
(* and calls: it becomes usable, is used up once, and never comes back.     *)
(* Between finding it and using it up a call may be overtaken by another:   *)
(* what such calls still do by the used token is late, and bounded.         *)
(***************************************************************************)
EXTENDS Naturals, TLAPS

CONSTANTS
    Token,
    MostLate   \* the bound on late acts by one token

VARIABLES
    phase,  \* "none", "live" or "used", per token
    uses,   \* how often it was used up
    acts    \* what was done by it after that

tokenVars == <<phase, uses, acts>>

TypeOK ==
    /\ phase \in [Token -> {"none", "live", "used"}]
    /\ uses \in [Token -> Nat]
    /\ acts \in [Token -> Nat]

Init ==
    /\ phase = [t \in Token |-> "none"]
    /\ uses = [t \in Token |-> 0]
    /\ acts = [t \in Token |-> 0]

\* The token t moves on, and no other.
Move(t, from, to) ==
    /\ phase[t] = from /\ phase'[t] = to
    /\ phase' = [phase EXCEPT ![t] = to]

Issue(t) ==
    /\ Move(t, "none", "live")
    /\ UNCHANGED <<uses, acts>>

\* There is no other end of a live token: an expired one is refused, not removed.
Use(t) ==
    /\ Move(t, "live", "used")
    /\ uses' = [uses EXCEPT ![t] = @ + 1]
    /\ UNCHANGED acts

ActLate(t) ==
    /\ phase[t] = "used"
    /\ acts[t] < MostLate
    /\ acts' = [acts EXCEPT ![t] = @ + 1]
    /\ UNCHANGED <<phase, uses>>

Next == \E t \in Token : Issue(t) \/ Use(t) \/ ActLate(t)

Spec == Init /\ [][Next]_tokenVars

-----------------------------------------------------------------------------

\* A token was used once if it is used up, and not at all before; nothing is done
\* late by a token that is not, and no more than the bound by one that is.
UsedOnce ==
    \A t \in Token :
       IF phase[t] = "used"
         THEN uses[t] = 1 /\ acts[t] <= MostLate
         ELSE uses[t] = 0 /\ acts[t] = 0

\* No order of issues, uses and late acts breaks it.
THEOREM OneUse ==
    ASSUME MostLate \in Nat
    PROVE  Spec => [](TypeOK /\ UsedOnce)
<1>1. Init => TypeOK /\ UsedOnce
  BY DEF Init, TypeOK, UsedOnce
<1>2. ASSUME TypeOK, UsedOnce, [Next]_tokenVars
      PROVE  TypeOK' /\ UsedOnce'
  <2>1. ASSUME NEW t \in Token, Issue(t)
        PROVE  TypeOK' /\ UsedOnce'
    BY <1>2, <2>1 DEF TypeOK, UsedOnce, Issue, Move
  <2>2. ASSUME NEW t \in Token, Use(t)
        PROVE  TypeOK' /\ UsedOnce'
    BY <1>2, <2>2 DEF TypeOK, UsedOnce, Use, Move
  <2>3. ASSUME NEW t \in Token, ActLate(t)
        PROVE  TypeOK' /\ UsedOnce'
    BY <1>2, <2>3 DEF TypeOK, UsedOnce, ActLate
  <2>4. CASE UNCHANGED tokenVars
    BY <1>2, <2>4 DEF TypeOK, UsedOnce, tokenVars
  <2>5. QED
    BY <1>2, <2>1, <2>2, <2>3, <2>4 DEF Next
<1>3. QED
  BY <1>1, <1>2, PTL DEF Spec
=============================================================================
