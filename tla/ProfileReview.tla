--------------------------- MODULE ProfileReview ---------------------------
(***************************************************************************)
(* What the onboarding promises a celebrity and her reviewers, without a    *)
(* word about calls, uploads and queries: a profile is built step by step,  *)
(* is listed for review with its last step and not before, and leaves the   *)
(* list by one decision or by a new start.  Once off the list it is listed  *)
(* again only after all the steps.                                          *)
(***************************************************************************)
EXTENDS Naturals

CONSTANT User

VARIABLES
    step,    \* the step the user is at; 0 without a profile, 5 when all are done
    listed   \* users whose profile waits for a decision

reviewVars == <<step, listed>>

Init ==
    /\ step = [u \in User |-> 0]
    /\ listed = {}

\* Registering is the first step.
Register(u) ==
    /\ step[u] = 0
    /\ step' = [step EXCEPT ![u] = 2]
    /\ UNCHANGED listed

Advance(u) ==
    /\ step[u] \in 1..3
    /\ step' = [step EXCEPT ![u] = @ + 1]
    /\ UNCHANGED listed

Submit(u) ==
    /\ step[u] = 4
    /\ step' = [step EXCEPT ![u] = 5]
    /\ listed' = listed \cup {u}

Decide(u) ==
    /\ u \in listed
    /\ listed' = listed \ {u}
    /\ UNCHANGED step

StartOver(u) ==
    /\ step[u] # 0
    /\ step' = [step EXCEPT ![u] = 1]
    /\ listed' = listed \ {u}

Next ==
    \E u \in User :
       Register(u) \/ Advance(u) \/ Submit(u) \/ Decide(u) \/ StartOver(u)

Spec == Init /\ [][Next]_reviewVars
=============================================================================
