----------------------------- MODULE RunPromise -----------------------------
(***************************************************************************)
(* What the agent promises the user who asks: a question is worked on, its *)
(* answer grows piece by piece and never shrinks, and it ends exactly once *)
(* - completed, failed or cancelled - with the pieces it has by then.      *)
(***************************************************************************)
EXTENDS Integers

CONSTANT Questions

VARIABLES stage, pieces

pvars == <<stage, pieces>>

Init ==
    /\ stage = [q \in Questions |-> "unasked"]
    /\ pieces = [q \in Questions |-> 0]

Ask(q) ==
    /\ stage[q] = "unasked"
    /\ stage' = [stage EXCEPT ![q] = "working"]
    /\ UNCHANGED pieces

Grow(q) ==
    /\ stage[q] = "working"
    /\ pieces' = [pieces EXCEPT ![q] = @ + 1]
    /\ UNCHANGED stage

End(q) ==
    /\ stage[q] = "working"
    /\ \E how \in {"completed", "failed", "cancelled"} :
         stage' = [stage EXCEPT ![q] = how]
    /\ UNCHANGED pieces

Next == \E q \in Questions : Ask(q) \/ Grow(q) \/ End(q)

Spec == Init /\ [][Next]_pvars
=============================================================================
