------------------------------ MODULE DebtLedger ------------------------------
(***************************************************************************)
(* What finance is promised of a receivable or a payable: the amount is    *)
(* agreed while nothing is paid, and what is paid never exceeds it.        *)
(***************************************************************************)
EXTENDS Integers

CONSTANTS Accounts, Amounts

VARIABLES owed, paid

Init == owed \in [Accounts -> Amounts] /\ paid = [a \in Accounts |-> 0]

Agree(a) ==
    /\ paid[a] = 0
    /\ \E n \in Amounts : owed' = [owed EXCEPT ![a] = n]
    /\ UNCHANGED paid

\* One payment, or its reversal, may settle several accounts at once.
Settle ==
    /\ paid' \in [Accounts -> Nat]
    /\ \A a \in Accounts : paid'[a] <= owed[a]
    /\ UNCHANGED owed

Next == Settle \/ \E a \in Accounts : Agree(a)

Spec == Init /\ [][Next]_<<owed, paid>>
=============================================================================
