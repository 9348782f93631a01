----------------------------- MODULE MCSettlement -----------------------------
(***************************************************************************)
(* Small instances of the settlement of debts for TLC.                     *)
(***************************************************************************)
EXTENDS Settlement, TLC

\* Payments are alike in every definition.
SamePayments == Permutations(Payments)
=============================================================================
