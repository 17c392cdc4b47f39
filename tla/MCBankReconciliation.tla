------------------------ MODULE MCBankReconciliation ------------------------
(* Instances of BankReconciliation for TLC. *)
EXTENDS BankReconciliation, TLC

CONSTANT x1

\* The row is of the first day, so a period may end before it has rows.
FirstDay == x1 :> 1

Symmetry == Permutations(Reconciliations) \cup Permutations(Users) \cup Permutations(Workers)
=============================================================================
